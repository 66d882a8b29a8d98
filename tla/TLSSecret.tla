------------------------------- MODULE TLSSecret -------------------------------
(***************************************************************************)
(* What createBootstrapSecretTLSBootstrap puts into a machine's TLS         *)
(* bootstrap secret, from what it finds in the clusters.  A value is kept   *)
(* as the fact that it is there.                                            *)
(***************************************************************************)
EXTENDS FiniteSets

DataKeys == {"bootstrap-kubeconfig", "ca.crt", "value", "kubelet-config.yaml", "kube-proxy.kubeconfig"}

(* ref: the BootstrapKubeconfig the machine names has its data;               *)
(* data: the keys of the Machine's data secret, "value" when its cloud-init    *)
(*   holds a CA (the empty set: there is no secret, or it cannot be read);     *)
(* local: the manager's own rest config, and whether it has a CA;              *)
(* token: the secret of a new bootstrap token can be created;                  *)
(* remote: the target cluster can be reached, the ConfigMap of kubelet-config  *)
(*   and the keys of that of kube-proxy it has.                                *)
Sources ==
    [ref : BOOLEAN, data : SUBSET DataKeys, local : {"none", "config", "ca"}, token : BOOLEAN,
     remote : [reached : BOOLEAN, kubelet : {"config", "no key", "none"},
               proxy : {{"none"}} \cup SUBSET {"config.conf", "config.yaml", "kube-proxy.kubeconfig"}]]

(* extractCAFromKubeconfig unmarshals JSON into fields whose tags only YAML     *)
(* knows, so it finds no CA in a well-formed kubeconfig.                        *)
CAFromKubeconfig == FALSE

(* Method 1, and method 3 where method 1 has nothing.  Method 2 is not for the  *)
(* TLS mode.                                                                    *)
FoundKubeconfig(src) == src.ref \/ "bootstrap-kubeconfig" \in src.data

FoundCA(src) ==
    \/ FoundKubeconfig(src) /\ CAFromKubeconfig
    \/ ~src.ref /\ src.data \cap {"ca.crt", "value"} # {}

(* Only when neither was found a kubeconfig is generated, with a new token; its *)
(* CA is not found in it either.                                                *)
Generated(src) ==
    /\ ~FoundCA(src) /\ ~FoundKubeconfig(src)
    /\ src.local # "none" /\ src.token

HasKubeconfig(src) == FoundKubeconfig(src) \/ Generated(src)
HasCA(src) == FoundCA(src) \/ (Generated(src) /\ CAFromKubeconfig)

(* The ConfigMap of the target cluster, a default when it has none, and the      *)
(* data secret's when the secret has no such key so far.                         *)
KubeletConfig(src) ==
    \/ src.remote.reached /\ src.remote.kubelet # "no key"
    \/ "kubelet-config.yaml" \in src.data

KubeProxyConfig(src) ==
    /\ src.remote.reached
    /\ src.remote.proxy \cap {"none", "config.conf", "config.yaml"} # {}

(* Found, or generated with a CA, or else with the token of the kubeconfig. *)
KubeProxyKubeconfig(src) ==
    \/ src.remote.reached /\ "kube-proxy.kubeconfig" \in src.remote.proxy
    \/ "kube-proxy.kubeconfig" \in src.data
    \/ HasCA(src) \/ src.local = "ca" \/ HasKubeconfig(src)

(* The keys of the secret; none: the function returns an error. *)
TLSBootstrapSecret(src) ==
    IF ~HasCA(src) /\ ~HasKubeconfig(src) THEN {}
    ELSE {k \in {"ca.crt", "bootstrap-kubeconfig", "kubelet-config.yaml", "kube-proxy-config.yaml",
                 "kube-proxy.kubeconfig"} :
             CASE k = "ca.crt" -> HasCA(src)
               [] k = "bootstrap-kubeconfig" -> HasKubeconfig(src)
               [] k = "kubelet-config.yaml" -> KubeletConfig(src)
               [] k = "kube-proxy-config.yaml" -> KubeProxyConfig(src)
               [] k = "kube-proxy.kubeconfig" -> KubeProxyKubeconfig(src)}
==============================================================================
