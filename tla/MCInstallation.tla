---------------------------- MODULE MCInstallation ----------------------------
(* Installation with two kinds of hosts, one the registry supports and one it    *)
(* does not, each in the kubeadm and a TLS mode, and with a ByoCluster named like *)
(* its Cluster and one that is not.                                              *)
EXTENDS Installation

Supported == [release |-> "22.04", arch |-> "amd64"]
Unsupported == [release |-> "18.04", arch |-> "arm64"]

MCKinds ==
    [mode : {"kubeadm", "online"}, host : {Supported}, alike : {TRUE}]
      \cup [mode : {"kubeadm", "offline"}, host : {Unsupported}, alike : {TRUE}]
      \cup {[mode |-> "kubeadm", host |-> Supported, alike |-> FALSE],
            [mode |-> "online", host |-> Unsupported, alike |-> FALSE]}
==============================================================================
