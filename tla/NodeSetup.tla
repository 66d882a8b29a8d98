------------------------------- MODULE NodeSetup -------------------------------
(***************************************************************************)
(* The agent's work on its host, step by step: installing, bootstrapping in *)
(* the TLS mode (or by cloud-init), resetting, and beside it, on a thread    *)
(* of its own, the drift detector that starts services again.  The agent     *)
(* may stop between any two steps, and every step may fail.                  *)
(*                                                                         *)
(* Files and processes are kept as the number of the machine they were       *)
(* written or started for; 0: there is none.                                 *)
(***************************************************************************)
EXTENDS TLSSecret, Naturals, Sequences

CONSTANTS MaxMachines,    \* bound: machines the host is claimed for, one after the other
          FaultKinds,     \* the faults that may happen
          MaxFaults       \* bound: how many of them

AllFaultKinds == {"local",     \* a step on the host fails
                  "api",       \* a call of the API server fails
                  "agent",     \* the agent stops and is started again
                  "service"}   \* a service dies

ASSUME MachinesAssumption == MaxMachines \in Nat
ASSUME FaultAssumption == FaultKinds \subseteq AllFaultKinds /\ MaxFaults \in Nat

VARIABLES mode,       \* the join and download mode
          manage,     \* ManageKubeProxy
          binaries,   \* the Kubernetes binaries are on the host
          keys,       \* the keys of the TLS bootstrap secret
          host,       \* the ByoHost
          disk,       \* the files of the agent
          loaded,     \* the units systemd has loaded
          svc,        \* the services
          agent,      \* the reconcile in progress
          drift,      \* the service the drift detector is about to start
          spoiled,    \* what went wrong in the last cleanup (history)
          faults

vars == <<mode, manage, binaries, keys, host, disk, loaded, svc, agent, drift, spoiled, faults>>

-----------------------------------------------------------------------------
Machines == 1..MaxMachines
Gens == 0..MaxMachines

ConfigFiles == {"bootstrap-kubeconfig", "ca", "kubelet-config", "proxy-config", "proxy-kubeconfig"}
Units == {"kubelet-unit", "proxy-unit"}

(* caPaths: pki/ca.crt (ca), its two copies elsewhere below /etc/kubernetes, and  *)
(* the host's own bundle in /etc/ssl/certs.                                       *)
CAPaths == {"ca", "ca-copies", "ca-bundle"}

Files == ConfigFiles \cup CAPaths \cup Units \cup {"kubelet.conf", "cloud-init"}

(* reconcileNormal's steps in the two modes. *)
TLSSteps == <<"clean", "secret", "ca", "bootstrap-kubeconfig", "kubelet-config", "proxy-config",
              "proxy-kubeconfig", "dirs", "kubelet-unit", "reload", "kubelet-start", "proxy-unit",
              "reload", "proxy-start">>
CloudInitSteps == <<"clean", "cloud-init", "runcmd">>
Steps == CASE mode = "kubeadm" -> CloudInitSteps
           [] mode # "kubeadm" /\ manage -> TLSSteps
           [] OTHER -> SubSeq(TLSSteps, 1, 11)

ResetSteps == <<"kubeadm-reset", "stop-kubelet", "stop-containerd", "stop-proxy", "remove-files",
                "reload", "remove-dirs">>

(* What can go wrong in a cleanup: a service is started or not stopped, one of    *)
(* the files, one of the directories is not removed.                              *)
Mishaps == {"service", "files", "dirs"}

(* why: what a reset is for; comp, boot: the conditions to be patched. *)
Recs == [pc : {"idle", "install", "boot", "proxy", "reset", "patch"}, i : 1..14,
         why : {"none", "failed", "clean"}, comp : BOOLEAN, boot : BOOLEAN]

TypeOK ==
    /\ mode \in {"kubeadm", "online", "offline"} /\ manage \in BOOLEAN /\ binaries \in BOOLEAN
    /\ keys \in SUBSET {"ca.crt", "bootstrap-kubeconfig"}
    /\ host \in [state : {"free", "claimed", "marked"}, machine : Gens, comp : BOOLEAN, boot : BOOLEAN]
    /\ disk \in [Files -> Gens]
    /\ loaded \in [Units -> Gens]
    /\ svc \in [want : BOOLEAN, kubelet : Gens, containerd : BOOLEAN, proxy : Gens]
    /\ agent \in Recs /\ (agent.pc = "reset" => agent.i <= Len(ResetSteps))
    /\ drift \in {"none", "containerd", "kubelet"}
    /\ spoiled \subseteq Mishaps
    /\ faults \in 0..MaxFaults

Idle == [pc |-> "idle", i |-> 1, why |-> "none", comp |-> FALSE, boot |-> FALSE]

(* The secrets the controller can make, as the agent tells them apart: a missing *)
(* configuration is replaced by a default.                                       *)
Init ==
    /\ mode \in {"kubeadm", "online", "offline"} /\ manage \in BOOLEAN /\ binaries \in BOOLEAN
    /\ keys \in {TLSBootstrapSecret(src) \cap {"ca.crt", "bootstrap-kubeconfig"} : src \in Sources}
    /\ keys # {}
    /\ host = [state |-> "free", machine |-> 0, comp |-> FALSE, boot |-> FALSE]
    /\ disk = [f \in Files |-> 0] /\ loaded = [u \in Units |-> 0]
    /\ svc = [want |-> FALSE, kubelet |-> 0, containerd |-> binaries, proxy |-> 0]
    /\ agent = Idle /\ drift = "none" /\ spoiled = {}
    /\ faults = 0

Fault(k) == k \in FaultKinds /\ faults < MaxFaults /\ faults' = faults + 1

Spoil(x) == spoiled' = IF agent.why = "clean" THEN spoiled \cup {x} ELSE spoiled

-----------------------------------------------------------------------------
(* systemd *)

DaemonReload == loaded' = [u \in Units |-> disk[u]]

(* Starting a unit that runs changes nothing; kubelet's wants containerd.  The   *)
(* unit's Restart=always goes on trying to run it.                               *)
StartKubelet == svc' = [svc EXCEPT !.want = TRUE, !.containerd = binaries]

StartProxy ==
    svc' = [svc EXCEPT !.proxy = IF @ = 0 /\ binaries THEN disk["proxy-kubeconfig"] ELSE @]

(* A kubelet runs that finds its configuration and credentials; those it has     *)
(* obtained before come first.                                                   *)
KubeletRuns ==
    /\ svc.want /\ svc.kubelet = 0 /\ binaries
    /\ loaded["kubelet-unit"] # 0 /\ disk["kubelet-config"] # 0
    /\ LET g == IF disk["kubelet.conf"] # 0 THEN disk["kubelet.conf"] ELSE disk["bootstrap-kubeconfig"]
       IN /\ g # 0
          /\ svc' = [svc EXCEPT !.kubelet = g]
          /\ disk' = [disk EXCEPT !["kubelet.conf"] = g]
    /\ UNCHANGED <<mode, manage, binaries, keys, host, loaded, agent, drift, spoiled, faults>>

ServiceDies ==
    /\ Fault("service")
    /\ \/ svc.kubelet # 0 /\ svc' = [svc EXCEPT !.kubelet = 0]
       \/ svc.containerd /\ svc' = [svc EXCEPT !.containerd = FALSE]
    /\ UNCHANGED <<mode, manage, binaries, keys, host, disk, loaded, agent, drift, spoiled>>

-----------------------------------------------------------------------------
(* The agent's reconcile *)

(* Faulty variant: a host is bootstrapped in the reconcile that installs it only. *)
ReconcileOnce ==
    /\ agent.pc = "idle"
    /\ LET r == [Idle EXCEPT !.comp = host.comp, !.boot = host.boot]
       IN \/ /\ host.state = "marked" /\ spoiled' = {}
             /\ agent' = [r EXCEPT !.pc = "reset", !.why = "clean"]
          \/ /\ host.state = "claimed" /\ ~host.comp /\ UNCHANGED spoiled
             /\ agent' = [r EXCEPT !.pc = "install"]
    /\ UNCHANGED <<mode, manage, binaries, keys, host, disk, loaded, svc, drift, faults>>

(* Reconcile: a marked host is cleaned, a claimed one installed and bootstrapped *)
(* as long as its conditions say it is not.                                      *)
AgentReconcile ==
    /\ agent.pc = "idle"
    /\ LET r == [Idle EXCEPT !.comp = host.comp, !.boot = host.boot]
       IN \/ /\ host.state = "marked" /\ spoiled' = {}
             /\ agent' = [r EXCEPT !.pc = "reset", !.why = "clean"]
          \/ /\ host.state = "claimed" /\ ~host.boot /\ UNCHANGED spoiled
             /\ agent' = [r EXCEPT !.pc = IF host.comp THEN "boot" ELSE "install"]
    /\ UNCHANGED <<mode, manage, binaries, keys, host, disk, loaded, svc, drift, faults>>

(* A command: the installation script, the join command, one of systemctl. *)
InstallScript == [special |-> TRUE]
JoinCommand == [special |-> TRUE]

(* RunCmd runs no command with a character that is special to the shell, and     *)
(* returns no error then.                                                        *)
Runs(cmd) == ~cmd.special

(* executeInstallerController, or the offline mode that takes the binaries for   *)
(* installed.                                                                    *)
Install ==
    /\ agent.pc = "install"
    /\ \/ /\ agent' = [agent EXCEPT !.pc = "boot", !.comp = TRUE] /\ UNCHANGED faults
          /\ binaries' = (binaries \/ (mode # "offline" /\ Runs(InstallScript)))
       \/ /\ mode # "offline" /\ Fault("api") /\ UNCHANGED binaries
          /\ agent' = [agent EXCEPT !.pc = "patch"]
    /\ UNCHANGED <<mode, manage, keys, host, disk, loaded, svc, drift, spoiled>>

(* The step at hand; after the last one the node is bootstrapped. *)
Step == Steps[agent.i]
Advance ==
    agent' = IF agent.i < Len(Steps) THEN [agent EXCEPT !.i = @ + 1]
             ELSE [agent EXCEPT !.pc = IF mode = "kubeadm" THEN "patch" ELSE "proxy", !.boot = TRUE]

(* Faulty variant: the reset is not done from its start. *)
FailedHere ==
    IF Step = "ca" THEN Advance
    ELSE agent' = IF Step = "clean" THEN [agent EXCEPT !.pc = "patch"]
                  ELSE [agent EXCEPT !.pc = "reset", !.why = "failed"]

(* A failure in bootstrapK8sNode makes reconcileNormal reset the node; that of   *)
(* cleaning a directory does not, and that of writing the CA is ignored.         *)
Failed ==
    IF Step = "ca" THEN Advance
    ELSE agent' = IF Step = "clean" THEN [agent EXCEPT !.pc = "patch"]
                  ELSE [agent EXCEPT !.pc = "reset", !.i = 1, !.why = "failed"]

(* Faulty variant: the bootstrap kubeconfig is taken from the CA's key. *)
WrittenFromCA(f) ==
    CASE f = "ca" -> keys # {}
      [] f = "bootstrap-kubeconfig" -> "ca.crt" \in keys
      [] OTHER -> TRUE

(* What bootstrapK8sNodeTLS has to write: the CA is looked for in the kubeconfig *)
(* too, a kubelet or kube-proxy configuration that is missing is a default, and  *)
(* kube-proxy's kubeconfig is made from the agent's own.                         *)
Written(f) ==
    CASE f = "ca" -> keys # {}
      [] f = "bootstrap-kubeconfig" -> "bootstrap-kubeconfig" \in keys
      [] OTHER -> TRUE

Write(S) == [f \in Files |-> IF f \in S THEN host.machine ELSE disk[f]]

(* A step that writes a file: one of the TLS mode, or cloud-init's write_files. *)
WriteFile ==
    /\ agent.pc = "boot" /\ Step \in Files
    /\ disk' = IF Written(Step) THEN Write(IF Step = "ca" THEN CAPaths ELSE {Step}) ELSE disk
    /\ Advance
    /\ UNCHANGED <<mode, manage, binaries, keys, host, loaded, svc, drift, spoiled, faults>>

(* A step fails; some of the CA's paths may have been written by then. *)
StepFails ==
    /\ agent.pc = "boot" /\ Fault(IF Step = "secret" THEN "api" ELSE "local")
    /\ disk' \in IF Step = "ca" /\ Written("ca") THEN {Write(S) : S \in SUBSET CAPaths} ELSE {disk}
    /\ Failed
    /\ UNCHANGED <<mode, manage, binaries, keys, host, loaded, svc, drift, spoiled>>

(* The steps that write no file: cleank8sdirectories removes what cloud-init has  *)
(* written, the secret is read, directories are made, cloud-init's commands run.  *)
OtherStep ==
    /\ agent.pc = "boot" /\ Step \in {"clean", "secret", "dirs", "runcmd"}
    /\ disk' = IF Step = "clean" THEN [disk EXCEPT !["cloud-init"] = 0] ELSE disk
    /\ svc' = IF Step = "runcmd" /\ Runs(JoinCommand)
              THEN [svc EXCEPT !.want = TRUE, !.kubelet = host.machine] ELSE svc
    /\ Advance
    /\ UNCHANGED <<mode, manage, binaries, keys, host, loaded, drift, spoiled, faults>>

SystemctlStep ==
    /\ agent.pc = "boot" /\ Advance
    /\ \/ Step = "reload" /\ DaemonReload /\ UNCHANGED svc
       \/ Step = "kubelet-start" /\ StartKubelet /\ UNCHANGED loaded
       \/ Step = "proxy-start" /\ StartProxy /\ UNCHANGED loaded
    /\ UNCHANGED <<mode, manage, binaries, keys, host, disk, drift, spoiled, faults>>

(* startKubeProxyIfNeeded: its errors are ignored. *)
ProxyIfNeeded ==
    /\ agent.pc = "proxy"
    /\ agent' = [agent EXCEPT !.pc = "patch"]
    /\ \/ (~manage \/ svc.proxy # 0) /\ UNCHANGED <<disk, loaded, svc, faults>>
       \/ /\ manage /\ svc.proxy = 0 /\ UNCHANGED faults
          /\ disk' = [disk EXCEPT !["proxy-config"] = IF @ = 0 THEN host.machine ELSE @,
                                  !["proxy-unit"] = host.machine]
          /\ loaded' = [loaded EXCEPT !["kubelet-unit"] = disk["kubelet-unit"],
                                      !["proxy-unit"] = host.machine]
          /\ StartProxy
       \/ /\ manage /\ svc.proxy = 0 /\ Fault("local") /\ UNCHANGED <<loaded, svc>>
          /\ disk' \in {disk, [disk EXCEPT !["proxy-unit"] = host.machine]}
    /\ UNCHANGED <<mode, manage, binaries, keys, host, drift, spoiled>>

-----------------------------------------------------------------------------
(* resetNode: no step's failure stops it *)

ResetStep == ResetSteps[agent.i]

NextReset ==
    agent' = IF agent.i < Len(ResetSteps) THEN [agent EXCEPT !.i = @ + 1]
             ELSE [agent EXCEPT !.pc = "patch", !.boot = FALSE,
                                !.comp = IF agent.why = "clean" THEN FALSE ELSE @]

(* os.Remove, os.RemoveAll. *)
Remove(S) == [f \in Files |-> IF f \in S THEN 0 ELSE disk[f]]

(* filesToRemove, and the files below each of dirsToRemove.  The units are removed *)
(* as files only, the copies of the CA with their directory only, the bundle never, *)
(* all others twice.                                                              *)
FilesToRemove == ConfigFiles \cup Units \cup {"kubelet.conf"}

(* Faulty variant: the directories are left alone. *)
NoDirsToRemove == {{}}

DirsToRemove == {{"kubelet-config"}, {"proxy-config"},
                 {"bootstrap-kubeconfig", "kubelet.conf", "ca", "ca-copies", "proxy-kubeconfig"}}

(* A file or a directory of the list may resist. *)
ResetRemoves ==
    /\ agent.pc = "reset"
    /\ \/ ResetStep = "remove-files" /\ disk' = Remove(FilesToRemove) /\ UNCHANGED <<spoiled, faults>>
       \/ ResetStep = "remove-dirs" /\ disk' = Remove(UNION DirsToRemove) /\ UNCHANGED <<spoiled, faults>>
       \/ /\ ResetStep = "remove-files" /\ Fault("local") /\ Spoil("files")
          /\ \E f \in FilesToRemove : disk' = Remove(FilesToRemove \ {f})
       \/ /\ ResetStep = "remove-dirs" /\ Fault("local") /\ Spoil("dirs")
          /\ \E d \in DirsToRemove : disk' = Remove(UNION (DirsToRemove \ {d}))
    /\ NextReset
    /\ UNCHANGED <<mode, manage, binaries, keys, host, loaded, svc, drift>>

(* kubeadm, if it is installed and succeeds, stops kubelet and removes its files. *)
KubeadmReset ==
    /\ agent.pc = "reset" /\ ResetStep = "kubeadm-reset"
    /\ \/ UNCHANGED <<disk, svc>>
       \/ /\ binaries
          /\ disk' = Remove({"kubelet.conf", "bootstrap-kubeconfig", "kubelet-config", "ca"})
          /\ svc' = [svc EXCEPT !.want = FALSE, !.kubelet = 0]
    /\ NextReset
    /\ UNCHANGED <<mode, manage, binaries, keys, host, loaded, drift, spoiled, faults>>

ResetStops ==
    /\ agent.pc = "reset"
    /\ \/ ResetStep = "stop-kubelet" /\ svc' = [svc EXCEPT !.want = FALSE, !.kubelet = 0] /\ UNCHANGED loaded
       \/ ResetStep = "stop-containerd" /\ svc' = [svc EXCEPT !.containerd = FALSE] /\ UNCHANGED loaded
       \/ ResetStep = "stop-proxy" /\ svc' = [svc EXCEPT !.proxy = IF manage THEN 0 ELSE @] /\ UNCHANGED loaded
       \/ ResetStep = "reload" /\ DaemonReload /\ UNCHANGED svc
    /\ NextReset
    /\ UNCHANGED <<mode, manage, binaries, keys, host, disk, drift, spoiled, faults>>

(* The result of systemctl is dropped. *)
ResetCommandFails ==
    /\ agent.pc = "reset" /\ ResetStep \in {"stop-kubelet", "stop-containerd", "stop-proxy", "reload"}
    /\ Fault("local")
    /\ IF ResetStep \in {"stop-kubelet", "stop-proxy"} THEN Spoil("service") ELSE UNCHANGED spoiled
    /\ NextReset
    /\ UNCHANGED <<mode, manage, binaries, keys, host, disk, loaded, svc, drift>>

(* The deferred patch, with the conditions; of a cleaned host it removes the      *)
(* annotations and labels of its machine, too, unless the rest of hostCleanUp (the *)
(* sentinel file, the endpoint's address) fails.                                  *)
Patch ==
    /\ agent.pc = "patch"
    /\ LET clean == agent.why = "clean"
       IN \/ /\ host' = [host EXCEPT !.comp = agent.comp, !.boot = agent.boot,
                                     !.state = IF clean THEN "free" ELSE @]
             /\ UNCHANGED faults
          \/ /\ clean /\ Fault("local")
             /\ host' = [host EXCEPT !.comp = agent.comp, !.boot = agent.boot]
          \/ Fault("api") /\ UNCHANGED host
    /\ agent' = Idle
    /\ UNCHANGED <<mode, manage, binaries, keys, disk, loaded, svc, drift, spoiled>>

AgentCrashes ==
    /\ agent.pc # "idle" \/ drift # "none"
    /\ Fault("agent")
    /\ agent' = Idle /\ drift' = "none"
    /\ UNCHANGED <<mode, manage, binaries, keys, host, disk, loaded, svc, spoiled>>

-----------------------------------------------------------------------------
(* The drift detector: checkServices looks, and then starts *)

DriftChecks(s) ==
    /\ drift = "none"
    /\ IF s = "kubelet" THEN svc.kubelet = 0 ELSE ~svc.containerd
    /\ drift' = s
    /\ UNCHANGED <<mode, manage, binaries, keys, host, disk, loaded, svc, agent, spoiled, faults>>

DriftStarts ==
    /\ drift # "none" /\ drift' = "none"
    /\ \/ drift = "containerd" /\ svc' = [svc EXCEPT !.containerd = binaries]
       \/ drift = "kubelet" /\ loaded["kubelet-unit"] # 0 /\ StartKubelet
       \/ drift = "kubelet" /\ loaded["kubelet-unit"] = 0 /\ UNCHANGED svc
    /\ IF drift = "kubelet" THEN Spoil("service") ELSE UNCHANGED spoiled
    /\ UNCHANGED <<mode, manage, binaries, keys, host, disk, loaded, agent, faults>>

-----------------------------------------------------------------------------
(* The controllers *)

Claimed ==
    /\ host.state = "free" /\ host.machine < MaxMachines
    /\ host' = [host EXCEPT !.state = "claimed", !.machine = @ + 1]
    /\ UNCHANGED <<mode, manage, binaries, keys, disk, loaded, svc, agent, drift, spoiled, faults>>

Marked ==
    /\ host.state = "claimed"
    /\ host' = [host EXCEPT !.state = "marked"]
    /\ UNCHANGED <<mode, manage, binaries, keys, disk, loaded, svc, agent, drift, spoiled, faults>>

AgentStep == AgentReconcile \/ Install \/ StepFails \/ WriteFile \/ OtherStep \/ SystemctlStep
               \/ ProxyIfNeeded \/ ResetRemoves \/ KubeadmReset \/ ResetStops \/ ResetCommandFails \/ Patch

Next ==
    \/ AgentStep \/ AgentCrashes
    \/ \E s \in {"containerd", "kubelet"} : DriftChecks(s)
    \/ DriftStarts \/ KubeletRuns \/ ServiceDies \/ Claimed \/ Marked

Spec == Init /\ [][Next]_vars

(* The agent retries; at every tick the drift detector looks at both services, one *)
(* after the other; systemd restarts kubelet.                                      *)
Fairness ==
    /\ WF_vars(AgentStep)
    /\ \A s \in {"containerd", "kubelet"} : SF_vars(DriftChecks(s))
    /\ WF_vars(DriftStarts) /\ WF_vars(KubeletRuns)

FairSpec == Spec /\ Fairness

-----------------------------------------------------------------------------
(* Properties *)

(* The history of the last cleanup: no service ran on or again behind its back,   *)
(* and not both of the removals left something.                                   *)
ServicesStopped == "service" \notin spoiled
OneRemovalDone == ~({"files", "dirs"} \subseteq spoiled)

(* After a cleanup the configuration and the credentials of the machine are gone *)
(* from the disk.  A file or a directory that cannot be removed does not matter:   *)
(* resetNode removes each of these as a file and with its directory (570-606).     *)
(* The two copies of the CA below /etc/kubernetes go only with their directory,    *)
(* hence only if all directories went; the host's bundle, which bootstrapK8sNodeTLS *)
(* overwrites too, is never restored and is not part of this.                      *)
ConfigRemoved ==
    host.state = "free" =>
        /\ OneRemovalDone => \A f \in ConfigFiles : disk[f] = 0
        /\ "dirs" \notin spoiled => disk["ca-copies"] = 0

(* A claimed host runs kubelet and kube-proxy for its machine and not for one      *)
(* before it: wherever the agent stops in a bootstrap or a cleanup, whatever file   *)
(* cannot be removed and whichever service dies.  It takes that the last cleanup   *)
(* stopped the services, that the drift detector did not start one meanwhile, and  *)
(* that no file resisted both removals (kubelet.conf would outlive its machine).   *)
RunsOwnMachine ==
    host.state = "claimed" /\ ServicesStopped /\ OneRemovalDone =>
        svc.kubelet \in {0, host.machine} /\ svc.proxy \in {0, host.machine}

(* How the two come about, step by step: a host is free only while its agent is   *)
(* idle and cleaned only while it is marked; kubelet and its request for a restart *)
(* are gone after the second step of a cleanup, kube-proxy after the fourth, the   *)
(* files after the fifth or the last; so the pool holds hosts without credentials, *)
(* on which no kubelet comes up, and all a claimed host has is its machine's.      *)
Cleaned(k) == agent.why = "clean" /\ (agent.pc = "patch" \/ agent.i > k)
HasOnly(G) == \A f \in ConfigFiles : disk[f] \in G
KubeletConfIn(G) == ServicesStopped => disk["kubelet.conf"] \in G

SetupInv ==
    /\ agent.pc \in {"install", "boot"} => agent.i <= Len(Steps)
    /\ host.state = "free" => agent.pc = "idle"
    /\ agent.why = "clean" => host.state = "marked" /\ agent.pc \in {"reset", "patch"}
    /\ svc.proxy # 0 => manage
    /\ Cleaned(2) /\ ServicesStopped => ~svc.want /\ svc.kubelet = 0
    /\ Cleaned(4) /\ ServicesStopped => svc.proxy = 0
    /\ Cleaned(5) /\ "files" \notin spoiled => HasOnly({0}) /\ KubeletConfIn({0})
    /\ Cleaned(7) /\ OneRemovalDone => HasOnly({0}) /\ KubeletConfIn({0})
    /\ host.state = "free" /\ OneRemovalDone =>
         /\ HasOnly({0}) /\ KubeletConfIn({0})
         /\ ServicesStopped => svc.kubelet = 0 /\ svc.proxy = 0
    /\ host.state = "claimed" /\ OneRemovalDone /\ ServicesStopped =>
         /\ HasOnly({0, host.machine}) /\ KubeletConfIn({0, host.machine})
         /\ svc.kubelet \in {0, host.machine} /\ svc.proxy \in {0, host.machine}

(* A claimed host gets bootstrapped, whatever step fails and whenever the agent   *)
(* is restarted: reconcileNormal resets and starts over.                          *)
NodeBootstraps == host.state = "claimed" ~> host.boot \/ host.state # "claimed"

(* And then kubelet runs, for its machine, and containerd with it; a service that *)
(* dies is started again by systemd or the drift detector.  Not without binaries, *)
(* and not without the kubeconfig that the controller may leave out.              *)
NodeServes ==
    host.state = "claimed" /\ host.boot ~>
        \/ svc.kubelet = host.machine /\ svc.containerd
        \/ host.state # "claimed" \/ ~ServicesStopped \/ mode = "kubeadm" \/ ~binaries
        \/ "bootstrap-kubeconfig" \notin keys

(* The condition K8sComponentsInstallationSucceeded documents that the components *)
(* are installed (condition_consts.go); in the offline mode by the operator.      *)
InstalledMeansPresent == host.comp /\ mode # "offline" => binaries

(* A reset stops the services, the documentation says of hosts without kubeadm;   *)
(* no step of it fails here.                                                      *)
ResetStopsKubelet == host.state = "free" => svc.kubelet = 0
==============================================================================
