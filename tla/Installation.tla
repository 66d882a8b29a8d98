----------------------------- MODULE Installation -----------------------------
(***************************************************************************)
(* How a host gets its installation scripts.  Four controllers hand over   *)
(* through the objects of the management cluster:                          *)
(*   - the ByoCluster controller makes the infrastructure ready;           *)
(*   - the ByoMachine controller creates a K8sInstallerConfig, attaches a  *)
(*     host, asks for the scripts by a condition, and at last tells the    *)
(*     host the secret they are in;                                        *)
(*   - the K8sInstallerConfig controller makes the scripts and the secret; *)
(*   - the agent runs them.                                                *)
(* One ByoMachine, its ByoCluster, its config and one host.  Claiming the  *)
(* host (HostClaim) and cleaning it up (HostLifecycle) are single steps    *)
(* here.                                                                   *)
(***************************************************************************)
EXTENDS InstallerRegistry

CONSTANTS Kinds,          \* the kinds of machine, host and ByoCluster: see kind
          Repo, Minor,    \* the bundle repository and Kubernetes version asked for
          FaultKinds,     \* the faults that may happen
          MaxFaults       \* bound: how many of them

AllFaultKinds == {"api",       \* an API call fails
                  "manager",   \* the manager stops and is started again
                  "pause"}     \* an operator pauses the Cluster

(* "online" and "offline": TLS mode, with that download mode. *)
Modes == {"kubeadm", "online", "offline"}

ASSUME KindAssumption == \A k \in Kinds : k.mode \in Modes /\ k.alike \in BOOLEAN
ASSUME FaultAssumption == FaultKinds \subseteq AllFaultKinds /\ MaxFaults \in Nat

VARIABLES kind,      \* the join mode, what the host reports of itself, and whether the
                     \* ByoCluster has its Cluster's name (ClusterClass generates another)
          cluster,   \* the Cluster and the Machine's bootstrap data
          bc,        \* the ByoCluster
          machine,   \* the ByoMachine
          host,      \* the ByoHost
          tls,       \* the machine's TLS bootstrap secret exists
          config,    \* the K8sInstallerConfig
          secret,    \* the installation secret: the installer that made it
          bcrec,     \* the ByoCluster controller's reconcile in progress
          mrec,      \* the ByoMachine controller's
          crec,      \* the K8sInstallerConfig controller's
          faults

vars == <<kind, cluster, bc, machine, host, tls, config, secret, bcrec, mrec, crec, faults>>

-----------------------------------------------------------------------------
Phases == {"none", "live", "deleting", "gone"}

(* "vanished": deleted before the controller had saved its finalizer. *)
ClusterPhases == Phases \cup {"vanished"}

(* Why the condition BYOHostReady is not true; "node": the host has its scripts, *)
(* and the node is waited for, or has joined and the condition is true.          *)
Reasons == {"none", "paused", "infrastructure", "bootstrapData",
            "installationSecret", "node"}

(* The host's labels name the machine unless it is free.  "marked": with the     *)
(* cleanup annotation; "forced": the ByoHost controller gave up waiting.         *)
HostStates == {"free", "held", "marked", "forced"}

(* The calls of a patch: conditions, metadata and spec, status. *)
Calls == {"conds", "meta", "status"}

(* What a reconcile in progress has read and decided. *)
MRecs == [pc : {"idle", "pause", "resume", "config", "tls", "attach", "inst"} \cup Calls,
          reason : Reasons, fin : BOOLEAN, info : BOOLEAN, held : BOOLEAN]
CRecs == [pc : {"idle", "store"} \cup Calls, info : BOOLEAN, ready : BOOLEAN]

IsTLS == kind.mode # "kubeadm"

(* Faulty variant: every OS is taken for a supported one. *)
MadeBlindly(k, info) ==
    NewKubexmInstaller(IF info THEN k.host.release ELSE "", IF info THEN k.host.arch ELSE "",
                       Repo, Minor, FALSE)

(* The installer made from the HostInfo of the machine, which may be empty. *)
Made(k, info) ==
    LET release == IF info THEN k.host.release ELSE ""
        arch == IF info THEN k.host.arch ELSE ""
    IN IF k.mode # "kubeadm"
       THEN NewKubexmInstaller(release, arch, Repo, Minor, k.mode = "offline")
       ELSE NewInstaller(release, arch, Repo, Minor)

TypeOK ==
    /\ kind \in Kinds
    /\ cluster \in [paused : BOOLEAN, infra : BOOLEAN, data : BOOLEAN]
    /\ bc \in [phase : ClusterPhases, fin : BOOLEAN, ready : BOOLEAN]
    /\ machine \in [phase : Phases, fin : BOOLEAN, reason : Reasons, info : BOOLEAN]
    /\ host \in [state : HostStates, paused : BOOLEAN, inst : BOOLEAN, comp : BOOLEAN]
    /\ tls \in BOOLEAN
    /\ config \in [phase : Phases, fin : BOOLEAN, ready : BOOLEAN]
    /\ secret \in {NoInstaller} \cup {Made(kind, i) : i \in BOOLEAN}
    /\ bcrec \in {"idle", "remove"}
    /\ mrec \in MRecs
    /\ crec \in CRecs
    /\ faults \in 0..MaxFaults

MIdle == [pc |-> "idle", reason |-> "none", fin |-> FALSE, info |-> FALSE, held |-> FALSE]
CIdle == [pc |-> "idle", info |-> FALSE, ready |-> FALSE]

Init ==
    /\ kind \in Kinds
    /\ cluster = [paused |-> FALSE, infra |-> FALSE, data |-> FALSE]
    /\ bc = [phase |-> "live", fin |-> FALSE, ready |-> FALSE]
    /\ machine = [phase |-> "none", fin |-> FALSE, reason |-> "none", info |-> FALSE]
    /\ host = [state |-> "free", paused |-> FALSE, inst |-> FALSE, comp |-> FALSE]
    /\ tls = FALSE
    /\ config = [phase |-> "none", fin |-> FALSE, ready |-> FALSE]
    /\ secret = NoInstaller
    /\ bcrec = "idle" /\ mrec = MIdle /\ crec = CIdle
    /\ faults = 0

Fault(k) == k \in FaultKinds /\ faults < MaxFaults /\ faults' = faults + 1

Exists(o) == o.phase \in {"live", "deleting"}

-----------------------------------------------------------------------------
(* ByoCluster controller *)

(* reconcileNormal and its patch, whose calls may fail one without the other. *)
ClusterNormal ==
    /\ bcrec = "idle" /\ bc.phase = "live" /\ ~cluster.paused
    /\ ~(bc.fin /\ bc.ready)
    /\ \/ bc' = [bc EXCEPT !.fin = TRUE, !.ready = TRUE] /\ UNCHANGED faults
       \/ bc' = [bc EXCEPT !.fin = TRUE] /\ Fault("api")
       \/ bc' = [bc EXCEPT !.ready = TRUE] /\ Fault("api")
    /\ UNCHANGED <<kind, cluster, machine, host, tls, config, secret, bcrec, mrec, crec>>

(* Faulty variant: the machines are not waited for. *)
NoneListed == TRUE

(* GetByoMachinesInCluster looks for the ByoCluster's own name in a label that *)
(* holds the Cluster's.                                                        *)
NoMachinesListed == ~kind.alike \/ ~Exists(machine)

(* reconcileDelete: the list, then the patch without the finalizer. *)
ClusterDelete ==
    /\ bcrec = "idle" /\ bc.phase = "deleting" /\ ~cluster.paused
    /\ NoMachinesListed
    /\ bcrec' = "remove"
    /\ UNCHANGED <<kind, cluster, bc, machine, host, tls, config, secret, mrec, crec, faults>>

ClusterRemove ==
    /\ bcrec = "remove"
    /\ bcrec' = "idle"
    /\ \/ bc' = [bc EXCEPT !.phase = "gone", !.fin = FALSE] /\ UNCHANGED faults
       \/ Fault("api") /\ UNCHANGED bc
    /\ UNCHANGED <<kind, cluster, machine, host, tls, config, secret, mrec, crec>>

-----------------------------------------------------------------------------
(* ByoMachine controller *)

(* The deferred patch makes only the calls that have something to change, in   *)
(* this order.                                                                 *)
MPatch(r) ==
    IF r.reason # machine.reason THEN [r EXCEPT !.pc = "conds"]
    ELSE IF r.fin # machine.fin THEN [r EXCEPT !.pc = "meta"]
    ELSE IF r.info # machine.info THEN [r EXCEPT !.pc = "status"]
    ELSE MIdle

(* Reconcile up to its first call.  Without the ByoCluster it returns without   *)
(* an error and without a patch.  A pause is looked at first.                   *)
MachinePaused ==
    /\ mrec.pc = "idle" /\ Exists(machine) /\ Exists(bc) /\ cluster.paused
    /\ LET held == host.state # "free"
           r == [MIdle EXCEPT !.held = held, !.info = machine.info, !.fin = machine.fin,
                              !.reason = "paused"]
       IN mrec' = IF held /\ ~host.paused THEN [r EXCEPT !.pc = "pause"] ELSE MPatch(r)
    /\ UNCHANGED <<kind, cluster, bc, machine, host, tls, config, secret, bcrec, crec, faults>>

MachineNormal ==
    /\ mrec.pc = "idle" /\ machine.phase = "live" /\ Exists(bc) /\ ~cluster.paused
    /\ LET held == host.state # "free"
       IN mrec' = [pc |-> IF held /\ host.paused THEN "resume" ELSE "config",
                   held |-> held, fin |-> TRUE, info |-> machine.info, reason |-> machine.reason]
    /\ UNCHANGED <<kind, cluster, bc, machine, host, tls, config, secret, bcrec, crec, faults>>

(* setPausedConditionForByoHost: an error is ignored when pausing, not when     *)
(* resuming.                                                                    *)
MachinePauses ==
    /\ mrec.pc \in {"pause", "resume"}
    /\ LET pause == mrec.pc = "pause"
       IN \/ /\ host' = [host EXCEPT !.paused = pause] /\ UNCHANGED faults
             /\ mrec' = IF pause THEN MPatch(mrec) ELSE [mrec EXCEPT !.pc = "config"]
          \/ Fault("api") /\ UNCHANGED host /\ mrec' = MPatch(mrec)
    /\ UNCHANGED <<kind, cluster, bc, machine, tls, config, secret, bcrec, crec>>

(* reconcileNormal after createInstallerConfig: it waits for the               *)
(* infrastructure and the bootstrap data, and needs a host.                     *)
MGated(r) ==
    IF ~cluster.infra THEN MPatch([r EXCEPT !.reason = "infrastructure"])
    ELSE IF ~IsTLS /\ ~cluster.data THEN MPatch([r EXCEPT !.reason = "bootstrapData"])
    ELSE [r EXCEPT !.pc = IF r.held THEN "inst" ELSE IF IsTLS THEN "tls" ELSE "attach"]

(* createInstallerConfig. *)
MachineConfig ==
    /\ mrec.pc = "config"
    /\ \/ config.phase # "none" /\ UNCHANGED <<config, faults>> /\ mrec' = MGated(mrec)
       \/ /\ config.phase = "none" /\ UNCHANGED faults
          /\ config' = [config EXCEPT !.phase = "live"] /\ mrec' = MGated(mrec)
       \/ Fault("api") /\ UNCHANGED config /\ mrec' = MPatch(mrec)
    /\ UNCHANGED <<kind, cluster, bc, machine, host, tls, secret, bcrec, crec>>

(* The end of createBootstrapSecretTLSBootstrap: a secret that is there already *)
(* is an error.                                                                 *)
MachineTLSSecret ==
    /\ mrec.pc = "tls"
    /\ \/ ~tls /\ tls' = TRUE /\ UNCHANGED faults /\ mrec' = [mrec EXCEPT !.pc = "attach"]
       \/ tls /\ UNCHANGED <<tls, faults>> /\ mrec' = MPatch(mrec)
       \/ Fault("api") /\ UNCHANGED tls /\ mrec' = MPatch(mrec)
    /\ UNCHANGED <<kind, cluster, bc, machine, host, config, secret, bcrec, crec>>

(* Faulty variant: the loop is left after a failure, past the deferred patch. *)
AttachOnce ==
    /\ mrec.pc = "attach"
    /\ \/ /\ host' = [host EXCEPT !.state = "held"] /\ UNCHANGED faults
          /\ mrec' = [mrec EXCEPT !.pc = "inst", !.reason = "installationSecret"]
       \/ Fault("api") /\ UNCHANGED host /\ mrec' = [mrec EXCEPT !.pc = "failed"]
    /\ UNCHANGED <<kind, cluster, bc, machine, tls, config, secret, bcrec, crec>>

(* The patch that claims the host; the loop tries again after a failure.  Only  *)
(* here the reason is set that the K8sInstallerConfig controller waits for.     *)
MachineAttach ==
    /\ mrec.pc = "attach"
    /\ \/ /\ host' = [host EXCEPT !.state = "held"] /\ UNCHANGED faults
          /\ mrec' = [mrec EXCEPT !.pc = "inst", !.reason = "installationSecret"]
       \/ /\ Fault("api") /\ UNCHANGED host
          /\ mrec' = [mrec EXCEPT !.pc = IF IsTLS THEN "tls" ELSE "attach"]
    /\ UNCHANGED <<kind, cluster, bc, machine, tls, config, secret, bcrec, crec>>

ConfigReady == Exists(config) /\ config.ready

(* The rest of reconcileNormal: HostInfo, setInstallationSecretForByoHost, and  *)
(* updateNodeProviderID, which waits until the node has joined, or returns an    *)
(* error as long as the cluster of the node cannot be reached.                   *)
MachineInst ==
    /\ mrec.pc = "inst"
    /\ LET r == [mrec EXCEPT !.info = TRUE]
           done == [r EXCEPT !.reason = "node"]
       IN \/ ~host.inst /\ ~ConfigReady /\ UNCHANGED <<host, faults>> /\ mrec' = MPatch(r)
          \/ /\ host.inst \/ ConfigReady
             /\ host' = [host EXCEPT !.inst = TRUE] /\ UNCHANGED faults
             /\ mrec' \in {MPatch(done), MPatch(r)}
          \/ Fault("api") /\ UNCHANGED host /\ mrec' = MPatch(r)
    /\ UNCHANGED <<kind, cluster, bc, machine, tls, config, secret, bcrec, crec>>

(* One call of the deferred patch.  A failed one does not keep the next from    *)
(* being made, but its change is lost.                                          *)
MachineCall ==
    /\ mrec.pc \in Calls
    /\ LET m == CASE mrec.pc = "conds" -> [machine EXCEPT !.reason = mrec.reason]
                  [] mrec.pc = "meta" -> [machine EXCEPT !.fin = mrec.fin]
                  [] mrec.pc = "status" -> [machine EXCEPT !.info = mrec.info]
           next == CASE mrec.pc = "conds" /\ mrec.fin # machine.fin -> [mrec EXCEPT !.pc = "meta"]
                     [] mrec.pc # "status" /\ mrec.info # machine.info -> [mrec EXCEPT !.pc = "status"]
                     [] OTHER -> MIdle
       IN /\ \/ machine' = m /\ UNCHANGED faults
             \/ UNCHANGED machine /\ Fault("api")
          /\ mrec' = next
    /\ UNCHANGED <<kind, cluster, bc, host, tls, config, secret, bcrec, crec>>

(* Faulty variant: the host is marked once. *)
MarkOnce ==
    /\ mrec.pc = "idle" /\ machine.phase = "deleting" /\ Exists(bc) /\ ~cluster.paused
    /\ \/ host.state = "held" /\ host' = [host EXCEPT !.state = "marked"] /\ UNCHANGED machine
       \/ /\ host.state = "free"
          /\ machine' = [machine EXCEPT !.phase = "gone", !.fin = FALSE] /\ UNCHANGED host
    /\ UNCHANGED <<kind, cluster, bc, tls, config, secret, bcrec, mrec, crec, faults>>

(* reconcileDelete: the host is marked, and marked again as long as its labels  *)
(* name the machine; with no host left the finalizer goes, and the machine.     *)
MachineDelete ==
    /\ mrec.pc = "idle" /\ machine.phase = "deleting" /\ Exists(bc) /\ ~cluster.paused
    /\ \/ /\ host.state \in {"held", "forced"}
          /\ host' = [host EXCEPT !.state = "marked"] /\ UNCHANGED machine
       \/ /\ host.state = "free"
          /\ machine' = [machine EXCEPT !.phase = "gone", !.fin = FALSE] /\ UNCHANGED host
    /\ UNCHANGED <<kind, cluster, bc, tls, config, secret, bcrec, mrec, crec, faults>>

(* The ByoHost controller takes the annotation away when the cleanup takes too  *)
(* long.                                                                        *)
ForceCleanup ==
    /\ host.state = "marked"
    /\ host' = [host EXCEPT !.state = "forced"]
    /\ UNCHANGED <<kind, cluster, bc, machine, tls, config, secret, bcrec, mrec, crec, faults>>

-----------------------------------------------------------------------------
(* K8sInstallerConfig controller *)

CPatch(r) ==
    IF ~config.fin THEN [r EXCEPT !.pc = "meta"]
    ELSE IF r.ready THEN [r EXCEPT !.pc = "status"]
    ELSE CIdle

(* Reconcile up to the secret.  The finalizer is saved in any case; scripts are *)
(* made when the machine asks for them, once, and when an installer is found.   *)
ConfigReconcile ==
    /\ crec.pc = "idle" /\ config.phase = "live"
    /\ LET asked == /\ Exists(machine) /\ ~cluster.paused
                    /\ machine.reason = "installationSecret" /\ ~config.ready
       IN crec' = IF asked /\ Made(kind, machine.info) # NoInstaller
                  THEN [CIdle EXCEPT !.pc = "store", !.info = machine.info]
                  ELSE CPatch(CIdle)
    /\ UNCHANGED <<kind, cluster, bc, machine, host, tls, config, secret, bcrec, mrec, faults>>

(* Faulty variant: the status is set although the secret could not be written. *)
StoreAnyway ==
    /\ crec.pc = "store"
    /\ \/ secret' = Made(kind, crec.info) /\ UNCHANGED faults
       \/ Fault("api") /\ UNCHANGED secret
    /\ crec' = CPatch([crec EXCEPT !.ready = TRUE])
    /\ UNCHANGED <<kind, cluster, bc, machine, host, tls, config, bcrec, mrec>>

(* Faulty variant: a secret that is there already is an error. *)
StoreOnce ==
    /\ crec.pc = "store"
    /\ \/ /\ secret = NoInstaller /\ secret' = Made(kind, crec.info) /\ UNCHANGED faults
          /\ crec' = CPatch([crec EXCEPT !.ready = TRUE])
       \/ secret # NoInstaller /\ UNCHANGED <<secret, faults>> /\ crec' = CPatch(crec)
       \/ Fault("api") /\ UNCHANGED secret /\ crec' = CPatch(crec)
    /\ UNCHANGED <<kind, cluster, bc, machine, host, tls, config, bcrec, mrec>>

(* storeInstallationData: Create, or Update of a secret that is there already. *)
ConfigStore ==
    /\ crec.pc = "store"
    /\ \/ /\ secret' = Made(kind, crec.info) /\ UNCHANGED faults
          /\ crec' = CPatch([crec EXCEPT !.ready = TRUE])
       \/ Fault("api") /\ UNCHANGED secret /\ crec' = CPatch(crec)
    /\ UNCHANGED <<kind, cluster, bc, machine, host, tls, config, bcrec, mrec>>

(* One call of the deferred patch. *)
ConfigCall ==
    /\ crec.pc \in Calls
    /\ \/ crec.pc = "meta" /\ config' = [config EXCEPT !.fin = Exists(config)] /\ UNCHANGED faults
       \/ crec.pc = "status" /\ config' = [config EXCEPT !.ready = Exists(config)] /\ UNCHANGED faults
       \/ Fault("api") /\ UNCHANGED config
    /\ crec' = IF crec.pc = "meta" /\ crec.ready THEN [crec EXCEPT !.pc = "status"] ELSE CIdle
    /\ UNCHANGED <<kind, cluster, bc, machine, host, tls, secret, bcrec, mrec>>

(* reconcileDelete of a config the garbage collector has deleted. *)
ConfigDelete ==
    /\ crec.pc = "idle" /\ config.phase = "deleting"
    /\ config' = [config EXCEPT !.phase = "gone"]
    /\ UNCHANGED <<kind, cluster, bc, machine, host, tls, secret, bcrec, mrec, crec, faults>>

-----------------------------------------------------------------------------
(* Agent *)

(* Events of a paused host are filtered out, though a request queued before may *)
(* still be served: see Fairness.                                               *)

(* The scripts are run, or taken for run in the offline mode, where no secret   *)
(* is waited for.                                                               *)
AgentInstalls ==
    /\ host.state = "held" /\ ~host.comp
    /\ IF host.inst THEN secret # NoInstaller ELSE kind.mode = "offline"
    /\ host' = [host EXCEPT !.comp = TRUE]
    /\ UNCHANGED <<kind, cluster, bc, machine, tls, config, secret, bcrec, mrec, crec, faults>>

(* hostCleanUp of a marked host; its annotation of a pause stays. *)
AgentCleans ==
    /\ host.state = "marked"
    /\ host' = [host EXCEPT !.state = "free", !.inst = FALSE, !.comp = FALSE]
    /\ UNCHANGED <<kind, cluster, bc, machine, tls, config, secret, bcrec, mrec, crec, faults>>

-----------------------------------------------------------------------------
(* Environment *)

(* Cluster API creates the Machine, copies the readiness of the ByoCluster,     *)
(* and provides the bootstrap data.                                             *)
MachineCreated ==
    /\ machine.phase = "none" /\ bc.phase = "live"
    /\ machine' = [machine EXCEPT !.phase = "live"]
    /\ UNCHANGED <<kind, cluster, bc, host, tls, config, secret, bcrec, mrec, crec, faults>>

ClusterProgress ==
    /\ \/ bc.ready /\ Exists(bc) /\ ~cluster.infra /\ cluster' = [cluster EXCEPT !.infra = TRUE]
       \/ cluster.infra /\ ~cluster.data /\ cluster' = [cluster EXCEPT !.data = TRUE]
    /\ UNCHANGED <<kind, bc, machine, host, tls, config, secret, bcrec, mrec, crec, faults>>

(* Deletions are asked for at any time, of the machine once it has its          *)
(* finalizer (HostLifecycle is about one that has not).                         *)
MachineDeleted ==
    /\ machine.phase = "live" /\ machine.fin
    /\ machine' = [machine EXCEPT !.phase = "deleting"]
    /\ UNCHANGED <<kind, cluster, bc, host, tls, config, secret, bcrec, mrec, crec, faults>>

ClusterDeleted ==
    /\ bc.phase = "live"
    /\ bc' = [bc EXCEPT !.phase = IF bc.fin THEN "deleting" ELSE "vanished"]
    /\ UNCHANGED <<kind, cluster, machine, host, tls, config, secret, bcrec, mrec, crec, faults>>

(* The garbage collector: what the machine owns, then what the config owns. *)
Collect ==
    /\ machine.phase = "gone"
    /\ \/ /\ config.phase = "live"
          /\ config' = [config EXCEPT !.phase = IF config.fin THEN "deleting" ELSE "gone"]
          /\ UNCHANGED <<tls, secret>>
       \/ tls /\ tls' = FALSE /\ UNCHANGED <<config, secret>>
       \/ /\ config.phase = "gone" /\ secret # NoInstaller
          /\ secret' = NoInstaller /\ UNCHANGED <<config, tls>>
    /\ UNCHANGED <<kind, cluster, bc, machine, host, bcrec, mrec, crec, faults>>

Pause ==
    /\ ~cluster.paused /\ Fault("pause")
    /\ cluster' = [cluster EXCEPT !.paused = TRUE]
    /\ UNCHANGED <<kind, bc, machine, host, tls, config, secret, bcrec, mrec, crec>>

Unpause ==
    /\ cluster.paused
    /\ cluster' = [cluster EXCEPT !.paused = FALSE]
    /\ UNCHANGED <<kind, bc, machine, host, tls, config, secret, bcrec, mrec, crec, faults>>

(* A restart loses the reconciles in progress. *)
ManagerRestarts ==
    /\ bcrec # "idle" \/ mrec.pc # "idle" \/ crec.pc # "idle"
    /\ Fault("manager")
    /\ bcrec' = "idle" /\ mrec' = MIdle /\ crec' = CIdle
    /\ UNCHANGED <<kind, cluster, bc, machine, host, tls, config, secret>>

MachineStep == MachinePaused \/ MachineNormal \/ MachinePauses \/ MachineConfig \/ MachineTLSSecret
                 \/ MachineAttach \/ MachineInst \/ MachineCall \/ MachineDelete
ConfigStep == ConfigReconcile \/ ConfigStore \/ ConfigCall \/ ConfigDelete
ClusterStep == ClusterNormal \/ ClusterDelete \/ ClusterRemove

Next ==
    \/ MachineStep \/ ConfigStep \/ ClusterStep
    \/ AgentInstalls \/ AgentCleans \/ ForceCleanup
    \/ MachineCreated \/ ClusterProgress \/ MachineDeleted \/ ClusterDeleted
    \/ Collect \/ Pause \/ Unpause \/ ManagerRestarts

Spec == Init /\ [][Next]_vars

(* The controllers are notified of changes, retry after errors and resync; a    *)
(* pause ends; Cluster API and the garbage collector run.  The agent serves the *)
(* events of a host that is not paused, each time the host is marked anew.      *)
Fairness ==
    /\ WF_vars(MachineStep) /\ WF_vars(ConfigStep) /\ WF_vars(ClusterStep)
    /\ WF_vars(~host.paused /\ AgentInstalls) /\ SF_vars(~host.paused /\ AgentCleans)
    /\ WF_vars(ClusterProgress) /\ WF_vars(Collect) /\ WF_vars(Unpause)

FairSpec == Spec /\ Fairness

-----------------------------------------------------------------------------
(* Properties *)

(* A host is told of its installation secret only once the secret is there and  *)
(* the config is ready, and the secret stays as long as the host refers to it:  *)
(* the agent's Get of it in executeInstallerController finds it.                *)
SecretBeforeReference == host.inst => secret # NoInstaller /\ ConfigReady

(* What makes it so: the config's status follows the secret, the config outlives *)
(* the machine, and the machine outlives its hold on the host; a reconcile that   *)
(* works on the host has it; and no machine comes to a ByoCluster about to go.    *)
HandoverInv ==
    /\ config.ready \/ crec.ready => config.phase = "gone" \/ secret # NoInstaller
    /\ config.ready \/ crec.pc # "idle" => config.phase # "none"
    /\ crec.pc = "store" => Made(kind, crec.info) # NoInstaller
    /\ crec.pc = "status" => crec.ready
    /\ host.inst => host.state # "free" /\ config.ready
    /\ host.state # "free" \/ mrec.pc # "idle" => Exists(machine)
    /\ host.state \in {"marked", "forced"} =>
           machine.phase = "deleting" /\ mrec.pc \in {"idle", "pause"} \cup Calls
    /\ mrec.pc = "inst" \/ (mrec.held /\ mrec.pc \in {"resume", "config"}) => host.state = "held"
    /\ config.phase \in {"deleting", "gone"} => machine.phase = "gone"
    /\ bcrec = "remove" => bc.phase = "deleting" /\ NoMachinesListed

(* Scripts are made for the host that runs them: in the kubeadm mode for the OS  *)
(* and architecture it reports, never for those of an empty HostInfo, which the  *)
(* config controller may read as the condition is saved before the status.       *)
ScriptsFitHost == kind.mode = "kubeadm" /\ secret # NoInstaller => secret = Made(kind, TRUE)

(* The same in every join mode.  NewKubexmInstaller (TLS mode) makes scripts for   *)
(* an empty architecture too.                                                    *)
ScriptsFitEveryMode == secret # NoInstaller => secret = Made(kind, TRUE)

(* A ByoCluster that has its finalizer and its Cluster's name stays until its    *)
(* machine has gone, so that the machine's own controller, which does nothing    *)
(* without a ByoCluster, can finish (reconcileDelete of both).  One whose name    *)
(* ClusterClass has generated finds no machine in its list and does not wait.     *)
ClusterWaitsForMachines ==
    [][kind.alike /\ bc.fin /\ Exists(bc) /\ ~Exists(bc)' => ~Exists(machine)]_vars

(* The same of every ByoCluster: its finalizer is there "to clean up Byo resources *)
(* associated with ByoCluster before removing it" (byocluster_types.go).          *)
MachinesGoFirst == [][bc.fin /\ Exists(bc) /\ ~Exists(bc)' => ~Exists(machine)]_vars

(* The machine asks for scripts, and no longer by the reason that is looked for. *)
Forgotten == ~config.ready /\ machine.reason # "installationSecret"

(* The components are installed, or the machine has no need or no chance of them. *)
Installed == host.comp \/ machine.phase # "live" \/ ~Exists(bc) \/ Made(kind, TRUE) = NoInstaller

(* A machine with a host gets it installed, whatever calls fail or restarts      *)
(* happen, unless it is deleted, its ByoCluster goes (nothing is reconciled        *)
(* without), no installer is known for the host's OS, or the reason the            *)
(* K8sInstallerConfig controller waits for is lost for good.                       *)
InstallCompletes ==
    [](machine.phase = "live" /\ host.state = "held" => <>Installed \/ <>[]Forgotten)

(* The same without the last exception: the comment in the K8sInstallerConfig    *)
(* controller has it wait for the ByoMachine to set that reason.                  *)
InstallIsAskedFor == machine.phase = "live" /\ host.state = "held" ~> Installed

(* The ByoCluster was deleted before it had its finalizer, or did not wait. *)
ClusterWentFirst == ~Exists(bc) /\ (bc.phase = "vanished" \/ ~kind.alike)

(* A deleted machine goes, its host is released and its config collected, also if *)
(* its ByoCluster is deleted meanwhile.  Except: the host stays paused; the         *)
(* ByoCluster was deleted before it had its finalizer; or it has a name of its own  *)
(* and, not waiting, went first.                                                    *)
ReleaseCompletes ==
    [](machine.phase = "deleting" =>
           \/ <>(machine.phase = "gone" /\ ~Exists(config) /\ secret = NoInstaller)
           \/ <>[](host.paused /\ host.state # "free") \/ <>ClusterWentFirst)

(* A pause ends for the host too: its annotation goes after the Cluster's.  The   *)
(* comment in reconcileNormal says so of every host that is attached.             *)
HostIsResumed == []<>(host.paused => cluster.paused \/ host.state = "free")
==============================================================================
