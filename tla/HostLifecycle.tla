---------------------------- MODULE HostLifecycle ----------------------------
(***************************************************************************)
(* The life of hosts in the capacity pool: registration, claim by a        *)
(* ByoMachine, bootstrap, release, clean-up (by the agent or forced by     *)
(* the ByoHost controller) and reuse.  Four kinds of process interleave:   *)
(*   - the ByoMachine controller, one worker      (variable mctl);         *)
(*   - the ByoHost controller, one worker         (variable hctl);         *)
(*   - the agent on each host                     (variable agent);        *)
(*   - the environment: users, time, faults.                               *)
(* A reconcile reads, computes, and then issues its API calls one by one;  *)
(* every call is a step, so processes interleave, and crash, between them. *)
(* What the ByoMachine controller reads is its informer cache, which may   *)
(* not show a claim it has just made.                                      *)
(***************************************************************************)
EXTENDS ByoHost, FiniteSets

CONSTANTS Hosts, NoHost,
          MaxRetries,     \* tries of the claim loop (5 in the code)
          FaultKinds,     \* the faults the environment may inject
          MaxFaults       \* bound: how many of them, all kinds together

AllFaultKinds ==
    {"api",         \* an API call fails
     "local",       \* a step of the agent's work on the host fails
     "reset",       \* a command of resetNode fails, which it ignores
     "agent",       \* the agent process dies
     "reboot",      \* the host reboots (and /run is emptied)
     "manager",     \* the controller manager restarts
     "cache",       \* the ByoMachine controller's cache does not show a claim yet
     "list",        \* attachByoHost lists hosts from a cache that is so behind
     "remediate",   \* the Machine is annotated for remediation
     "delete"}      \* an operator deletes the ByoHost object

ASSUME HostsAssumption  == NoHost \notin Hosts
ASSUME RetriesAssumption == MaxRetries \in Nat \ {0}
ASSUME FaultsAssumption == FaultKinds \subseteq AllFaultKinds /\ MaxFaults \in Nat

(* No claimed host is listed for another machine. *)
ListsKept == "list" \notin FaultKinds

(* The faults that separate a host from the record of what runs on it are left *)
(* out: no ByoHost object is deleted, resetNode does remove the node, and no    *)
(* claim is written over another.                                               *)
RecordsKept == ListsKept /\ FaultKinds \cap {"delete", "reset"} = {}

VARIABLES host,      \* the ByoHost objects
          machine,   \* the ByoMachine objects
          mctl,      \* the ByoMachine controller's reconcile in progress
          hctl,      \* the ByoHost controller's reconcile in progress
          agent,     \* the agent processes and their reconciles in progress
          disk,      \* what is on the hosts' file systems
          unseen,    \* calls of a claim the ByoMachine controller's cache misses
          faults     \* faults injected so far

vars == <<host, machine, mctl, hctl, agent, disk, unseen, faults>>

-----------------------------------------------------------------------------
(* How a ByoMachine is removed.  "gone": by reconcileDelete reading a cache    *)
(* that is up to date, or by the API server before any claim; "overlooked":    *)
(* by reconcileDelete reading a cache that is behind; "vanished": by the API   *)
(* server, for want of a finalizer, when a claim was under way or done.        *)
Removed == {"gone", "overlooked", "vanished"}
Phases == {"none", "live", "deleting"} \cup Removed

(* ready: cluster infrastructure ready and bootstrap data available.        *)
MachineRec == [phase : Phases, finalizer : BOOLEAN, ready : BOOLEAN, nodeRef : BOOLEAN]

MctlRec == [pc     : {"idle", "select", "leased", "finish"} \cup Stages,
            op     : {"none", "attach", "mark"},
            m      : MaybeMachine,
            h      : Hosts \cup {NoHost},
            list   : SUBSET Hosts,       \* the hosts attachByoHost listed
            tries  : 0..MaxRetries,      \* tries that have failed
            failed : BOOLEAN,            \* a call of the current patch has failed
            before : HostRec, after : HostRec]

HctlRec == [pc : {"idle"} \cup Stages, h : Hosts \cup {NoHost},
            before : HostRec, after : HostRec]

AgentRec == [up : BOOLEAN, pc : {"idle", "reset", "boot"} \cup Stages,
             before : HostRec, after : HostRec]

(* node: the machine whose node the bootstrap has put on this host; id: the *)
(* content of /run/cluster-api/machine-id.                                  *)
DiskRec == [node : MaybeMachine, id : MaybeMachine]

TypeOK ==
    /\ host \in [Hosts -> HostRec]
    /\ machine \in [Machines -> MachineRec]
    /\ mctl \in MctlRec
    /\ hctl \in HctlRec
    /\ agent \in [Hosts -> AgentRec]
    /\ disk \in [Hosts -> DiskRec]
    /\ unseen \in [Hosts -> SUBSET {"meta", "status"}]
    /\ faults \in 0..MaxFaults

MctlIdle == [pc |-> "idle", op |-> "none", m |-> NoMachine, h |-> NoHost, list |-> {},
             tries |-> 0, failed |-> FALSE, before |-> AbsentHost, after |-> AbsentHost]
HctlIdle == [pc |-> "idle", h |-> NoHost, before |-> AbsentHost, after |-> AbsentHost]
AgentIdle == [up |-> TRUE, pc |-> "idle", before |-> AbsentHost, after |-> AbsentHost]
AgentDown == [AgentIdle EXCEPT !.up = FALSE]

Init ==
    /\ host = [h \in Hosts |-> AbsentHost]
    /\ machine = [m \in Machines |->
                    [phase |-> "none", finalizer |-> FALSE, ready |-> FALSE, nodeRef |-> FALSE]]
    /\ mctl = MctlIdle
    /\ hctl = HctlIdle
    /\ agent = [h \in Hosts |-> AgentDown]
    /\ disk = [h \in Hosts |-> [node |-> NoMachine, id |-> NoMachine]]
    /\ unseen = [h \in Hosts |-> {}]
    /\ faults = 0

Fault(k) == k \in FaultKinds /\ faults < MaxFaults /\ faults' = faults + 1

(* One call of a patch helper p against host h: it is refused when the     *)
(* object is gone or a condition conflicts, and it may fail.               *)
CallRefused(h, p) ==
    ~host[h].registered \/ Conflict(p.pc, host[h], p.before, p.after)

CallApplies(h, p) ==
    /\ ~CallRefused(h, p)
    /\ host' = [host EXCEPT ![h] = Merge(p.pc, host[h], p.before, p.after)]
    /\ UNCHANGED faults

CallFails(h, p) ==
    /\ IF CallRefused(h, p) THEN UNCHANGED faults ELSE Fault("api")
    /\ UNCHANGED host

-----------------------------------------------------------------------------
(* ByoMachine controller *)

(* The ByoHost in the controller's cache. *)
Cached(h) == [host[h] EXCEPT !.label = IF "meta" \in unseen[h] THEN NoMachine ELSE @,
                             !.ref = IF "status" \in unseen[h] THEN NoMachine ELSE @]

(* FetchAttachedByoHost (and reconcileDelete's fallback on the UID). *)
Attached(m) == {h \in Hosts : Cached(h).registered /\ Cached(h).label = m}
Referring(m) == {h \in Hosts : Cached(h).registered /\ Cached(h).ref = m}

(* Faulty variant: no fallback on the UID of the MachineRef. *)
ReleasableByLabel(m) == Attached(m)

Releasable(m) == IF Attached(m) # {} THEN Attached(m) ELSE Referring(m)

Pool == {h \in Hosts : Claimable(host[h])}
CachedPool == {h \in Hosts : Claimable(Cached(h))}

(* reconcileNormal when it attaches nothing: it returns early, finds no     *)
(* host, or has one already.  The deferred patch saves the finalizer, and   *)
(* the NodeRef once the node of the attached host has joined.               *)
ReconcileNormal(m) ==
    /\ mctl = MctlIdle
    /\ machine[m].phase = "live"
    /\ Attached(m) # {} \/ ~machine[m].ready \/ Pool = {}
    /\ \E joined \in BOOLEAN :
         /\ joined => machine[m].ready /\ \E h \in Attached(m) : disk[h].node = m
         /\ machine' = [machine EXCEPT ![m].finalizer = TRUE,
                                       ![m].nodeRef = @ \/ joined]
    /\ UNCHANGED <<host, mctl, hctl, agent, disk, unseen, faults>>

(* reconcileNormal up to the list of attachByoHost, which is from the cache. *)
AttachList(m) ==
    /\ mctl = MctlIdle
    /\ machine[m].phase = "live" /\ machine[m].ready
    /\ Attached(m) = {}
    /\ \E list \in {Pool, CachedPool} :
         /\ list # {}
         /\ IF list = Pool THEN UNCHANGED faults ELSE Fault("list")
         /\ mctl' = [MctlIdle EXCEPT !.pc = "select", !.op = "attach", !.m = m, !.list = list]
    /\ UNCHANGED <<host, machine, hctl, agent, disk, unseen>>

(* The re-fetched host may be claimed: no reference, or one to a machine    *)
(* that is deleted or being deleted.                                        *)
InPhase(ps) == {m \in Machines : machine[m].phase \in ps}

FreeToTry(h) == host[h].registered /\ host[h].ref \notin InPhase({"live"})

(* attachByoHost from selection to tryAcquireLease.  The lease is taken by  *)
(* an Update, which the API server accepts only if the cached copy is       *)
(* current: the checks hold when the call does.  A reference to a machine that is    *)
(* gone is cleared first.                                                   *)
AttachLease(h) ==
    /\ mctl.pc = "select" /\ mctl.tries < MaxRetries /\ h \in mctl.list
    /\ unseen[h] = {} /\ FreeToTry(h)
    /\ host' = [host EXCEPT ![h].ref = IF @ \in InPhase(Removed) THEN NoMachine ELSE @]
    /\ mctl' = [mctl EXCEPT !.pc = "leased", !.h = h]
    /\ UNCHANGED <<machine, hctl, agent, disk, unseen, faults>>

(* A try that ends before the claim.  Before the lease no fault is needed:    *)
(* the copy read from the cache is not current, an earlier lease has not       *)
(* expired, or the host is taken.  After it the second fetch has failed.       *)
AttachMiss(h) ==
    /\ mctl.pc \in {"select", "leased"} /\ mctl.tries < MaxRetries /\ h \in mctl.list
    /\ mctl.pc = "leased" => h = mctl.h
    /\ IF mctl.pc = "select" \/ ~host[h].registered THEN UNCHANGED faults ELSE Fault("api")
    /\ mctl' = [mctl EXCEPT !.pc = "select", !.h = NoHost, !.tries = @ + 1]
    /\ UNCHANGED <<host, machine, hctl, agent, disk, unseen>>

(* The bootstrap secret of TLS mode cannot be created: attachByoHost gives up. *)
(* No fault is needed: an interrupted claim may have left the secret behind.   *)
AttachAbort ==
    /\ mctl.pc = "leased"
    /\ mctl' = [mctl EXCEPT !.pc = "finish", !.h = NoHost]
    /\ UNCHANGED <<host, machine, hctl, agent, disk, unseen, faults>>

(* All tries used up. *)
AttachGiveUp ==
    /\ mctl.pc = "select" /\ mctl.tries = MaxRetries
    /\ mctl' = [mctl EXCEPT !.pc = "finish"]
    /\ UNCHANGED <<host, machine, hctl, agent, disk, unseen, faults>>

(* The host is fetched again and claimed on the fetched copy.  The cache may  *)
(* fall behind here, and miss the calls that follow.                          *)
AttachClaim ==
    /\ mctl.pc = "leased"
    /\ host[mctl.h].registered
    /\ LET b == host[mctl.h]
           a == Claimed(b, mctl.m)
           s == StageFrom("conds", b, a)
       IN /\ mctl' = IF s = "done" THEN [mctl EXCEPT !.pc = "finish", !.h = NoHost]
                     ELSE [mctl EXCEPT !.pc = s, !.before = b, !.after = a]
          /\ \/ UNCHANGED <<unseen, faults>>
             \/ /\ s # "done" /\ Fault("cache")
                /\ unseen' = [unseen EXCEPT ![mctl.h] =
                                 {c \in {"meta", "status"} : StageFrom(c, b, a) = c}]
    /\ UNCHANGED <<host, machine, hctl, agent, disk>>

(* Faulty variant: the end of the patch is not noticed. *)
MctlAfterUnended(failed) ==
    [mctl EXCEPT !.pc = StageAfter(mctl.pc, mctl.before, mctl.after)]

(* The reconcile in progress after a call, failed or not: the next call, or  *)
(* its end.  A claim with a failed call goes back to the retry loop.         *)
MctlAfter(failed) ==
    LET s == StageAfter(mctl.pc, mctl.before, mctl.after)
        f == mctl.failed \/ failed
        loop == [mctl EXCEPT !.h = NoHost, !.failed = FALSE,
                             !.before = AbsentHost, !.after = AbsentHost]
    IN IF s # "done" THEN [mctl EXCEPT !.pc = s, !.failed = f]
       ELSE IF mctl.op = "mark" THEN MctlIdle
       ELSE IF f THEN [loop EXCEPT !.pc = "select", !.tries = mctl.tries + 1]
       ELSE [loop EXCEPT !.pc = "finish"]

MctlCall ==
    /\ mctl.pc \in Stages
    /\ \/ CallApplies(mctl.h, mctl) /\ mctl' = MctlAfter(FALSE)
       \/ CallFails(mctl.h, mctl) /\ mctl' = MctlAfter(TRUE)
    /\ UNCHANGED <<machine, hctl, agent, disk, unseen>>

(* The deferred patch of the ByoMachine, which saves the finalizer. *)
MctlFinish ==
    /\ mctl.pc = "finish"
    /\ \/ /\ machine' = [machine EXCEPT ![mctl.m].finalizer = @ \/ machine[mctl.m].phase = "live"]
          /\ UNCHANGED faults
       \/ Fault("api") /\ UNCHANGED machine
    /\ mctl' = MctlIdle
    /\ UNCHANGED <<host, hctl, agent, disk, unseen>>

(* markHostForCleanup, as far as its patch. *)
StartMark(m, h) ==
    LET b == Cached(h)
        a == MarkedForCleanup(b)
    IN /\ StageFrom("conds", b, a) # "done"
       /\ mctl' = [MctlIdle EXCEPT !.pc = StageFrom("conds", b, a), !.op = "mark",
                                   !.m = m, !.h = h, !.before = b, !.after = a]

(* reconcileDelete with a host to release: repeated until none is left. *)
ReconcileDelete(m) ==
    /\ mctl = MctlIdle
    /\ machine[m].phase = "deleting"
    /\ \E h \in Releasable(m) : StartMark(m, h)
    /\ UNCHANGED <<host, machine, hctl, agent, disk, unseen, faults>>

UpToDate == \A h \in Hosts : unseen[h] = {}

(* reconcileDelete with no host left in the cache: the finalizer goes, and    *)
(* with it the object.                                                       *)
DeleteComplete(m) ==
    /\ mctl = MctlIdle
    /\ machine[m].phase = "deleting"
    /\ Releasable(m) = {}
    /\ machine' = [machine EXCEPT ![m].phase = IF UpToDate THEN "gone" ELSE "overlooked",
                                  ![m].finalizer = FALSE, ![m].nodeRef = FALSE]
    /\ UNCHANGED <<host, mctl, hctl, agent, disk, unseen, faults>>

(* reconcileNormal of a Machine annotated for remediation whose node the    *)
(* management-cluster client does not find, or finds being deleted.         *)
Remediate(m) ==
    /\ mctl = MctlIdle
    /\ machine[m].phase = "live" /\ machine[m].nodeRef
    /\ \E h \in Attached(m) : ~IsAvailable(Cached(h)) /\ StartMark(m, h)
    /\ Fault("remediate")
    /\ UNCHANGED <<host, machine, hctl, agent, disk, unseen>>

-----------------------------------------------------------------------------
(* ByoHost controller *)

(* Reconcile of a host with the cleanup annotation: the time is recorded at *)
(* first sight, and the clean-up forced when the timeout has passed.        *)
HostReconcile(h) ==
    /\ hctl = HctlIdle
    /\ host[h].registered /\ host[h].cleanup # "none" /\ host[h].startedAt # "fresh"
    /\ LET b == host[h]
           a == IF b.startedAt = "none" THEN CleanupTimed(b) ELSE ForceCleaned(b)
       IN hctl' = [pc |-> StageFrom("conds", b, a), h |-> h, before |-> b, after |-> a]
    /\ UNCHANGED <<host, machine, mctl, agent, disk, unseen, faults>>

HctlCall ==
    /\ hctl.pc \in Stages
    /\ CallApplies(hctl.h, hctl) \/ CallFails(hctl.h, hctl)
    /\ LET s == StageAfter(hctl.pc, hctl.before, hctl.after)
       IN hctl' = IF s = "done" THEN HctlIdle ELSE [hctl EXCEPT !.pc = s]
    /\ UNCHANGED <<machine, mctl, agent, disk, unseen>>

-----------------------------------------------------------------------------
(* Agent *)

(* The agent process starts, or restarts: Register creates a missing host. *)
AgentStart(h) ==
    /\ ~agent[h].up
    /\ agent' = [agent EXCEPT ![h] = AgentIdle]
    /\ host' = [host EXCEPT ![h] = IF @.registered THEN @ ELSE FreshHost]
    /\ UNCHANGED <<machine, mctl, hctl, disk, unseen, faults>>

(* The three reasons for which Reconcile calls hostCleanUp: the annotation, *)
(* the zombie state, the mismatch of machine IDs.                           *)
IsZombie(r) == IsAvailable(r) /\ (r.boot = "true" \/ r.comp)
IsMismatch(h, r) == ~IsAvailable(r) /\ r.label # NoMachine /\ disk[h].id \notin {NoMachine, r.ref}
MustCleanUp(h, r) == r.cleanup # "none" \/ IsZombie(r) \/ IsMismatch(h, r)

AgentStep(h, pc, b, a) ==
    agent' = [agent EXCEPT ![h] = IF pc = "done" THEN AgentIdle
                                  ELSE [up |-> TRUE, pc |-> pc, before |-> b, after |-> a]]

(* Reconcile up to the work on the host. *)
AgentReconcile(h) ==
    /\ agent[h] = AgentIdle
    /\ host[h].registered
    /\ LET b == host[h]
           unready == [b EXCEPT !.boot = "failed"]
       IN \/ MustCleanUp(h, b) /\ AgentStep(h, "reset", b, b)
          \/ /\ ~MustCleanUp(h, b) /\ ~IsAvailable(b) /\ b.label = NoMachine
             /\ b # unready
             /\ AgentStep(h, "conds", b, unready)
          \/ /\ ~MustCleanUp(h, b) /\ ~IsAvailable(b) /\ b.label # NoMachine
             /\ b.boot # "true"
             /\ AgentStep(h, "boot", b, b)
    /\ UNCHANGED <<host, machine, mctl, hctl, disk, unseen, faults>>

AgentEdit(h, a) == AgentStep(h, StageFrom("conds", agent[h].before, a), agent[h].before, a)

(* hostCleanUp runs to its end; removing the ID file may fail unnoticed, and *)
(* so may resetNode, which returns no error to resetNodeWithRetry.           *)
AgentCleanUp(h) ==
    /\ agent[h].pc = "reset"
    /\ \/ disk' = [disk EXCEPT ![h] = [node |-> NoMachine, id |-> NoMachine]] /\ UNCHANGED faults
       \/ disk' = [disk EXCEPT ![h].node = NoMachine] /\ Fault("local")
       \/ disk' = [disk EXCEPT ![h].id = NoMachine] /\ Fault("reset")
    /\ AgentEdit(h, CleanedUp(agent[h].before))
    /\ UNCHANGED <<host, machine, mctl, hctl, unseen>>

(* hostCleanUp returns an error after the reset: parsing the uninstall       *)
(* script, before the conditions; the sentinel file or endpoint, after them. *)
AgentCleanUpFails(h) ==
    /\ agent[h].pc = "reset"
    /\ disk' = [disk EXCEPT ![h].node = NoMachine]
    /\ \E a \in {agent[h].before, ConditionsReset(agent[h].before)} : AgentEdit(h, a)
    /\ Fault("local")
    /\ UNCHANGED <<host, machine, mctl, hctl, unseen>>

(* Installation and bootstrap succeed; saving the ID may fail unnoticed. *)
AgentBootstrap(h) ==
    /\ agent[h].pc = "boot"
    /\ LET m == agent[h].before.ref
       IN \/ disk' = [disk EXCEPT ![h] = [node |-> m, id |-> m]] /\ UNCHANGED faults
          \/ disk' = [disk EXCEPT ![h].node = m] /\ Fault("local")
    /\ AgentEdit(h, [agent[h].before EXCEPT !.boot = "true", !.comp = TRUE])
    /\ UNCHANGED <<host, machine, mctl, hctl, unseen>>

(* They fail: the installation, the directories, or the bootstrap, which    *)
(* is followed by a reset.                                                  *)
AgentBootstrapFails(h) ==
    /\ agent[h].pc = "boot"
    /\ \/ AgentEdit(h, agent[h].before) /\ UNCHANGED disk
       \/ /\ AgentEdit(h, [agent[h].before EXCEPT !.boot = "failed", !.comp = TRUE])
          /\ UNCHANGED disk \/ disk' = [disk EXCEPT ![h].node = NoMachine]
    /\ Fault("local")
    /\ UNCHANGED <<host, machine, mctl, hctl, unseen>>

AgentCall(h) ==
    /\ agent[h].pc \in Stages
    /\ CallApplies(h, agent[h]) \/ CallFails(h, agent[h])
    /\ AgentStep(h, StageAfter(agent[h].pc, agent[h].before, agent[h].after),
                 agent[h].before, agent[h].after)
    /\ UNCHANGED <<machine, mctl, hctl, disk, unseen>>

(* The agent dies, alone or with the host; the work in hand may be half done. *)
AgentStops(h) ==
    /\ agent[h].up
    /\ agent' = [agent EXCEPT ![h] = AgentDown]
    /\ \E reboot \in BOOLEAN, half \in BOOLEAN :
         /\ Fault(IF reboot THEN "reboot" ELSE "agent")
         /\ half => agent[h].pc \in {"boot", "reset"}
         /\ disk' = [disk EXCEPT
               ![h].node = IF ~half THEN @
                           ELSE IF agent[h].pc = "boot" THEN agent[h].before.ref ELSE NoMachine,
               ![h].id = IF reboot THEN NoMachine ELSE @]
    /\ UNCHANGED <<host, machine, mctl, hctl, unseen>>

-----------------------------------------------------------------------------
(* Environment *)

CreateMachine(m) ==
    /\ machine[m].phase = "none"
    /\ \E ready \in BOOLEAN :
         machine' = [machine EXCEPT ![m].phase = "live", ![m].ready = ready]
    /\ UNCHANGED <<host, mctl, hctl, agent, disk, unseen, faults>>

BootstrapDataReady(m) ==
    /\ machine[m].phase = "live" /\ ~machine[m].ready
    /\ machine' = [machine EXCEPT ![m].ready = TRUE]
    /\ UNCHANGED <<host, mctl, hctl, agent, disk, unseen, faults>>

(* The hosts that carry a machine's label or reference, shown by the cache or not. *)
Held(m) == {h \in Hosts : host[h].registered /\ m \in {host[h].label, host[h].ref}}

(* Without a finalizer the API server removes the object at once. *)
DeleteMachine(m) ==
    /\ machine[m].phase = "live"
    /\ LET claimed == Held(m) # {} \/ (mctl.op = "attach" /\ mctl.m = m)
       IN machine' = [machine EXCEPT ![m].phase = IF machine[m].finalizer THEN "deleting"
                                                  ELSE IF claimed THEN "vanished" ELSE "gone"]
    /\ UNCHANGED <<host, mctl, hctl, agent, disk, unseen, faults>>

(* The webhook admits the deletion of a host without MachineRef; a ByoHost  *)
(* has no finalizer.                                                        *)
DeleteHost(h) ==
    /\ host[h].registered /\ IsAvailable(host[h])
    /\ Fault("delete")
    /\ host' = [host EXCEPT ![h] = AbsentHost]
    /\ UNCHANGED <<machine, mctl, hctl, agent, disk, unseen>>

(* The manager restarts and fills its cache; only a reconcile in progress is lost. *)
ManagerRestart ==
    /\ mctl # MctlIdle \/ hctl # HctlIdle
    /\ Fault("manager")
    /\ mctl' = MctlIdle /\ hctl' = HctlIdle
    /\ unseen' = [h \in Hosts |-> {}]
    /\ UNCHANGED <<host, machine, agent, disk>>

(* The watch delivers what it still owes of a claim, or the metadata call only: *)
(* events arrive in the order of the calls.                                    *)
CacheSync(h) ==
    /\ unseen[h] # {}
    /\ \E rest \in {{}, {"status"}} : rest # unseen[h] /\ rest \subseteq unseen[h]
                                      /\ unseen' = [unseen EXCEPT ![h] = rest]
    /\ UNCHANGED <<host, machine, mctl, hctl, agent, disk, faults>>

(* More than the cleanup timeout passes.  It is two minutes at least: the     *)
(* API calls of one reconcile do not take that long, work on a host may.      *)
TimePasses(h) ==
    /\ mctl = MctlIdle /\ hctl = HctlIdle /\ agent[h].pc \notin Stages
    /\ "fresh" \in {host[h].cleanup, host[h].startedAt}
    /\ host' = [host EXCEPT ![h].cleanup = IF @ = "fresh" THEN "old" ELSE @,
                            ![h].startedAt = IF @ = "fresh" THEN "old" ELSE @]
    /\ UNCHANGED <<machine, mctl, hctl, agent, disk, unseen, faults>>

-----------------------------------------------------------------------------
MctlNext ==
    \/ \E m \in Machines : \/ ReconcileNormal(m) \/ AttachList(m)
                           \/ ReconcileDelete(m) \/ DeleteComplete(m) \/ Remediate(m)
    \/ \E h \in Hosts : AttachLease(h) \/ AttachMiss(h)
    \/ AttachAbort \/ AttachGiveUp \/ AttachClaim \/ MctlCall \/ MctlFinish

HctlNext == HctlCall \/ \E h \in Hosts : HostReconcile(h)

AgentNext(h) ==
    \/ AgentReconcile(h) \/ AgentCleanUp(h) \/ AgentCleanUpFails(h)
    \/ AgentBootstrap(h) \/ AgentBootstrapFails(h) \/ AgentCall(h)

EnvNext ==
    \/ \E m \in Machines : CreateMachine(m) \/ BootstrapDataReady(m) \/ DeleteMachine(m)
    \/ \E h \in Hosts : AgentStops(h) \/ DeleteHost(h) \/ TimePasses(h) \/ CacheSync(h)
    \/ ManagerRestart

Next ==
    \/ MctlNext \/ HctlNext \/ EnvNext
    \/ \E h \in Hosts : AgentStart(h) \/ AgentNext(h)

Spec == Init /\ [][Next]_vars

(* Fairness.  The work queues are first-in first-out, a reconcile that       *)
(* returns an error or a RequeueAfter is queued again, and the cache resyncs  *)
(* periodically: a key that keeps needing a reconcile gets one (SF for the    *)
(* first step, since one worker serves all keys), and a reconcile, once       *)
(* started, runs on.  An agent that died is restarted, and a watch delivers.  *)
Fairness ==
    /\ WF_vars(AttachGiveUp \/ AttachClaim \/ MctlCall \/ MctlFinish
               \/ \E h \in Hosts : AttachLease(h) \/ AttachMiss(h))
    /\ \A m \in Machines : /\ SF_vars(ReconcileNormal(m) \/ AttachList(m))
                           /\ SF_vars(ReconcileDelete(m) \/ DeleteComplete(m))
    /\ WF_vars(HctlCall)
    /\ \A h \in Hosts : /\ SF_vars(HostReconcile(h)) /\ SF_vars(TimePasses(h))
                        /\ WF_vars(AgentStart(h)) /\ WF_vars(AgentNext(h))
                        /\ WF_vars(CacheSync(h))

FairSpec == Spec /\ Fairness

-----------------------------------------------------------------------------
(* Correctness *)

(* Whom a host belongs to: the machine its labels name, else the machine its *)
(* MachineRef names.                                                         *)
OwnerOf(r) == IF r.label # NoMachine THEN r.label ELSE r.ref

(* The two halves of a claim, written and removed by separate API calls of    *)
(* three processes, never name two machines (attachByoHost 789-866,           *)
(* markHostForCleanup 932, removeAnnotations 1034-1043), but for a host listed *)
(* after its claim (FreeAtClaim, below).                                       *)
OneOwner ==
    ListsKept =>
        \A h \in Hosts :
            NoMachine \notin {host[h].ref, host[h].label} => host[h].ref = host[h].label

(* A host that attachByoHost may hand to the next machine carries no node of  *)
(* an earlier one: hostCleanUp resets the node before the labels that keep    *)
(* the host out of the pool are removed, whatever fails in between.           *)
PoolIsClean ==
    RecordsKept => \A h \in Pool : disk[h].node = NoMachine

(* A ByoMachine that is removed leaves no host behind, neither by label nor by *)
(* MachineRef (249-268, 313), but for two cases: reconcileDelete read a cache  *)
(* that had yet to show a claim ("overlooked"), or the API server removed the  *)
(* machine after its claim began and before the deferred patch had saved the   *)
(* finalizer ("vanished", 321).  ReleasedBeforeRemoval has no exceptions.      *)
ReleasedBeforeGone ==
    \A m \in InPhase({"gone"}) : Held(m) = {}

(* The capacity pool's promise, HostPool: hosts are claimed when clean, joined *)
(* for their owner only, reset before they are released.                       *)
Pooled == INSTANCE HostPool WITH owner <- [h \in Hosts |-> OwnerOf(host[h])],
                                 node  <- [h \in Hosts |-> disk[h].node]

ImplementsPool == Pooled!Spec

(* Inductive invariant *)

(* The reconciles in progress are well formed. *)
ControlOK ==
    /\ mctl.pc \in {"leased"} \cup Stages => mctl.h \in Hosts /\ mctl.tries < MaxRetries
    /\ hctl.pc \in Stages => hctl.h \in Hosts
    /\ mctl.pc \in {"select", "leased", "finish"} => mctl.op = "attach"
    /\ mctl.pc \in Stages => mctl.op \in {"attach", "mark"}
    /\ mctl.op = "mark" => mctl.pc \in Stages
    /\ \A h \in Hosts : ~host[h].registered => host[h] = AbsentHost

(* Only attachByoHost writes a machine into a host; every other edit in        *)
(* progress keeps or clears the label and the reference it has read.           *)
KeepsOrClears(p) ==
    p.after.label \in {p.before.label, NoMachine} /\ p.after.ref \in {p.before.ref, NoMachine}

OnlyAttachClaims ==
    /\ mctl.op = "mark" => KeepsOrClears(mctl) /\ mctl.after.label = mctl.before.label
    /\ hctl.pc \in Stages => KeepsOrClears(hctl) /\ hctl.after.label = hctl.before.label
    /\ \A h \in Hosts : agent[h].pc \in Stages => KeepsOrClears(agent[h])

(* While attachByoHost runs for m, the hosts it listed can belong to m only. *)
ListIsFree ==
    mctl.op = "attach" =>
        /\ mctl.m \in Machines /\ machine[mctl.m].phase \notin {"none", "gone"}
        /\ ListsKept => \A h \in mctl.list :
                           {host[h].label, host[h].ref} \subseteq {NoMachine, mctl.m}
        /\ mctl.pc \in {"leased"} \cup Stages => mctl.h \in mctl.list
        /\ mctl.pc \in Stages => mctl.after.label = mctl.m /\ mctl.after.ref = mctl.m

(* The labels guard the node: they name the machine of any node on the host,  *)
(* they stay while a bootstrap runs, and the agent is about to remove them     *)
(* only when the node is gone.                                                 *)
NodeGuarded(h) ==
    /\ disk[h].node \in {NoMachine, host[h].label}
    /\ agent[h].pc = "boot" =>
          agent[h].before.ref = host[h].label /\ agent[h].before.ref # NoMachine
    /\ agent[h].pc \in Stages /\ agent[h].after.label # agent[h].before.label
          => disk[h].node = NoMachine

LabelsGuardNode == RecordsKept => \A h \in Hosts : NodeGuarded(h)

(* Why a claim is safe although nothing is locked: the three facts above,      *)
(* together with OneOwner and ReleasedBeforeGone, are preserved by every call   *)
(* of every reconciler.                                                        *)
ClaimInv ==
    ControlOK /\ OnlyAttachClaims /\ ListIsFree /\ LabelsGuardNode /\ OneOwner /\ ReleasedBeforeGone

(* A deleted ByoMachine eventually goes away: whatever half-done claim,        *)
(* clean-up or forced clean-up it finds, reconcileDelete marks its hosts until  *)
(* the agent has released them all (249-315).                                  *)
DeletionCompletes ==
    \A m \in Machines : machine[m].phase = "deleting" ~> machine[m].phase \in {"gone", "overlooked"}

-----------------------------------------------------------------------------
(* Statements of the repository that the code does not keep.                   *)

(* "MachineFinalizer allows ReconcileByoMachine to clean up Byo resources       *)
(* associated with ByoMachine before removing it from the API Server"           *)
(* (byomachine_types.go 14-16).                                                 *)
ReleasedBeforeRemoval ==
    \A m \in InPhase(Removed) : Held(m) = {}

(* The same, of a machine whose deletion was reconciled: the list reconcileDelete *)
(* goes by shows every host that was claimed for the machine (253-268).           *)
DeletionSeesClaims ==
    \A m \in InPhase({"overlooked"}) : Held(m) = {}

(* "The referenced ByoMachine is being deleted (shouldn't happen, but we proceed  *)
(* anyway)" (byomachine_controller.go 740): the host attachByoHost takes a lease   *)
(* on does not refer to another machine whose deletion has yet to release it.      *)
FreeAtClaim ==
    mctl.pc = "leased" => host[mctl.h].ref \notin InPhase({"deleting"}) \ {mctl.m}

(* "Cleanup annotation exists but within timeout - wait for Agent to process"    *)
(* (byohost_controller.go 159): no clean-up is forced earlier than the timeout   *)
(* after the annotation that asks for it was set.                                *)
ForcedOnlyWhenDue ==
    hctl.pc # "idle" /\ hctl.after = ForceCleaned(hctl.before) => hctl.before.cleanup = "old"

(* "K8sNodeBootstrapSucceeded documents if the node is successfully bootstrapped *)
(* by kubeadm. This condition is managed by the host agent"                      *)
(* (condition_consts.go 10-11): when no clean-up is asked for or under way, a    *)
(* True condition on the host of a live machine means its node has joined.       *)
BootstrappedMeansJoined ==
    \A h \in Hosts :
        (/\ host[h].boot = "true" /\ host[h].cleanup = "none" /\ agent[h].pc = "idle"
         /\ host[h].ref = host[h].label /\ host[h].ref \in InPhase({"live"}))
        => disk[h].node = host[h].ref

(* "MachineRef is an optional reference to a Cluster API Machine using this      *)
(* host." (byohost_types.go 123-124): a host labelled for a live machine whose   *)
(* claim is over, and of which no clean-up is asked for, refers to it.           *)
ClaimKeepsReference ==
    \A h \in Hosts :
        (/\ host[h].label \in InPhase({"live"}) /\ host[h].cleanup = "none"
         /\ mctl = MctlIdle /\ hctl = HctlIdle /\ agent[h] = AgentIdle)
        => host[h].ref = host[h].label

(* "failed to patch byohost, will retry" (byomachine_controller.go 868): a host  *)
(* labelled for a live machine gets its MachineRef in the end, unless it is      *)
(* released or the machine deleted.                                              *)
HalfClaimIsRetried ==
    \A h \in Hosts, m \in Machines :
        (host[h].label = m /\ machine[m].phase = "live")
        ~> (host[h].ref = m \/ host[h].label # m \/ machine[m].phase # "live")

(* "resetNodeWithRetry attempts to reset the node with retry logic"              *)
(* (host_reconciler.go 626): one failure of resetNode leaves no node behind on    *)
(* a host that goes back to the pool.                                            *)
ResetIsRetried ==
    \A h \in Pool : disk[h].node = NoMachine
==============================================================================
