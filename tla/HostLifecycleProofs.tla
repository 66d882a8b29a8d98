------------------------- MODULE HostLifecycleProofs -------------------------
(***************************************************************************)
(* Proofs about HostLifecycle, for any number of hosts, machines, retries   *)
(* and faults: type correctness, the inductive invariant of the claim and   *)
(* its consequences, and that the reconcilers implement HostPool.           *)
(***************************************************************************)
EXTENDS HostLifecycle, TLAPS

(* The patch helper always has a next call or is done (patch.Helper.Patch). *)
LEMMA StageFromType ==
    \A s, b, a : StageFrom(s, b, a) \in Stages \cup {"done"}
  BY DEF StageFrom, Stages

(* The same after a call. *)
LEMMA StageAfterType ==
    \A s, b, a : StageAfter(s, b, a) \in Stages \cup {"done"}
  BY StageFromType DEF StageAfter

(* A host that Register has just created, and one that does not exist, belong to nobody. *)
LEMMA ConstantHosts ==
    /\ FreshHost \in HostRec /\ AbsentHost \in HostRec
    /\ FreshHost.label = NoMachine /\ FreshHost.ref = NoMachine /\ FreshHost.registered
    /\ AbsentHost.label = NoMachine /\ AbsentHost.ref = NoMachine /\ ~AbsentHost.registered
  BY DEF FreshHost, AbsentHost, HostRec, MaybeMachine, Ages, BootConds

(* What one call of the patch helper does to the two halves of a claim: only    *)
(* the metadata call writes the label, only the status call the MachineRef, and *)
(* each only when the reconciler changed it in its copy.                        *)
LEMMA MergeEffect ==
    ASSUME NEW s \in HostRec, NEW b \in HostRec, NEW a \in HostRec, NEW st
    PROVE  /\ Merge(st, s, b, a) \in HostRec
           /\ Merge(st, s, b, a).registered = s.registered
           /\ Merge(st, s, b, a).label =
                 IF st = "meta" /\ a.label # b.label THEN a.label ELSE s.label
           /\ Merge(st, s, b, a).ref =
                 IF st = "status" /\ a.ref # b.ref THEN a.ref ELSE s.ref
  <1>1. CASE st = "conds"
    BY <1>1 DEF Merge, MergeConds, Unless, HostRec
  <1>2. CASE st = "meta"
    BY <1>2 DEF Merge, MergeMeta, Unless, HostRec
  <1>3. CASE st = "status"
    BY <1>3 DEF Merge, MergeStatus, Unless, HostRec
  <1>4. CASE st \notin {"conds", "meta", "status"}
    BY <1>4 DEF Merge
  <1> QED BY <1>1, <1>2, <1>3, <1>4

(* What each edit does to the two halves of a claim: attachByoHost sets both,  *)
(* markHostForCleanup and the forced clean-up clear the reference and keep the *)
(* labels, only hostCleanUp clears the labels.                                 *)
LEMMA EditEffect ==
    ASSUME NEW r \in HostRec, NEW m \in MaybeMachine
    PROVE  /\ Claimed(r, m) \in HostRec /\ Claimed(r, m).label = m /\ Claimed(r, m).ref = m
           /\ MarkedForCleanup(r) \in HostRec
           /\ MarkedForCleanup(r).label = r.label /\ MarkedForCleanup(r).ref = NoMachine
           /\ CleanupTimed(r) \in HostRec
           /\ CleanupTimed(r).label = r.label /\ CleanupTimed(r).ref = r.ref
           /\ ForceCleaned(r) \in HostRec
           /\ ForceCleaned(r).label = r.label /\ ForceCleaned(r).ref = NoMachine
           /\ ConditionsReset(r) \in HostRec
           /\ ConditionsReset(r).label = r.label /\ ConditionsReset(r).ref = r.ref
           /\ CleanedUp(r) \in HostRec
           /\ CleanedUp(r).label = NoMachine /\ CleanedUp(r).ref = NoMachine
  <1>1. Claimed(r, m) \in HostRec /\ Claimed(r, m).label = m /\ Claimed(r, m).ref = m
    BY DEF Claimed, HostRec
  <1>2. /\ MarkedForCleanup(r) \in HostRec
        /\ MarkedForCleanup(r).label = r.label /\ MarkedForCleanup(r).ref = NoMachine
    BY DEF MarkedForCleanup, HostRec, MaybeMachine, Ages
  <1>3. /\ CleanupTimed(r) \in HostRec
        /\ CleanupTimed(r).label = r.label /\ CleanupTimed(r).ref = r.ref
    BY DEF CleanupTimed, HostRec, Ages
  <1>4. /\ ForceCleaned(r) \in HostRec
        /\ ForceCleaned(r).label = r.label /\ ForceCleaned(r).ref = NoMachine
    BY DEF ForceCleaned, HostRec, MaybeMachine, Ages, BootConds
  <1>5. /\ ConditionsReset(r) \in HostRec
        /\ ConditionsReset(r).label = r.label /\ ConditionsReset(r).ref = r.ref
    BY DEF ConditionsReset, HostRec, BootConds
  <1>6. /\ CleanedUp(r) \in HostRec
        /\ CleanedUp(r).label = NoMachine /\ CleanedUp(r).ref = NoMachine
    BY <1>5 DEF CleanedUp, HostRec, MaybeMachine, Ages
  <1> QED BY <1>1, <1>2, <1>3, <1>4, <1>5, <1>6

(* The number of injected faults stays within its bound. *)
LEMMA FaultType ==
    ASSUME faults \in 0..MaxFaults, NEW k, Fault(k) \/ UNCHANGED faults
    PROVE  faults' \in 0..MaxFaults
  BY FaultsAssumption DEF Fault

(* A call of any reconciler, applied, refused or failed, touches one host, does *)
(* not create one, and writes at most what that reconciler edited.              *)
LEMMA CallEffect ==
    ASSUME TypeOK, NEW h \in Hosts, NEW p, p.before \in HostRec, p.after \in HostRec,
           CallApplies(h, p) \/ CallFails(h, p)
    PROVE  /\ host' \in [Hosts -> HostRec] /\ faults' \in 0..MaxFaults
           /\ \A k \in Hosts : k # h => host'[k] = host[k]
           /\ host'[h].registered = host[h].registered
           /\ ~host[h].registered => host'[h] = host[h]
           /\ \/ host'[h].label = host[h].label
              \/ /\ p.pc = "meta" /\ p.after.label # p.before.label
                 /\ host'[h].label = p.after.label
           /\ \/ host'[h].ref = host[h].ref
              \/ /\ p.pc = "status" /\ p.after.ref # p.before.ref
                 /\ host'[h].ref = p.after.ref
  <1>0. host \in [Hosts -> HostRec] /\ faults \in 0..MaxFaults
    BY DEF TypeOK
  <1>1. CASE CallApplies(h, p)
    <2> DEFINE r == Merge(p.pc, host[h], p.before, p.after)
    <2>1. host[h] \in HostRec
      BY <1>0
    <2>2. /\ r \in HostRec /\ r.registered = host[h].registered
          /\ r.label = IF p.pc = "meta" /\ p.after.label # p.before.label
                         THEN p.after.label ELSE host[h].label
          /\ r.ref = IF p.pc = "status" /\ p.after.ref # p.before.ref
                       THEN p.after.ref ELSE host[h].ref
      <3> DEFINE s == host[h]
                 b == p.before
                 a == p.after
                 st == p.pc
      <3>1. s \in HostRec /\ b \in HostRec /\ a \in HostRec
        BY <2>1
      <3> HIDE DEF s, b, a, st
      <3>2. /\ Merge(st, s, b, a) \in HostRec
            /\ Merge(st, s, b, a).registered = s.registered
            /\ Merge(st, s, b, a).label =
                  IF st = "meta" /\ a.label # b.label THEN a.label ELSE s.label
            /\ Merge(st, s, b, a).ref =
                  IF st = "status" /\ a.ref # b.ref THEN a.ref ELSE s.ref
        BY <3>1, MergeEffect
      <3> QED BY <3>2, Zenon DEF s, b, a, st
    <2>3. host' = [host EXCEPT ![h] = r] /\ faults' = faults /\ host[h].registered
      BY <1>1 DEF CallApplies, CallRefused
    <2> HIDE DEF r
    <2> QED BY <1>0, <2>2, <2>3
  <1>2. CASE CallFails(h, p)
    <2>1. host' = host
      BY <1>2 DEF CallFails
    <2>2. faults' \in 0..MaxFaults
      BY <1>0, <1>2, FaultType DEF CallFails
    <2> QED BY <1>0, <2>1, <2>2
  <1> QED BY <1>1, <1>2

(* The idle processes are of their types. *)
LEMMA IdleTypes ==
    /\ MctlIdle \in MctlRec /\ HctlIdle \in HctlRec
    /\ AgentIdle \in AgentRec /\ AgentDown \in AgentRec
  <1>1. 0 \in 0..MaxRetries
    BY RetriesAssumption
  <1>2. MctlIdle \in MctlRec
    BY <1>1, ConstantHosts DEF MctlIdle, MctlRec, MaybeMachine
  <1>3. HctlIdle \in HctlRec
    BY ConstantHosts DEF HctlIdle, HctlRec
  <1>4. AgentIdle \in AgentRec
    BY ConstantHosts DEF AgentIdle, AgentRec
  <1>5. AgentDown \in AgentRec
    BY <1>4 DEF AgentDown, AgentRec
  <1> QED BY <1>2, <1>3, <1>4, <1>5

(* A step of an agent concerns that agent only and leaves it where it says. *)
LEMMA AgentStepType ==
    ASSUME NEW h \in Hosts, agent \in [Hosts -> AgentRec],
           NEW pc \in Stages \cup {"done", "reset", "boot"},
           NEW b \in HostRec, NEW a \in HostRec, AgentStep(h, pc, b, a)
    PROVE  /\ agent' \in [Hosts -> AgentRec]
           /\ \A k \in Hosts : k # h => agent'[k] = agent[k]
           /\ IF pc = "done" THEN agent'[h] = AgentIdle
              ELSE agent'[h].pc = pc /\ agent'[h].before = b /\ agent'[h].after = a
  <1> DEFINE w == IF pc = "done" THEN AgentIdle
                  ELSE [up |-> TRUE, pc |-> pc, before |-> b, after |-> a]
  <1>1. /\ w \in AgentRec
        /\ IF pc = "done" THEN w = AgentIdle
           ELSE w.pc = pc /\ w.before = b /\ w.after = a
    BY IdleTypes DEF AgentRec
  <1>2. agent' = [agent EXCEPT ![h] = w]
    BY DEF AgentStep
  <1> HIDE DEF w
  <1> QED BY <1>1, <1>2

(* After a call of the ByoMachine controller: the next call of the same patch, *)
(* the retry loop or the end of attachByoHost, or nothing left to do.          *)
LEMMA MctlAfterEffect ==
    ASSUME TypeOK, ControlOK, mctl.pc \in Stages, NEW f \in BOOLEAN,
           NEW w, w = MctlAfter(f)
    PROVE  /\ w \in MctlRec
           /\ \/ w = MctlIdle
              \/ /\ w.op = mctl.op /\ w.m = mctl.m /\ w.list = mctl.list
                 /\ \/ /\ w.pc \in Stages /\ w.h = mctl.h /\ w.tries = mctl.tries
                       /\ w.before = mctl.before /\ w.after = mctl.after
                    \/ w.pc \in {"select", "finish"} /\ w.op = "attach"
  <1> DEFINE s == StageAfter(mctl.pc, mctl.before, mctl.after)
             g == mctl.failed \/ f
             loop == [mctl EXCEPT !.h = NoHost, !.failed = FALSE,
                                  !.before = AbsentHost, !.after = AbsentHost]
  <1>0. /\ mctl \in MctlRec /\ mctl.tries \in 0..MaxRetries /\ mctl.tries < MaxRetries
        /\ mctl.op \in {"attach", "mark"}
    BY DEF TypeOK, ControlOK, MctlRec
  <1>1. s \in Stages \cup {"done"} /\ g \in BOOLEAN
    BY <1>0, StageAfterType DEF MctlRec
  <1>2. /\ loop \in MctlRec /\ loop.op = mctl.op /\ loop.m = mctl.m /\ loop.list = mctl.list
        /\ loop.tries = mctl.tries
    BY <1>0, ConstantHosts DEF MctlRec
  <1>3. mctl.tries + 1 \in 0..MaxRetries
    BY <1>0, RetriesAssumption
  <1>4. w = IF s # "done" THEN [mctl EXCEPT !.pc = s, !.failed = g]
            ELSE IF mctl.op = "mark" THEN MctlIdle
            ELSE IF g THEN [loop EXCEPT !.pc = "select", !.tries = mctl.tries + 1]
            ELSE [loop EXCEPT !.pc = "finish"]
    BY DEF MctlAfter
  <1> HIDE DEF s, g, loop
  <1>5. CASE s # "done"
    <2>1. w = [mctl EXCEPT !.pc = s, !.failed = g] /\ s \in Stages
      BY <1>1, <1>4, <1>5
    <2>2. w \in MctlRec
      BY <1>0, <1>1, <2>1 DEF MctlRec
    <2>3. /\ w.pc = s /\ w.op = mctl.op /\ w.m = mctl.m /\ w.h = mctl.h /\ w.list = mctl.list
          /\ w.tries = mctl.tries /\ w.before = mctl.before /\ w.after = mctl.after
      BY <1>0, <2>1 DEF MctlRec
    <2> QED BY <2>1, <2>2, <2>3
  <1>6. CASE s = "done" /\ mctl.op = "mark"
    BY <1>4, <1>6, IdleTypes
  <1>7. CASE s = "done" /\ mctl.op # "mark" /\ g
    BY <1>0, <1>2, <1>3, <1>4, <1>7 DEF MctlRec
  <1>8. CASE s = "done" /\ mctl.op # "mark" /\ ~g
    BY <1>0, <1>2, <1>4, <1>8 DEF MctlRec
  <1> QED BY <1>0, <1>5, <1>6, <1>7, <1>8

(* The cached copy of a host is of the same type. *)
LEMMA CachedType == TypeOK => \A h \in Hosts : Cached(h) \in HostRec
  <1> SUFFICES ASSUME TypeOK, NEW h \in Hosts PROVE Cached(h) \in HostRec
    OBVIOUS
  <1> DEFINE l == IF "meta" \in unseen[h] THEN NoMachine ELSE host[h].label
             f == IF "status" \in unseen[h] THEN NoMachine ELSE host[h].ref
  <1>1. host[h] \in HostRec /\ l \in MaybeMachine /\ f \in MaybeMachine
    BY DEF TypeOK, HostRec, MaybeMachine
  <1>2. Cached(h) = [host[h] EXCEPT !.label = l, !.ref = f]
    BY <1>1 DEF Cached, HostRec
  <1> HIDE DEF l, f
  <1> QED BY <1>1, <1>2 DEF HostRec

(* The initial state is of its type. *)
LEMMA TypeInit == Init => TypeOK /\ ControlOK
  <1> SUFFICES ASSUME Init PROVE TypeOK /\ ControlOK
    OBVIOUS
  <1>1. faults \in 0..MaxFaults
    BY FaultsAssumption DEF Init
  <1>2. /\ machine \in [Machines -> MachineRec] /\ disk \in [Hosts -> DiskRec]
        /\ unseen \in [Hosts -> SUBSET {"meta", "status"}]
    BY DEF Init, MachineRec, Phases, DiskRec, MaybeMachine
  <1>3. /\ host \in [Hosts -> HostRec] /\ mctl \in MctlRec /\ hctl \in HctlRec
        /\ agent \in [Hosts -> AgentRec]
    BY ConstantHosts, IdleTypes DEF Init
  <1>4. ControlOK
    BY DEF Init, ControlOK, MctlIdle, HctlIdle, Stages
  <1> QED BY <1>1, <1>2, <1>3, <1>4 DEF TypeOK

(* Every action preserves the type and the form of the reconciles in progress. *)
LEMMA TypeStep == TypeOK /\ ControlOK /\ [Next]_vars => TypeOK' /\ ControlOK'
  <1> SUFFICES ASSUME TypeOK, ControlOK, [Next]_vars PROVE TypeOK' /\ ControlOK'
    OBVIOUS
  <1>t. /\ host \in [Hosts -> HostRec] /\ machine \in [Machines -> MachineRec]
        /\ mctl \in MctlRec /\ hctl \in HctlRec /\ agent \in [Hosts -> AgentRec]
        /\ disk \in [Hosts -> DiskRec] /\ faults \in 0..MaxFaults
        /\ unseen \in [Hosts -> SUBSET {"meta", "status"}]
    BY DEF TypeOK
  <1>1. ASSUME NEW m \in Machines, ReconcileNormal(m) PROVE TypeOK' /\ ControlOK'
    <2>1. machine' \in [Machines -> MachineRec]
      <3>1. PICK joined \in BOOLEAN :
               machine' = [machine EXCEPT ![m].finalizer = TRUE, ![m].nodeRef = @ \/ joined]
        BY <1>1 DEF ReconcileNormal
      <3> QED BY <1>t, <3>1 DEF MachineRec
    <2> QED BY <1>t, <1>1, <2>1 DEF ReconcileNormal, TypeOK, ControlOK
  <1>2. ASSUME NEW m \in Machines, AttachList(m) PROVE TypeOK' /\ ControlOK'
    <2>1. PICK list \in SUBSET Hosts :
             mctl' = [MctlIdle EXCEPT !.pc = "select", !.op = "attach", !.m = m, !.list = list]
      BY <1>2 DEF AttachList, Pool, CachedPool
    <2>2. mctl' \in MctlRec /\ mctl'.pc = "select" /\ mctl'.op = "attach"
      BY <2>1, IdleTypes DEF MctlRec, MaybeMachine
    <2>3. faults' \in 0..MaxFaults
      BY <1>t, <1>2, FaultType DEF AttachList
    <2> QED BY <1>t, <1>2, <2>2, <2>3 DEF AttachList, TypeOK, ControlOK, Stages
  <1>3. ASSUME NEW h \in Hosts, AttachLease(h) PROVE TypeOK' /\ ControlOK'
    <2>1. host' \in [Hosts -> HostRec] /\ \A k \in Hosts : ~host'[k].registered => host'[k] = AbsentHost
      BY <1>t, <1>3 DEF AttachLease, FreeToTry, HostRec, MaybeMachine, ControlOK
    <2>2. /\ mctl' \in MctlRec /\ mctl'.pc = "leased" /\ mctl'.op = "attach"
          /\ mctl'.h \in Hosts /\ mctl'.tries < MaxRetries
      BY <1>t, <1>3 DEF AttachLease, MctlRec, ControlOK
    <2> QED BY <1>t, <1>3, <2>1, <2>2 DEF AttachLease, TypeOK, ControlOK, Stages
  <1>4. ASSUME NEW h \in Hosts, AttachMiss(h) PROVE TypeOK' /\ ControlOK'
    <2>0. mctl.op = "attach" /\ mctl.tries \in 0..MaxRetries /\ mctl.tries < MaxRetries
      BY <1>t, <1>4 DEF AttachMiss, ControlOK, MctlRec
    <2>1. mctl.tries + 1 \in 0..MaxRetries
      BY <2>0, RetriesAssumption
    <2>2. mctl' \in MctlRec /\ mctl'.pc = "select" /\ mctl'.op = "attach"
      BY <1>t, <1>4, <2>0, <2>1 DEF AttachMiss, MctlRec
    <2>3. faults' \in 0..MaxFaults
      BY <1>t, <1>4, FaultType DEF AttachMiss
    <2> QED BY <1>t, <1>4, <2>2, <2>3 DEF AttachMiss, TypeOK, ControlOK, Stages
  <1>5. CASE AttachAbort
    <2>1. mctl' \in MctlRec /\ mctl'.pc = "finish" /\ mctl'.op = "attach"
      BY <1>t, <1>5 DEF AttachAbort, MctlRec, ControlOK
    <2> QED BY <1>t, <1>5, <2>1 DEF AttachAbort, TypeOK, ControlOK, Stages
  <1>6. CASE AttachGiveUp
    <2>1. mctl' \in MctlRec /\ mctl'.pc = "finish" /\ mctl'.op = "attach"
      BY <1>t, <1>6 DEF AttachGiveUp, MctlRec, ControlOK
    <2> QED BY <1>t, <1>6, <2>1 DEF AttachGiveUp, TypeOK, ControlOK, Stages
  <1>7. CASE AttachClaim
    <2> DEFINE b == host[mctl.h]
               a == Claimed(b, mctl.m)
               s == StageFrom("conds", b, a)
    <2>0. mctl.h \in Hosts /\ mctl.m \in MaybeMachine /\ mctl.op = "attach" /\ mctl.tries < MaxRetries
      BY <1>t, <1>7 DEF AttachClaim, ControlOK, MctlRec
    <2>1. b \in HostRec /\ a \in HostRec /\ s \in Stages \cup {"done"}
      BY <1>t, <2>0, EditEffect, StageFromType
    <2>2. mctl' = IF s = "done" THEN [mctl EXCEPT !.pc = "finish", !.h = NoHost]
                  ELSE [mctl EXCEPT !.pc = s, !.before = b, !.after = a]
      BY <1>7 DEF AttachClaim
    <2>u. \/ UNCHANGED <<unseen, faults>>
          \/ /\ Fault("cache")
             /\ unseen' = [unseen EXCEPT ![mctl.h] =
                              {c \in {"meta", "status"} : StageFrom(c, b, a) = c}]
      BY <1>7 DEF AttachClaim
    <2> HIDE DEF b, a, s
    <2>3. /\ mctl' \in MctlRec /\ mctl'.pc \in {"finish"} \cup Stages /\ mctl'.op = "attach"
          /\ mctl'.pc \in Stages => mctl'.h \in Hosts /\ mctl'.tries < MaxRetries
      BY <1>t, <2>0, <2>1, <2>2 DEF MctlRec, Stages
    <2>4. faults' \in 0..MaxFaults /\ unseen' \in [Hosts -> SUBSET {"meta", "status"}]
      BY <1>t, <2>u, FaultType
    <2>5. UNCHANGED <<host, machine, hctl, agent, disk>>
      BY <1>7 DEF AttachClaim
    <2> QED BY <1>t, <2>3, <2>4, <2>5 DEF TypeOK, ControlOK, Stages
  <1>8. CASE MctlCall
    <2>0. mctl.h \in Hosts /\ mctl.before \in HostRec /\ mctl.after \in HostRec
      BY <1>t, <1>8 DEF MctlCall, ControlOK, MctlRec
    <2>1. /\ host' \in [Hosts -> HostRec] /\ faults' \in 0..MaxFaults
          /\ \A k \in Hosts : ~host'[k].registered => host'[k] = AbsentHost
      BY <1>8, <2>0, CallEffect DEF MctlCall, ControlOK
    <2>2. PICK f \in BOOLEAN : mctl' = MctlAfter(f)
      BY <1>8 DEF MctlCall
    <2>3. /\ mctl' \in MctlRec
          /\ \/ mctl' = MctlIdle
             \/ /\ mctl'.op = mctl.op
                /\ \/ mctl'.pc \in Stages /\ mctl'.h = mctl.h /\ mctl'.tries = mctl.tries
                   \/ mctl'.pc \in {"select", "finish"} /\ mctl'.op = "attach"
      BY <1>8, <2>2, MctlAfterEffect DEF MctlCall
    <2> QED BY <1>t, <1>8, <2>1, <2>3 DEF MctlCall, TypeOK, ControlOK, Stages, MctlIdle
  <1>9. CASE MctlFinish
    <2>1. machine' \in [Machines -> MachineRec]
      <3> DEFINE f == machine[mctl.m].finalizer \/ machine[mctl.m].phase = "live"
      <3>1. machine' = machine \/ machine' = [machine EXCEPT ![mctl.m].finalizer = f]
        BY <1>9 DEF MctlFinish
      <3>2. f \in BOOLEAN
        OBVIOUS
      <3> HIDE DEF f
      <3> QED BY <1>t, <3>1, <3>2 DEF MachineRec
    <2>2. faults' \in 0..MaxFaults
      BY <1>t, <1>9, FaultType DEF MctlFinish
    <2>3. mctl' = MctlIdle /\ UNCHANGED <<host, hctl, agent, disk, unseen>>
      BY <1>9 DEF MctlFinish
    <2> QED BY <1>t, <2>1, <2>2, <2>3, IdleTypes DEF TypeOK, ControlOK, Stages, MctlIdle
  <1>10. ASSUME NEW m \in Machines, NEW h \in Hosts, StartMark(m, h),
                UNCHANGED <<host, machine, hctl, agent, disk, unseen>>, faults' \in 0..MaxFaults
         PROVE  TypeOK' /\ ControlOK'
    <2> DEFINE b == Cached(h)
               a == MarkedForCleanup(b)
               s == StageFrom("conds", b, a)
    <2>1. b \in HostRec /\ a \in HostRec /\ s \in Stages \cup {"done"}
      BY CachedType, EditEffect, StageFromType DEF MaybeMachine
    <2>2. /\ s # "done"
          /\ mctl' = [MctlIdle EXCEPT !.pc = s, !.op = "mark", !.m = m, !.h = h,
                                      !.before = b, !.after = a]
      BY <1>10 DEF StartMark
    <2> HIDE DEF b, a, s
    <2>3. /\ mctl' \in MctlRec /\ mctl'.pc \in Stages /\ mctl'.op = "mark" /\ mctl'.h = h
          /\ mctl'.tries = 0
      BY <2>1, <2>2, IdleTypes DEF MctlRec, MctlIdle, MaybeMachine
    <2>4. 0 < MaxRetries
      BY RetriesAssumption
    <2> QED BY <1>t, <1>10, <2>3, <2>4 DEF TypeOK, ControlOK, Stages
  <1>11. ASSUME NEW m \in Machines, ReconcileDelete(m) PROVE TypeOK' /\ ControlOK'
    <2>1. PICK h \in Releasable(m) : StartMark(m, h)
      BY <1>11 DEF ReconcileDelete
    <2>2. h \in Hosts
      BY DEF Releasable, Attached, Referring
    <2> QED BY <1>t, <1>10, <1>11, <2>1, <2>2 DEF ReconcileDelete
  <1>12. ASSUME NEW m \in Machines, DeleteComplete(m) PROVE TypeOK' /\ ControlOK'
    <2>1. machine' \in [Machines -> MachineRec]
      <3>1. machine[m] \in MachineRec
        BY <1>t
      <3> DEFINE p == IF UpToDate THEN "gone" ELSE "overlooked"
                 gone == [machine[m] EXCEPT !.phase = p, !.finalizer = FALSE, !.nodeRef = FALSE]
      <3>p. p \in Phases
        BY DEF Phases, Removed
      <3>3. machine' = [machine EXCEPT ![m] = gone]
        BY <1>12 DEF DeleteComplete
      <3> HIDE DEF p
      <3>2. gone \in MachineRec
        BY <3>1, <3>p DEF MachineRec
      <3> HIDE DEF gone
      <3> QED BY <1>t, <3>2, <3>3
    <2> QED BY <1>t, <1>12, <2>1 DEF DeleteComplete, TypeOK, ControlOK
  <1>13. ASSUME NEW m \in Machines, Remediate(m) PROVE TypeOK' /\ ControlOK'
    <2>1. PICK h \in Attached(m) : StartMark(m, h)
      BY <1>13 DEF Remediate
    <2>2. h \in Hosts
      BY DEF Attached
    <2>3. faults' \in 0..MaxFaults
      BY <1>t, <1>13, FaultType DEF Remediate
    <2> QED BY <1>10, <1>13, <2>1, <2>2, <2>3 DEF Remediate
  <1>14. ASSUME NEW h \in Hosts, HostReconcile(h) PROVE TypeOK' /\ ControlOK'
    <2> DEFINE b == host[h]
               a == IF b.startedAt = "none" THEN CleanupTimed(b) ELSE ForceCleaned(b)
               s == StageFrom("conds", b, a)
    <2>1. b \in HostRec /\ a \in HostRec
      BY <1>t, EditEffect DEF MaybeMachine
    <2>2. s \in Stages \cup {"idle"}
      <3>1. b.startedAt = "none" => b.startedAt # CleanupTimed(b).startedAt
        BY <2>1 DEF CleanupTimed, HostRec
      <3>2. b.cleanup # "none" /\ ForceCleaned(b).cleanup = "none"
        BY <1>14, <2>1 DEF HostReconcile, ForceCleaned, HostRec
      <3>3. MetaDiffer(b, a)
        BY <3>1, <3>2 DEF MetaDiffer
      <3> QED BY <3>3 DEF StageFrom, Stages
    <2>3. hctl' = [pc |-> s, h |-> h, before |-> b, after |-> a]
      BY <1>14 DEF HostReconcile
    <2> HIDE DEF b, a, s
    <2>4. hctl' \in HctlRec /\ hctl'.h = h
      BY <2>1, <2>2, <2>3 DEF HctlRec
    <2> QED BY <1>t, <1>14, <2>4 DEF HostReconcile, TypeOK, ControlOK
  <1>15. CASE HctlCall
    <2>0. hctl.h \in Hosts /\ hctl.before \in HostRec /\ hctl.after \in HostRec
      BY <1>t, <1>15 DEF HctlCall, ControlOK, HctlRec
    <2>1. /\ host' \in [Hosts -> HostRec] /\ faults' \in 0..MaxFaults
          /\ \A k \in Hosts : ~host'[k].registered => host'[k] = AbsentHost
      BY <1>15, <2>0, CallEffect DEF HctlCall, ControlOK
    <2>2. hctl' \in HctlRec /\ (hctl'.pc \in Stages => hctl'.h \in Hosts)
      <3> DEFINE s == StageAfter(hctl.pc, hctl.before, hctl.after)
      <3>1. s \in Stages \cup {"done"}
        BY StageAfterType
      <3>2. hctl' = IF s = "done" THEN HctlIdle ELSE [hctl EXCEPT !.pc = s]
        BY <1>15 DEF HctlCall
      <3> HIDE DEF s
      <3>3. CASE s = "done"
        BY <3>2, <3>3, IdleTypes DEF HctlIdle, Stages
      <3>4. CASE s # "done"
        BY <1>t, <2>0, <3>1, <3>2, <3>4 DEF HctlRec
      <3> QED BY <3>3, <3>4
    <2> QED BY <1>t, <1>15, <2>1, <2>2 DEF HctlCall, TypeOK, ControlOK
  <1>16. ASSUME NEW h \in Hosts, AgentStart(h) PROVE TypeOK' /\ ControlOK'
    <2>1. agent' \in [Hosts -> AgentRec]
      BY <1>t, <1>16, IdleTypes DEF AgentStart
    <2>2. /\ host' \in [Hosts -> HostRec]
          /\ \A k \in Hosts : ~host'[k].registered => host'[k] = AbsentHost
      BY <1>t, <1>16, ConstantHosts DEF AgentStart, ControlOK
    <2> QED BY <1>t, <1>16, <2>1, <2>2 DEF AgentStart, TypeOK, ControlOK
  <1>17. ASSUME NEW h \in Hosts, AgentReconcile(h) PROVE TypeOK' /\ ControlOK'
    <2> DEFINE b == host[h]
               u == [b EXCEPT !.boot = "failed"]
    <2>1. b \in HostRec /\ u \in HostRec
      BY <1>t DEF HostRec, BootConds
    <2>2. AgentStep(h, "reset", b, b) \/ AgentStep(h, "conds", b, u) \/ AgentStep(h, "boot", b, b)
      BY <1>17 DEF AgentReconcile
    <2> HIDE DEF b, u
    <2>3. agent' \in [Hosts -> AgentRec]
      BY <1>t, <2>1, <2>2, AgentStepType DEF Stages
    <2> QED BY <1>t, <1>17, <2>3 DEF AgentReconcile, TypeOK, ControlOK
  <1>18. ASSUME NEW h \in Hosts, NEW a \in HostRec, AgentEdit(h, a)
         PROVE  agent' \in [Hosts -> AgentRec]
    <2>1. agent[h].before \in HostRec
      BY <1>t DEF AgentRec
    <2> QED BY <1>t, <1>18, <2>1, StageFromType, AgentStepType DEF AgentEdit
  <1>19. ASSUME NEW h \in Hosts, AgentCleanUp(h) PROVE TypeOK' /\ ControlOK'
    <2>1. agent' \in [Hosts -> AgentRec]
      <3>1. agent[h].before \in HostRec
        BY <1>t DEF AgentRec
      <3>2. CleanedUp(agent[h].before) \in HostRec
        BY <3>1, EditEffect DEF MaybeMachine
      <3> QED BY <1>18, <1>19, <3>2 DEF AgentCleanUp
    <2>2. disk' \in [Hosts -> DiskRec]
      <3> DEFINE clean == [node |-> NoMachine, id |-> NoMachine]
                 kept == [disk[h] EXCEPT !.node = NoMachine]
                 reset == [disk[h] EXCEPT !.id = NoMachine]
      <3>1. disk[h] \in DiskRec
        BY <1>t
      <3>2. clean \in DiskRec /\ kept \in DiskRec /\ reset \in DiskRec
        BY <3>1 DEF DiskRec, MaybeMachine
      <3>3. PICK d \in {clean, kept, reset} : disk' = [disk EXCEPT ![h] = d]
        BY <1>19 DEF AgentCleanUp
      <3> HIDE DEF clean, kept, reset
      <3> QED BY <1>t, <3>2, <3>3
    <2>3. faults' \in 0..MaxFaults
      BY <1>t, <1>19, FaultType DEF AgentCleanUp
    <2> QED BY <1>t, <1>19, <2>1, <2>2, <2>3 DEF AgentCleanUp, TypeOK, ControlOK
  <1>20. ASSUME NEW h \in Hosts, AgentCleanUpFails(h) PROVE TypeOK' /\ ControlOK'
    <2>1. agent' \in [Hosts -> AgentRec]
      <3>1. agent[h].before \in HostRec
        BY <1>t DEF AgentRec
      <3>2. ConditionsReset(agent[h].before) \in HostRec
        BY <3>1, EditEffect DEF MaybeMachine
      <3> QED BY <1>18, <1>20, <3>1, <3>2 DEF AgentCleanUpFails
    <2>2. disk' \in [Hosts -> DiskRec]
      BY <1>t, <1>20 DEF AgentCleanUpFails, DiskRec, MaybeMachine
    <2>3. faults' \in 0..MaxFaults
      BY <1>t, <1>20, FaultType DEF AgentCleanUpFails
    <2> QED BY <1>t, <1>20, <2>1, <2>2, <2>3 DEF AgentCleanUpFails, TypeOK, ControlOK
  <1>21. ASSUME NEW h \in Hosts, AgentBootstrap(h) PROVE TypeOK' /\ ControlOK'
    <2>0. agent[h].before \in HostRec /\ agent[h].before.ref \in MaybeMachine
      BY <1>t DEF AgentRec, HostRec
    <2>1. agent' \in [Hosts -> AgentRec]
      <3>1. [agent[h].before EXCEPT !.boot = "true", !.comp = TRUE] \in HostRec
        BY <2>0 DEF HostRec, BootConds
      <3> QED BY <1>18, <1>21, <3>1 DEF AgentBootstrap
    <2>2. disk' \in [Hosts -> DiskRec]
      BY <1>t, <1>21, <2>0 DEF AgentBootstrap, DiskRec
    <2>3. faults' \in 0..MaxFaults
      BY <1>t, <1>21, FaultType DEF AgentBootstrap
    <2> QED BY <1>t, <1>21, <2>1, <2>2, <2>3 DEF AgentBootstrap, TypeOK, ControlOK
  <1>22. ASSUME NEW h \in Hosts, AgentBootstrapFails(h) PROVE TypeOK' /\ ControlOK'
    <2>0. agent[h].before \in HostRec
      BY <1>t DEF AgentRec
    <2>1. agent' \in [Hosts -> AgentRec]
      <3>1. [agent[h].before EXCEPT !.boot = "failed", !.comp = TRUE] \in HostRec
        BY <2>0 DEF HostRec, BootConds
      <3> QED BY <1>18, <1>22, <2>0, <3>1 DEF AgentBootstrapFails
    <2>2. disk' \in [Hosts -> DiskRec]
      BY <1>t, <1>22 DEF AgentBootstrapFails, DiskRec, MaybeMachine
    <2>3. faults' \in 0..MaxFaults
      BY <1>t, <1>22, FaultType DEF AgentBootstrapFails
    <2> QED BY <1>t, <1>22, <2>1, <2>2, <2>3 DEF AgentBootstrapFails, TypeOK, ControlOK
  <1>23. ASSUME NEW h \in Hosts, AgentCall(h) PROVE TypeOK' /\ ControlOK'
    <2>0. agent[h].before \in HostRec /\ agent[h].after \in HostRec
      BY <1>t DEF AgentRec
    <2>1. /\ host' \in [Hosts -> HostRec] /\ faults' \in 0..MaxFaults
          /\ \A k \in Hosts : ~host'[k].registered => host'[k] = AbsentHost
      BY <1>23, <2>0, CallEffect DEF AgentCall, ControlOK
    <2>2. agent' \in [Hosts -> AgentRec]
      BY <1>t, <1>23, <2>0, StageAfterType, AgentStepType DEF AgentCall
    <2> QED BY <1>t, <1>23, <2>1, <2>2 DEF AgentCall, TypeOK, ControlOK
  <1>24. ASSUME NEW h \in Hosts, AgentStops(h) PROVE TypeOK' /\ ControlOK'
    <2>1. agent' \in [Hosts -> AgentRec]
      BY <1>t, <1>24, IdleTypes DEF AgentStops
    <2>2. agent[h].before.ref \in MaybeMachine
      BY <1>t DEF AgentRec, HostRec
    <2>3. PICK reboot \in BOOLEAN, half \in BOOLEAN :
             /\ Fault(IF reboot THEN "reboot" ELSE "agent")
             /\ disk' = [disk EXCEPT
                   ![h].node = IF ~half THEN @
                               ELSE IF agent[h].pc = "boot" THEN agent[h].before.ref ELSE NoMachine,
                   ![h].id = IF reboot THEN NoMachine ELSE @]
      BY <1>24 DEF AgentStops
    <2>4. disk' \in [Hosts -> DiskRec]
      <3> DEFINE n == IF ~half THEN disk[h].node
                      ELSE IF agent[h].pc = "boot" THEN agent[h].before.ref ELSE NoMachine
                 i == IF reboot THEN NoMachine ELSE disk[h].id
      <3>1. n \in MaybeMachine /\ i \in MaybeMachine
        BY <1>t, <2>2 DEF DiskRec, MaybeMachine
      <3>2. disk' = [disk EXCEPT ![h].node = n, ![h].id = i]
        BY <1>t, <2>3 DEF DiskRec
      <3> HIDE DEF n, i
      <3> QED BY <1>t, <3>1, <3>2 DEF DiskRec
    <2>5. faults' \in 0..MaxFaults
      BY <1>t, <2>3, FaultType
    <2> QED BY <1>t, <1>24, <2>1, <2>4, <2>5 DEF AgentStops, TypeOK, ControlOK
  <1>25. ASSUME NEW m \in Machines, CreateMachine(m) \/ BootstrapDataReady(m) \/ DeleteMachine(m)
         PROVE  TypeOK' /\ ControlOK'
    <2>1. machine' \in [Machines -> MachineRec]
      <3>1. CASE CreateMachine(m)
        <4>1. PICK r \in BOOLEAN : machine' = [machine EXCEPT ![m].phase = "live", ![m].ready = r]
          BY <3>1 DEF CreateMachine
        <4> QED BY <1>t, <4>1 DEF MachineRec, Phases
      <3>2. CASE BootstrapDataReady(m)
        BY <1>t, <3>2 DEF BootstrapDataReady, MachineRec
      <3>3. CASE DeleteMachine(m)
        <4>1. PICK p \in {"deleting", "vanished", "gone"} : machine' = [machine EXCEPT ![m].phase = p]
          BY <3>3 DEF DeleteMachine
        <4> QED BY <1>t, <4>1 DEF MachineRec, Phases, Removed
      <3> QED BY <1>25, <3>1, <3>2, <3>3
    <2> QED BY <1>t, <1>25, <2>1
            DEF CreateMachine, BootstrapDataReady, DeleteMachine, TypeOK, ControlOK
  <1>26. ASSUME NEW h \in Hosts, DeleteHost(h) PROVE TypeOK' /\ ControlOK'
    <2>1. /\ host' \in [Hosts -> HostRec]
          /\ \A k \in Hosts : ~host'[k].registered => host'[k] = AbsentHost
      BY <1>t, <1>26, ConstantHosts DEF DeleteHost, ControlOK
    <2>2. faults' \in 0..MaxFaults
      BY <1>t, <1>26, FaultType DEF DeleteHost
    <2> QED BY <1>t, <1>26, <2>1, <2>2 DEF DeleteHost, TypeOK, ControlOK
  <1>27. CASE ManagerRestart
    <2>1. faults' \in 0..MaxFaults
      BY <1>t, <1>27, FaultType DEF ManagerRestart
    <2> QED BY <1>t, <1>27, <2>1, IdleTypes
            DEF ManagerRestart, TypeOK, ControlOK, MctlIdle, HctlIdle, Stages
  <1>28. ASSUME NEW h \in Hosts, TimePasses(h) PROVE TypeOK' /\ ControlOK'
    <2>1. host' \in [Hosts -> HostRec]
      <3> DEFINE c == IF host[h].cleanup = "fresh" THEN "old" ELSE host[h].cleanup
                 t == IF host[h].startedAt = "fresh" THEN "old" ELSE host[h].startedAt
      <3>1. c \in Ages /\ t \in Ages
        BY <1>t DEF HostRec, Ages
      <3>2. host' = [host EXCEPT ![h].cleanup = c, ![h].startedAt = t]
        BY <1>t, <1>28 DEF TimePasses
      <3> HIDE DEF c, t
      <3> QED BY <1>t, <3>1, <3>2 DEF HostRec
    <2>2. host[h] # AbsentHost
      BY <1>28 DEF TimePasses, AbsentHost, FreshHost
    <2>3. host'[h].registered = host[h].registered /\ \A k \in Hosts : k # h => host'[k] = host[k]
      BY <1>t, <1>28 DEF TimePasses, HostRec
    <2>4. \A k \in Hosts : ~host'[k].registered => host'[k] = AbsentHost
      BY <2>2, <2>3 DEF ControlOK
    <2> QED BY <1>t, <1>28, <2>1, <2>4 DEF TimePasses, TypeOK, ControlOK
  <1>s. ASSUME NEW h \in Hosts, CacheSync(h) PROVE TypeOK' /\ ControlOK'
    <2>1. unseen' \in [Hosts -> SUBSET {"meta", "status"}]
      BY <1>t, <1>s DEF CacheSync
    <2> QED BY <1>t, <1>s, <2>1 DEF CacheSync, TypeOK, ControlOK
  <1>29. CASE UNCHANGED vars
    BY <1>t, <1>29 DEF vars, TypeOK, ControlOK
  <1>30. CASE MctlNext
    BY <1>30, <1>1, <1>2, <1>3, <1>4, <1>5, <1>6, <1>7, <1>8, <1>9, <1>11, <1>12, <1>13 DEF MctlNext
  <1>31. CASE HctlNext
    BY <1>31, <1>14, <1>15 DEF HctlNext
  <1>32. CASE EnvNext
    BY <1>32, <1>24, <1>25, <1>26, <1>27, <1>28, <1>s DEF EnvNext
  <1>33. ASSUME NEW h \in Hosts, AgentStart(h) \/ AgentNext(h) PROVE TypeOK' /\ ControlOK'
    BY <1>33, <1>16, <1>17, <1>19, <1>20, <1>21, <1>22, <1>23 DEF AgentNext
  <1> QED BY <1>29, <1>30, <1>31, <1>32, <1>33 DEF Next

(* Every reconcile of every process keeps the API objects, its private copies   *)
(* and the retry counter of attachByoHost within their types.                   *)
THEOREM TypeCorrect == Spec => []TypeOK
  <1>1. Spec => [](TypeOK /\ ControlOK)
    BY TypeInit, TypeStep, PTL DEF Spec
  <1> QED BY <1>1, PTL

-----------------------------------------------------------------------------
(* Steps that write no machine into a host. *)
HostsShrink ==
    \A k \in Hosts : /\ host'[k].label \in {host[k].label, NoMachine}
                     /\ host'[k].ref \in {host[k].ref, NoMachine}

(* Steps after which no further machine is gone. *)
NoneGoes == \A m \in Machines : machine'[m].phase = "gone" => machine[m].phase = "gone"

(* No host is labelled for, or refers to, a machine that is gone. *)
GoneFree ==
    \A m \in Machines, h \in Hosts :
        machine[m].phase = "gone" => host[h].label # m /\ host[h].ref # m

(* ReleasedBeforeGone without Held: an object that does not exist names no     *)
(* machine.                                                                   *)
LEMMA GoneFreeEquiv ==
    ASSUME TypeOK, ControlOK
    PROVE  ReleasedBeforeGone <=> GoneFree
  <1>1. \A h \in Hosts, m \in Machines :
           host[h].label = m \/ host[h].ref = m => host[h].registered
    BY NoMachineAssumption, ConstantHosts DEF ControlOK
  <1> QED BY <1>1 DEF ReleasedBeforeGone, GoneFree, InPhase, Held

(* A step that only clears labels and references, and removes no machine, keeps *)
(* OneOwner and ReleasedBeforeGone.                                             *)
LEMMA ShrinkKeepsOwners ==
    ASSUME TypeOK, ControlOK, TypeOK', ControlOK', OneOwner, ReleasedBeforeGone,
           HostsShrink, NoneGoes
    PROVE  OneOwner' /\ ReleasedBeforeGone'
  <1>1. OneOwner'
    BY DEF OneOwner, HostsShrink
  <1>2. GoneFree
    BY GoneFreeEquiv
  <1>3. GoneFree'
    BY <1>2, NoMachineAssumption DEF GoneFree, HostsShrink, NoneGoes
  <1>4. ReleasedBeforeGone' <=> GoneFree'
    BY GoneFreeEquiv, PTL
  <1> QED BY <1>1, <1>3, <1>4

(* Such a step by another process leaves the listed hosts to attachByoHost. *)
LEMMA ShrinkKeepsList ==
    ASSUME TypeOK, ListIsFree, HostsShrink, mctl' = mctl,
           \A m \in Machines : machine[m].phase \notin {"none", "gone"}
                                 => machine'[m].phase \notin {"none", "gone"}
    PROVE  ListIsFree'
  <1>1. mctl.list \subseteq Hosts
    BY DEF TypeOK, MctlRec
  <1> QED BY <1>1 DEF ListIsFree, HostsShrink

(* Nothing is to be kept when attachByoHost does not run. *)
LEMMA IdleKeepsList == ASSUME mctl' = MctlIdle PROVE ListIsFree'
  BY DEF ListIsFree, MctlIdle

(* Steps that leave the agents, the disks and the labels alone. *)
LEMMA GuardFrame ==
    ASSUME LabelsGuardNode, UNCHANGED <<agent, disk>>,
           \A k \in Hosts : host'[k].label = host[k].label
    PROVE  LabelsGuardNode'
  BY DEF LabelsGuardNode, NodeGuarded

(* The invariant of the claim holds at first. *)
LEMMA ClaimInit == Init => ClaimInv
  <1> SUFFICES ASSUME Init PROVE ClaimInv
    OBVIOUS
  <1>1. ControlOK
    BY TypeInit
  <1>2. \A h \in Hosts : /\ host[h] = AbsentHost /\ disk[h].node = NoMachine
                         /\ agent[h].pc = "idle"
    BY DEF Init, AgentDown, AgentIdle
  <1>3. mctl.op = "none" /\ hctl.pc = "idle" /\ \A m \in Machines : machine[m].phase = "none"
    BY DEF Init, MctlIdle, HctlIdle
  <1>4. OnlyAttachClaims /\ ListIsFree
    BY <1>2, <1>3 DEF OnlyAttachClaims, ListIsFree, Stages
  <1>5. LabelsGuardNode /\ OneOwner
    BY <1>2, ConstantHosts DEF LabelsGuardNode, NodeGuarded, OneOwner, Stages
  <1>6. ReleasedBeforeGone
    BY <1>3 DEF ReleasedBeforeGone, InPhase
  <1> QED BY <1>1, <1>4, <1>5, <1>6 DEF ClaimInv

(* Every action preserves the invariant of the claim. *)
LEMMA ClaimStep == TypeOK /\ ClaimInv /\ [Next]_vars => ClaimInv'
  <1> SUFFICES ASSUME TypeOK, ClaimInv, [Next]_vars PROVE ClaimInv'
    OBVIOUS
  <1>c. /\ ControlOK /\ OnlyAttachClaims /\ ListIsFree /\ LabelsGuardNode
        /\ OneOwner /\ ReleasedBeforeGone
    BY DEF ClaimInv
  <1>p. TypeOK' /\ ControlOK'
    BY <1>c, TypeStep
  <1>t. /\ host \in [Hosts -> HostRec] /\ machine \in [Machines -> MachineRec]
        /\ mctl \in MctlRec /\ hctl \in HctlRec /\ agent \in [Hosts -> AgentRec]
        /\ disk \in [Hosts -> DiskRec]
    BY DEF TypeOK
  <1> SUFFICES OnlyAttachClaims' /\ ListIsFree' /\ LabelsGuardNode'
               /\ OneOwner' /\ ReleasedBeforeGone'
    BY <1>p DEF ClaimInv
  <1> DEFINE Goal == OnlyAttachClaims' /\ ListIsFree' /\ LabelsGuardNode'
                     /\ OneOwner' /\ ReleasedBeforeGone'
  <1>1. ASSUME NEW m \in Machines,
               \/ ReconcileNormal(m) \/ CreateMachine(m) \/ BootstrapDataReady(m)
        PROVE  Goal
    <2>1. UNCHANGED <<host, mctl, hctl, agent, disk>>
      BY <1>1 DEF ReconcileNormal, CreateMachine, BootstrapDataReady
    <2>2. \A n \in Machines : machine'[n].phase # machine[n].phase => machine'[n].phase = "live"
      <3>1. CASE ReconcileNormal(m)
        <4>1. PICK joined \in BOOLEAN :
                 machine' = [machine EXCEPT ![m].finalizer = TRUE, ![m].nodeRef = @ \/ joined]
          BY <3>1 DEF ReconcileNormal
        <4> QED BY <1>t, <4>1 DEF MachineRec
      <3>2. CASE CreateMachine(m)
        <4>1. PICK r \in BOOLEAN : machine' = [machine EXCEPT ![m].phase = "live", ![m].ready = r]
          BY <3>2 DEF CreateMachine
        <4> QED BY <1>t, <4>1 DEF MachineRec
      <3>3. CASE BootstrapDataReady(m)
        BY <1>t, <3>3 DEF BootstrapDataReady, MachineRec
      <3> QED BY <1>1, <3>1, <3>2, <3>3
    <2>3. HostsShrink /\ NoneGoes
      BY <2>1, <2>2 DEF HostsShrink, NoneGoes
    <2>4. OneOwner' /\ ReleasedBeforeGone'
      BY <1>c, <1>p, <2>3, ShrinkKeepsOwners
    <2>5. ListIsFree'
      BY <1>c, <2>1, <2>2, <2>3, ShrinkKeepsList
    <2>6. OnlyAttachClaims' /\ LabelsGuardNode'
      BY <1>c, <2>1, GuardFrame DEF OnlyAttachClaims
    <2> QED BY <2>4, <2>5, <2>6
  <1>2. ASSUME UNCHANGED <<host, machine, hctl, agent, disk>>, ListIsFree',
               mctl'.op = "mark" => (KeepsOrClears(mctl) /\ mctl.after.label = mctl.before.label)'
        PROVE  Goal
    <2>1. HostsShrink /\ NoneGoes
      BY <1>2 DEF HostsShrink, NoneGoes
    <2>2. OneOwner' /\ ReleasedBeforeGone'
      BY <1>c, <1>p, <2>1, ShrinkKeepsOwners
    <2>3. OnlyAttachClaims'
      BY <1>c, <1>2 DEF OnlyAttachClaims, KeepsOrClears
    <2>4. LabelsGuardNode'
      BY <1>c, <1>2, GuardFrame
    <2> QED BY <1>2, <2>2, <2>3, <2>4
  <1>3. ASSUME NEW m \in Machines, AttachList(m) PROVE Goal
    <2>1. /\ mctl'.pc = "select" /\ mctl'.op = "attach" /\ mctl'.m = m
          /\ ListsKept => mctl'.list = Pool
          /\ machine[m].phase = "live"
      BY <1>3 DEF AttachList, MctlIdle, Fault, ListsKept
    <2>2. ListIsFree'
      BY <1>3, <2>1 DEF AttachList, ListIsFree, ListsKept, Pool, Claimable, IsAvailable, Stages
    <2> QED BY <1>2, <1>3, <2>1, <2>2 DEF AttachList
  <1>4. ASSUME NEW h \in Hosts, AttachMiss(h) PROVE Goal
    <2>1. /\ mctl'.pc = "select" /\ mctl'.op = "attach" /\ mctl'.m = mctl.m
          /\ mctl'.list = mctl.list /\ mctl.op = "attach"
      BY <1>c, <1>t, <1>4 DEF AttachMiss, ControlOK, MctlRec
    <2>2. ListIsFree'
      BY <1>c, <1>4, <2>1 DEF AttachMiss, ListIsFree, Stages
    <2> QED BY <1>2, <1>4, <2>1, <2>2 DEF AttachMiss
  <1>5. CASE AttachAbort \/ AttachGiveUp
    <2>1. /\ mctl'.pc = "finish" /\ mctl'.op = "attach" /\ mctl'.m = mctl.m
          /\ mctl'.list = mctl.list /\ mctl.op = "attach"
      BY <1>c, <1>t, <1>5 DEF AttachAbort, AttachGiveUp, ControlOK, MctlRec
    <2>2. ListIsFree'
      BY <1>c, <1>5, <2>1 DEF AttachAbort, AttachGiveUp, ListIsFree, Stages
    <2> QED BY <1>2, <1>5, <2>1, <2>2 DEF AttachAbort, AttachGiveUp
  <1>6. CASE AttachClaim
    <2> DEFINE b == host[mctl.h]
               a == Claimed(b, mctl.m)
               s == StageFrom("conds", b, a)
    <2>1. mctl.op = "attach" /\ mctl.pc = "leased" /\ mctl.h \in Hosts /\ mctl.m \in MaybeMachine
      BY <1>c, <1>t, <1>6 DEF AttachClaim, ControlOK, MctlRec
    <2>2. a.label = mctl.m /\ a.ref = mctl.m
      <3>1. b \in HostRec
        BY <1>t, <2>1
      <3> HIDE DEF b
      <3> QED BY <2>1, <3>1, EditEffect
    <2>3. mctl' = IF s = "done" THEN [mctl EXCEPT !.pc = "finish", !.h = NoHost]
                  ELSE [mctl EXCEPT !.pc = s, !.before = b, !.after = a]
      BY <1>6 DEF AttachClaim
    <2> HIDE DEF b, a, s
    <2>4. /\ mctl'.op = "attach" /\ mctl'.m = mctl.m /\ mctl'.list = mctl.list
          /\ \/ mctl'.pc = "finish"
             \/ mctl'.h = mctl.h /\ mctl'.after = a
      BY <1>t, <2>1, <2>3 DEF MctlRec
    <2>5. ListIsFree'
      BY <1>c, <1>6, <2>1, <2>2, <2>4 DEF AttachClaim, ListIsFree, Stages
    <2> QED BY <1>2, <1>6, <2>4, <2>5 DEF AttachClaim
  <1>7. ASSUME NEW m \in Machines, NEW h \in Hosts, StartMark(m, h),
               UNCHANGED <<host, machine, hctl, agent, disk>>
        PROVE  Goal
    <2> DEFINE b == Cached(h)
               a == MarkedForCleanup(b)
               s == StageFrom("conds", b, a)
    <2>1. a.label = b.label /\ a.ref = NoMachine
      BY CachedType, EditEffect DEF MaybeMachine
    <2>2. mctl' = [MctlIdle EXCEPT !.pc = s, !.op = "mark", !.m = m, !.h = h,
                                   !.before = b, !.after = a]
      BY <1>7 DEF StartMark
    <2> HIDE DEF b, a, s
    <2>3. mctl'.op = "mark" /\ mctl'.before = b /\ mctl'.after = a
      BY <2>2 DEF MctlIdle
    <2>4. ListIsFree'
      BY <2>3 DEF ListIsFree
    <2>5. (KeepsOrClears(mctl) /\ mctl.after.label = mctl.before.label)'
      BY <2>1, <2>3 DEF KeepsOrClears
    <2> QED BY <1>2, <1>7, <2>4, <2>5
  <1>8. ASSUME NEW m \in Machines, ReconcileDelete(m) \/ Remediate(m) PROVE Goal
    <2>1. PICK h \in Releasable(m) \cup Attached(m) : StartMark(m, h)
      BY <1>8 DEF ReconcileDelete, Remediate
    <2>2. h \in Hosts
      BY DEF Releasable, Attached, Referring
    <2> QED BY <1>7, <1>8, <2>1, <2>2 DEF ReconcileDelete, Remediate
  <1>9. ASSUME NEW m \in Machines, DeleteComplete(m) PROVE Goal
    <2>1. UNCHANGED <<host, mctl, hctl, agent, disk>> /\ mctl = MctlIdle
      BY <1>9 DEF DeleteComplete
    <2>2. \A n \in Machines : n # m => machine'[n] = machine[n]
      BY <1>t, <1>9 DEF DeleteComplete
    <2>3. machine'[m].phase = "gone" => Held(m) = {}
      <3>0. SUFFICES ASSUME machine'[m].phase = "gone", NEW h \in Hosts
                     PROVE  h \notin Held(m)
        BY DEF Held
      <3>1. unseen[h] = {}
        BY <1>t, <1>9, <3>0 DEF DeleteComplete, UpToDate, MachineRec
      <3>2. Cached(h) = host[h]
        BY <1>t, <3>1 DEF Cached, HostRec
      <3>3. Attached(m) = {} /\ Referring(m) = {}
        BY <1>9 DEF DeleteComplete, Releasable
      <3> QED BY <3>2, <3>3 DEF Held, Attached, Referring
    <2>4. ReleasedBeforeGone'
      BY <1>c, <2>1, <2>2, <2>3 DEF ReleasedBeforeGone, InPhase, Held
    <2>5. OneOwner' /\ OnlyAttachClaims'
      BY <1>c, <2>1 DEF OneOwner, OnlyAttachClaims
    <2>6. ListIsFree' /\ LabelsGuardNode'
      BY <1>c, <2>1, IdleKeepsList, GuardFrame
    <2> QED BY <2>4, <2>5, <2>6
  <1>d. ASSUME NEW m \in Machines, DeleteMachine(m) PROVE Goal
    <2>1. UNCHANGED <<host, mctl, hctl, agent, disk>>
      BY <1>d DEF DeleteMachine
    <2>2. /\ \A n \in Machines : n # m => machine'[n] = machine[n]
          /\ machine'[m].phase \in {"deleting", "vanished", "gone"}
          /\ machine'[m].phase = "gone" => Held(m) = {} /\ ~(mctl.op = "attach" /\ mctl.m = m)
      BY <1>t, <1>d DEF DeleteMachine, MachineRec
    <2>3. ReleasedBeforeGone'
      BY <1>c, <2>1, <2>2 DEF ReleasedBeforeGone, InPhase, Held
    <2>4. OneOwner' /\ OnlyAttachClaims'
      BY <1>c, <2>1 DEF OneOwner, OnlyAttachClaims
    <2>5. ListIsFree' /\ LabelsGuardNode'
      <3>1. ListIsFree'
        BY <1>c, <2>1, <2>2 DEF ListIsFree
      <3> QED BY <1>c, <2>1, <3>1, GuardFrame
    <2> QED BY <2>3, <2>4, <2>5
  <1>10. CASE MctlFinish
    <2>1. UNCHANGED <<host, hctl, agent, disk>> /\ mctl' = MctlIdle
      BY <1>10 DEF MctlFinish
    <2>2. \A n \in Machines : machine'[n].phase = machine[n].phase
      <3> DEFINE f == machine[mctl.m].finalizer \/ machine[mctl.m].phase = "live"
      <3>1. machine' = machine \/ machine' = [machine EXCEPT ![mctl.m].finalizer = f]
        BY <1>10 DEF MctlFinish
      <3> HIDE DEF f
      <3> QED BY <1>t, <3>1 DEF MachineRec
    <2>3. OneOwner' /\ ReleasedBeforeGone'
      <3>1. HostsShrink /\ NoneGoes
        BY <2>1, <2>2 DEF HostsShrink, NoneGoes
      <3> QED BY <1>c, <1>p, <3>1, ShrinkKeepsOwners
    <2>4. OnlyAttachClaims'
      BY <1>c, <2>1 DEF OnlyAttachClaims, MctlIdle
    <2>5. ListIsFree' /\ LabelsGuardNode'
      BY <1>c, <2>1, IdleKeepsList, GuardFrame
    <2> QED BY <2>3, <2>4, <2>5
  <1>11. ASSUME NEW h \in Hosts, AttachLease(h) PROVE Goal
    <2>1. /\ UNCHANGED <<machine, hctl, agent, disk>> /\ mctl.op = "attach" /\ h \in mctl.list
          /\ mctl'.pc = "leased" /\ mctl'.op = "attach" /\ mctl'.m = mctl.m
          /\ mctl'.list = mctl.list /\ mctl'.h = h
      BY <1>c, <1>t, <1>11 DEF AttachLease, ControlOK, MctlRec
    <2>2. /\ \A k \in Hosts : host'[k].label = host[k].label
          /\ \A k \in Hosts : host'[k].ref \in {host[k].ref, NoMachine}
      BY <1>t, <1>11 DEF AttachLease, HostRec
    <2>3. HostsShrink /\ NoneGoes
      BY <2>1, <2>2 DEF HostsShrink, NoneGoes
    <2>4. OneOwner' /\ ReleasedBeforeGone'
      BY <1>c, <1>p, <2>3, ShrinkKeepsOwners
    <2>5. ListIsFree'
      <3>1. mctl.list \subseteq Hosts
        BY <1>t DEF MctlRec
      <3> QED BY <1>c, <2>1, <2>2, <3>1 DEF ListIsFree, Stages
    <2>6. OnlyAttachClaims'
      BY <1>c, <2>1 DEF OnlyAttachClaims
    <2>7. LabelsGuardNode'
      BY <1>c, <2>1, <2>2, GuardFrame
    <2> QED BY <2>4, <2>5, <2>6, <2>7
  <1>12. CASE MctlCall
    <2>0. /\ mctl.pc \in Stages /\ mctl.h \in Hosts /\ mctl.op \in {"attach", "mark"}
          /\ mctl.before \in HostRec /\ mctl.after \in HostRec
          /\ UNCHANGED <<machine, hctl, agent, disk>>
      BY <1>c, <1>t, <1>12 DEF MctlCall, ControlOK, MctlRec
    <2>1. /\ \A k \in Hosts : k # mctl.h => host'[k] = host[k]
          /\ \/ host'[mctl.h].label = host[mctl.h].label
             \/ /\ mctl.after.label # mctl.before.label
                /\ host'[mctl.h].label = mctl.after.label
          /\ \/ host'[mctl.h].ref = host[mctl.h].ref
             \/ /\ mctl.after.ref # mctl.before.ref
                /\ host'[mctl.h].ref = mctl.after.ref
      BY <1>12, <2>0, CallEffect DEF MctlCall
    <2>2. PICK f \in BOOLEAN : mctl' = MctlAfter(f)
      BY <1>12 DEF MctlCall
    <2>3. \/ mctl' = MctlIdle
          \/ /\ mctl'.op = mctl.op /\ mctl'.m = mctl.m /\ mctl'.list = mctl.list
             /\ \/ /\ mctl'.pc \in Stages /\ mctl'.h = mctl.h
                   /\ mctl'.before = mctl.before /\ mctl'.after = mctl.after
                \/ mctl'.pc \in {"select", "finish"} /\ mctl'.op = "attach"
      BY <1>c, <2>0, <2>2, MctlAfterEffect
    <2>4. OnlyAttachClaims'
      BY <1>c, <2>0, <2>3 DEF OnlyAttachClaims, KeepsOrClears, MctlIdle
    <2>5. CASE mctl.op = "mark"
      <3>1. /\ \A k \in Hosts : host'[k].label = host[k].label
            /\ HostsShrink /\ NoneGoes
        BY <1>c, <2>0, <2>1, <2>5 DEF OnlyAttachClaims, KeepsOrClears, HostsShrink, NoneGoes
      <3>2. OneOwner' /\ ReleasedBeforeGone'
        BY <1>c, <1>p, <3>1, ShrinkKeepsOwners
      <3>3. ListIsFree'
        BY <2>3, <2>5 DEF ListIsFree, MctlIdle
      <3>4. LabelsGuardNode'
        BY <1>c, <2>0, <3>1, GuardFrame
      <3> QED BY <2>4, <3>2, <3>3, <3>4
    <2>6. CASE mctl.op = "attach"
      <3>1. /\ mctl.m \in Machines /\ mctl.m # NoMachine
            /\ machine[mctl.m].phase \notin {"none", "gone"}
            /\ mctl.list \subseteq Hosts /\ mctl.h \in mctl.list
            /\ ListsKept => \A k \in mctl.list : /\ host[k].label \in {NoMachine, mctl.m}
                                                 /\ host[k].ref \in {NoMachine, mctl.m}
            /\ mctl.after.label = mctl.m /\ mctl.after.ref = mctl.m
        BY <1>c, <1>t, <2>0, <2>6, NoMachineAssumption DEF ListIsFree, MctlRec
      <3>2. /\ host'[mctl.h].label \in {host[mctl.h].label, mctl.m}
            /\ host'[mctl.h].ref \in {host[mctl.h].ref, mctl.m}
        BY <2>1, <3>1
      <3>3. OneOwner'
        BY <1>c, <2>0, <2>1, <3>1, <3>2 DEF OneOwner
      <3>4. ReleasedBeforeGone'
        <4>1. GoneFree
          BY <1>c, GoneFreeEquiv
        <4>2. GoneFree'
          <5> SUFFICES ASSUME NEW m \in Machines, NEW h \in Hosts, machine[m].phase = "gone"
                       PROVE  host'[h].label # m /\ host'[h].ref # m
            BY <2>0 DEF GoneFree
          <5>1. host[h].label # m /\ host[h].ref # m /\ m # mctl.m
            BY <3>1, <4>1 DEF GoneFree
          <5>2. CASE h = mctl.h
            BY <3>2, <5>1, <5>2
          <5>3. CASE h # mctl.h
            BY <2>1, <5>1, <5>3
          <5> QED BY <5>2, <5>3
        <4>3. ReleasedBeforeGone' <=> GoneFree'
          BY <1>p, GoneFreeEquiv, PTL
        <4> QED BY <4>2, <4>3
      <3>5. ListIsFree'
        <4>1. CASE mctl' = MctlIdle
          BY <4>1, IdleKeepsList
        <4>2. CASE /\ mctl'.op = mctl.op /\ mctl'.m = mctl.m /\ mctl'.list = mctl.list
                   /\ \/ /\ mctl'.pc \in Stages /\ mctl'.h = mctl.h /\ mctl'.after = mctl.after
                      \/ mctl'.pc \in {"select", "finish"}
          <5>1. ListsKept => \A k \in mctl.list : /\ host'[k].label \in {NoMachine, mctl.m}
                                                  /\ host'[k].ref \in {NoMachine, mctl.m}
            BY <2>1, <3>1, <3>2
          <5>2. mctl'.m \in Machines /\ machine'[mctl'.m].phase \notin {"none", "gone"}
            BY <2>0, <3>1, <4>2
          <5>3. mctl'.pc \in {"leased"} \cup Stages =>
                   /\ mctl'.h \in mctl'.list
                   /\ mctl'.after.label = mctl'.m /\ mctl'.after.ref = mctl'.m
            BY <3>1, <4>2 DEF Stages
          <5> QED BY <4>2, <5>1, <5>2, <5>3 DEF ListIsFree
        <4> QED BY <2>3, <4>1, <4>2
      <3>6. LabelsGuardNode'
        <4> SUFFICES ASSUME RecordsKept, NEW k \in Hosts
                     PROVE  /\ disk[k].node \in {NoMachine, host'[k].label}
                            /\ agent[k].pc = "boot" => host'[k].label = host[k].label
          BY <1>c, <2>0 DEF LabelsGuardNode, NodeGuarded
        <4>1. CASE k # mctl.h
          BY <1>c, <2>1, <4>1 DEF LabelsGuardNode, NodeGuarded
        <4>2. CASE k = mctl.h
          <5>1. host[k].label \in {NoMachine, mctl.m} /\ host'[k].label \in {host[k].label, mctl.m}
            BY <3>1, <3>2, <4>2 DEF RecordsKept
          <5>2. /\ disk[k].node \in {NoMachine, host[k].label}
                /\ agent[k].pc = "boot" => host[k].label # NoMachine
            BY <1>c DEF LabelsGuardNode, NodeGuarded
          <5> QED BY <5>1, <5>2
        <4> QED BY <4>1, <4>2
      <3> QED BY <2>4, <3>3, <3>4, <3>5, <3>6
    <2> QED BY <2>0, <2>5, <2>6
  <1>13. ASSUME UNCHANGED machine, mctl' = mctl \/ mctl' = MctlIdle, HostsShrink,
                OnlyAttachClaims', LabelsGuardNode'
         PROVE  Goal
    <2>1. NoneGoes
      BY <1>13 DEF NoneGoes
    <2>2. OneOwner' /\ ReleasedBeforeGone'
      BY <1>c, <1>p, <1>13, <2>1, ShrinkKeepsOwners
    <2>3. ListIsFree'
      BY <1>c, <1>13, ShrinkKeepsList, IdleKeepsList
    <2> QED BY <1>13, <2>2, <2>3
  <1>14. ASSUME NEW h \in Hosts, HostReconcile(h) PROVE Goal
    <2> DEFINE b == host[h]
               a == IF b.startedAt = "none" THEN CleanupTimed(b) ELSE ForceCleaned(b)
    <2>1. b \in HostRec
      BY <1>t
    <2>2. a.label = b.label /\ a.ref \in {b.ref, NoMachine}
      <3> HIDE DEF b
      <3> QED BY <2>1, EditEffect DEF MaybeMachine
    <2>3. hctl'.before = b /\ hctl'.after = a
      BY <1>14 DEF HostReconcile
    <2> HIDE DEF b, a
    <2>4. UNCHANGED <<host, machine, mctl, agent, disk>>
      BY <1>14 DEF HostReconcile
    <2>5. OnlyAttachClaims'
      BY <1>c, <2>2, <2>3, <2>4 DEF OnlyAttachClaims, KeepsOrClears
    <2>6. HostsShrink /\ LabelsGuardNode'
      BY <1>c, <2>4, GuardFrame DEF HostsShrink
    <2> QED BY <1>13, <2>4, <2>5, <2>6
  <1>15. CASE HctlCall
    <2>0. /\ hctl.pc \in Stages /\ hctl.h \in Hosts
          /\ hctl.before \in HostRec /\ hctl.after \in HostRec
          /\ UNCHANGED <<machine, mctl, agent, disk>>
      BY <1>c, <1>t, <1>15 DEF HctlCall, ControlOK, HctlRec
    <2>1. /\ \A k \in Hosts : k # hctl.h => host'[k] = host[k]
          /\ \/ host'[hctl.h].label = host[hctl.h].label
             \/ /\ hctl.after.label # hctl.before.label
                /\ host'[hctl.h].label = hctl.after.label
          /\ \/ host'[hctl.h].ref = host[hctl.h].ref
             \/ /\ hctl.after.ref # hctl.before.ref
                /\ host'[hctl.h].ref = hctl.after.ref
      BY <1>15, <2>0, CallEffect DEF HctlCall
    <2>2. (\A k \in Hosts : host'[k].label = host[k].label) /\ HostsShrink
      BY <1>c, <2>0, <2>1 DEF OnlyAttachClaims, KeepsOrClears, HostsShrink
    <2>3. hctl' = HctlIdle \/ (hctl'.before = hctl.before /\ hctl'.after = hctl.after)
      BY <1>t, <1>15 DEF HctlCall, HctlRec
    <2>4. OnlyAttachClaims'
      BY <1>c, <2>0, <2>3 DEF OnlyAttachClaims, KeepsOrClears, HctlIdle, Stages
    <2>5. LabelsGuardNode'
      BY <1>c, <2>0, <2>2, GuardFrame
    <2> QED BY <1>13, <2>0, <2>2, <2>4, <2>5
  <1>16. ASSUME NEW h \in Hosts, TimePasses(h) PROVE Goal
    <2>1. UNCHANGED <<machine, mctl, hctl, agent, disk>>
      BY <1>16 DEF TimePasses
    <2>2. \A k \in Hosts : host'[k].label = host[k].label /\ host'[k].ref = host[k].ref
      BY <1>t, <1>16 DEF TimePasses, HostRec
    <2>3. OnlyAttachClaims' /\ HostsShrink
      BY <1>c, <2>1, <2>2 DEF OnlyAttachClaims, HostsShrink
    <2>4. LabelsGuardNode'
      BY <1>c, <2>1, <2>2, GuardFrame
    <2> QED BY <1>13, <2>1, <2>3, <2>4
  <1>17. CASE ManagerRestart
    <2>1. UNCHANGED <<host, machine, agent, disk>> /\ mctl' = MctlIdle /\ hctl' = HctlIdle
      BY <1>17 DEF ManagerRestart
    <2>2. OnlyAttachClaims' /\ HostsShrink
      BY <1>c, <2>1 DEF OnlyAttachClaims, HostsShrink, MctlIdle, HctlIdle, Stages
    <2>3. LabelsGuardNode'
      BY <1>c, <2>1, GuardFrame
    <2> QED BY <1>13, <2>1, <2>2, <2>3
  <1>18. ASSUME NEW h \in Hosts, DeleteHost(h) PROVE Goal
    <2>1. UNCHANGED <<machine, mctl, hctl, agent, disk>> /\ ~RecordsKept
      BY <1>18 DEF DeleteHost, Fault, RecordsKept
    <2>2. HostsShrink
      BY <1>t, <1>18, ConstantHosts DEF DeleteHost, HostsShrink
    <2>3. OnlyAttachClaims' /\ LabelsGuardNode'
      BY <1>c, <2>1 DEF OnlyAttachClaims, LabelsGuardNode, NodeGuarded, RecordsKept
    <2> QED BY <1>13, <2>1, <2>2, <2>3
  <1>19. ASSUME NEW h \in Hosts, AgentStart(h) PROVE Goal
    <2>1. /\ UNCHANGED <<machine, mctl, hctl, disk>>
          /\ agent'[h].pc = "idle" /\ \A k \in Hosts : k # h => agent'[k] = agent[k]
      BY <1>t, <1>19 DEF AgentStart, AgentIdle
    <2>2. \A k \in Hosts : host'[k].label = host[k].label /\ host'[k].ref = host[k].ref
      BY <1>c, <1>t, <1>19, ConstantHosts DEF AgentStart, ControlOK
    <2>3. OnlyAttachClaims' /\ HostsShrink
      BY <1>c, <2>1, <2>2 DEF OnlyAttachClaims, HostsShrink, Stages
    <2>4. LabelsGuardNode'
      BY <1>c, <2>1, <2>2 DEF LabelsGuardNode, NodeGuarded, Stages
    <2> QED BY <1>13, <2>1, <2>3, <2>4
  <1>20. ASSUME NEW h \in Hosts, UNCHANGED <<host, machine, mctl, hctl>>,
                \A k \in Hosts : k # h => agent'[k] = agent[k] /\ disk'[k] = disk[k],
                agent'[h].pc \in Stages => KeepsOrClears(agent[h])',
                RecordsKept => NodeGuarded(h)'
         PROVE  Goal
    <2>1. HostsShrink
      BY <1>20 DEF HostsShrink
    <2>2. OnlyAttachClaims'
      BY <1>c, <1>20 DEF OnlyAttachClaims, KeepsOrClears
    <2>3. LabelsGuardNode'
      BY <1>c, <1>20 DEF LabelsGuardNode, NodeGuarded, RecordsKept
    <2> QED BY <1>13, <1>20, <2>1, <2>2, <2>3
  <1>21. ASSUME NEW h \in Hosts, AgentReconcile(h) PROVE Goal
    <2> DEFINE b == host[h]
               u == [b EXCEPT !.boot = "failed"]
    <2>1. b \in HostRec /\ u \in HostRec /\ u.label = b.label /\ u.ref = b.ref
      BY <1>t DEF HostRec, BootConds
    <2>2. UNCHANGED <<host, machine, mctl, hctl, disk>>
      BY <1>21 DEF AgentReconcile
    <2>3. \/ AgentStep(h, "reset", b, b) \/ AgentStep(h, "conds", b, u)
          \/ AgentStep(h, "boot", b, b) /\ b.label # NoMachine /\ b.ref # NoMachine
      BY <1>21 DEF AgentReconcile, IsAvailable
    <2>4. RecordsKept /\ b.label # NoMachine /\ b.ref # NoMachine => b.ref = b.label
      BY <1>c DEF OneOwner, RecordsKept
    <2> HIDE DEF u
    <2>5. /\ \A k \in Hosts : k # h => agent'[k] = agent[k]
          /\ agent'[h].before = b
          /\ \/ agent'[h].pc = "reset"
             \/ agent'[h].pc = "conds" /\ agent'[h].after = u
             \/ /\ agent'[h].pc = "boot" /\ b.ref # NoMachine
                /\ RecordsKept => b.ref = b.label
      <3> HIDE DEF b
      <3> QED BY <1>t, <2>1, <2>3, <2>4, AgentStepType DEF Stages
    <2>6. agent'[h].pc \in Stages => KeepsOrClears(agent[h])'
      BY <2>1, <2>5 DEF KeepsOrClears, Stages
    <2>7. RecordsKept => NodeGuarded(h)'
      BY <1>c, <2>1, <2>2, <2>5 DEF LabelsGuardNode, NodeGuarded, Stages
    <2> QED BY <1>20, <2>2, <2>5, <2>6, <2>7
  <1>22. ASSUME NEW h \in Hosts, NEW a \in HostRec, AgentEdit(h, a),
                a.label \in {agent[h].before.label, NoMachine},
                a.ref \in {agent[h].before.ref, NoMachine},
                UNCHANGED <<host, machine, mctl, hctl>>,
                \A k \in Hosts : k # h => disk'[k] = disk[k],
                RecordsKept => /\ disk'[h].node \in {NoMachine, host[h].label}
                               /\ a.label # agent[h].before.label => disk'[h].node = NoMachine
         PROVE  Goal
    <2> DEFINE s == StageFrom("conds", agent[h].before, a)
    <2>1. agent[h].before \in HostRec /\ s \in Stages \cup {"done"}
      BY <1>t, StageFromType DEF AgentRec
    <2>2. AgentStep(h, s, agent[h].before, a)
      BY <1>22 DEF AgentEdit
    <2> HIDE DEF s
    <2>3. /\ \A k \in Hosts : k # h => agent'[k] = agent[k]
          /\ \/ agent'[h].pc = "idle"
             \/ /\ agent'[h].pc \in Stages
                /\ agent'[h].before = agent[h].before /\ agent'[h].after = a
      <3>1. /\ \A k \in Hosts : k # h => agent'[k] = agent[k]
            /\ IF s = "done" THEN agent'[h] = AgentIdle
               ELSE agent'[h].pc = s /\ agent'[h].before = agent[h].before /\ agent'[h].after = a
        <4>1. a \in HostRec /\ agent \in [Hosts -> AgentRec]
          BY <1>t, <1>22
        <4>2. s \in Stages \cup {"done", "reset", "boot"}
          BY <2>1
        <4> QED BY <2>1, <2>2, <4>1, <4>2, AgentStepType
      <3>2. AgentIdle.pc = "idle"
        BY DEF AgentIdle
      <3> QED BY <2>1, <3>1, <3>2
    <2>4. agent'[h].pc \in Stages => KeepsOrClears(agent[h])'
      BY <1>22, <2>3 DEF KeepsOrClears, Stages
    <2>5. RecordsKept => NodeGuarded(h)'
      BY <1>22, <2>3 DEF NodeGuarded, Stages
    <2> QED BY <1>20, <1>22, <2>3, <2>4, <2>5
  <1>23. ASSUME NEW h \in Hosts, AgentCleanUp(h) PROVE Goal
    <2> DEFINE a == CleanedUp(agent[h].before)
    <2>1. agent[h].before \in HostRec
      BY <1>t DEF AgentRec
    <2>2. a \in HostRec /\ a.label = NoMachine /\ a.ref = NoMachine
      BY <2>1, EditEffect DEF MaybeMachine
    <2>3. AgentEdit(h, a) /\ UNCHANGED <<host, machine, mctl, hctl>>
      BY <1>23 DEF AgentCleanUp
    <2>4. /\ \A k \in Hosts : k # h => disk'[k] = disk[k]
          /\ RecordsKept => disk'[h].node = NoMachine
      BY <1>t, <1>23 DEF AgentCleanUp, DiskRec, Fault, RecordsKept
    <2> HIDE DEF a
    <2> QED BY <1>22, <2>2, <2>3, <2>4
  <1>24. ASSUME NEW h \in Hosts, AgentCleanUpFails(h) PROVE Goal
    <2>1. agent[h].before \in HostRec
      BY <1>t DEF AgentRec
    <2>2. PICK a \in {agent[h].before, ConditionsReset(agent[h].before)} : AgentEdit(h, a)
      BY <1>24 DEF AgentCleanUpFails
    <2>3. a \in HostRec /\ a.label = agent[h].before.label /\ a.ref = agent[h].before.ref
      BY <2>1, EditEffect DEF MaybeMachine
    <2>4. /\ UNCHANGED <<host, machine, mctl, hctl>> /\ disk'[h].node = NoMachine
          /\ \A k \in Hosts : k # h => disk'[k] = disk[k]
      BY <1>t, <1>24 DEF AgentCleanUpFails, DiskRec
    <2> QED BY <1>22, <2>2, <2>3, <2>4
  <1>25. ASSUME NEW h \in Hosts, AgentBootstrap(h) PROVE Goal
    <2> DEFINE b == agent[h].before
               a == [b EXCEPT !.boot = "true", !.comp = TRUE]
    <2>1. b \in HostRec
      BY <1>t DEF AgentRec
    <2>2. a \in HostRec /\ a.label = b.label /\ a.ref = b.ref
      BY <2>1 DEF HostRec, BootConds
    <2>3. AgentEdit(h, a) /\ UNCHANGED <<host, machine, mctl, hctl>> /\ agent[h].pc = "boot"
      BY <1>25 DEF AgentBootstrap
    <2>4. disk'[h].node = b.ref /\ \A k \in Hosts : k # h => disk'[k] = disk[k]
      BY <1>t, <1>25 DEF AgentBootstrap, DiskRec
    <2>5. RecordsKept => b.ref = host[h].label
      BY <1>c, <2>3 DEF LabelsGuardNode, NodeGuarded
    <2> HIDE DEF a
    <2> QED BY <1>22, <2>2, <2>3, <2>4, <2>5
  <1>26. ASSUME NEW h \in Hosts, AgentBootstrapFails(h) PROVE Goal
    <2> DEFINE b == agent[h].before
               f == [b EXCEPT !.boot = "failed", !.comp = TRUE]
    <2>1. b \in HostRec
      BY <1>t DEF AgentRec
    <2>2. f \in HostRec /\ f.label = b.label /\ f.ref = b.ref
      BY <2>1 DEF HostRec, BootConds
    <2>3. AgentEdit(h, b) \/ AgentEdit(h, f)
      BY <1>26 DEF AgentBootstrapFails
    <2>4. /\ UNCHANGED <<host, machine, mctl, hctl>>
          /\ disk'[h].node \in {disk[h].node, NoMachine}
          /\ \A k \in Hosts : k # h => disk'[k] = disk[k]
      BY <1>t, <1>26 DEF AgentBootstrapFails, DiskRec
    <2>5. RecordsKept => disk'[h].node \in {NoMachine, host[h].label}
      BY <1>c, <2>4 DEF LabelsGuardNode, NodeGuarded
    <2> HIDE DEF f
    <2> QED BY <1>22, <2>1, <2>2, <2>3, <2>4, <2>5
  <1>27. ASSUME NEW h \in Hosts, AgentCall(h) PROVE Goal
    <2> DEFINE s == StageAfter(agent[h].pc, agent[h].before, agent[h].after)
    <2>0. /\ agent[h].pc \in Stages /\ agent[h].before \in HostRec /\ agent[h].after \in HostRec
          /\ UNCHANGED <<machine, mctl, hctl, disk>>
          /\ CallApplies(h, agent[h]) \/ CallFails(h, agent[h])
          /\ AgentStep(h, s, agent[h].before, agent[h].after)
      BY <1>t, <1>27 DEF AgentCall, AgentRec
    <2>1. /\ \A k \in Hosts : k # h => host'[k] = host[k]
          /\ \/ host'[h].label = host[h].label
             \/ /\ agent[h].after.label # agent[h].before.label
                /\ host'[h].label = agent[h].after.label
          /\ \/ host'[h].ref = host[h].ref
             \/ /\ agent[h].after.ref # agent[h].before.ref
                /\ host'[h].ref = agent[h].after.ref
      BY <2>0, CallEffect
    <2>2. s \in Stages \cup {"done"}
      BY StageAfterType
    <2> HIDE DEF s
    <2>3. /\ \A k \in Hosts : k # h => agent'[k] = agent[k]
          /\ \/ agent'[h].pc = "idle"
             \/ /\ agent'[h].pc \in Stages
                /\ agent'[h].before = agent[h].before /\ agent'[h].after = agent[h].after
      <3>1. /\ agent[h].before \in HostRec /\ agent[h].after \in HostRec
            /\ AgentStep(h, s, agent[h].before, agent[h].after)
        BY <2>0
      <3>2. /\ \A k \in Hosts : k # h => agent'[k] = agent[k]
            /\ IF s = "done" THEN agent'[h] = AgentIdle
               ELSE /\ agent'[h].pc = s
                    /\ agent'[h].before = agent[h].before /\ agent'[h].after = agent[h].after
        BY <1>t, <2>2, <3>1, AgentStepType
      <3> QED BY <2>2, <3>2 DEF AgentIdle
    <2>4. KeepsOrClears(agent[h])
      BY <1>c, <2>0 DEF OnlyAttachClaims
    <2>5. HostsShrink
      BY <2>1, <2>4 DEF HostsShrink, KeepsOrClears
    <2>6. OnlyAttachClaims'
      BY <1>c, <2>0, <2>3, <2>4 DEF OnlyAttachClaims, KeepsOrClears, Stages
    <2>7. LabelsGuardNode'
      <3> SUFFICES ASSUME RecordsKept, NEW k \in Hosts PROVE NodeGuarded(k)'
        BY DEF LabelsGuardNode, RecordsKept
      <3>1. NodeGuarded(k)
        BY <1>c DEF LabelsGuardNode
      <3>2. CASE k # h
        BY <2>0, <2>1, <2>3, <3>1, <3>2 DEF NodeGuarded
      <3>3. CASE k = h
        BY <2>0, <2>1, <2>3, <3>1, <3>3 DEF NodeGuarded, Stages
      <3> QED BY <3>2, <3>3
    <2> QED BY <1>13, <2>0, <2>5, <2>6, <2>7
  <1>28. ASSUME NEW h \in Hosts, AgentStops(h) PROVE Goal
    <2>1. /\ UNCHANGED <<host, machine, mctl, hctl>> /\ agent'[h].pc = "idle"
          /\ \A k \in Hosts : k # h => agent'[k] = agent[k]
      BY <1>t, <1>28 DEF AgentStops, AgentDown, AgentIdle
    <2>2. PICK reboot \in BOOLEAN, half \in BOOLEAN :
             disk' = [disk EXCEPT
                   ![h].node = IF ~half THEN @
                               ELSE IF agent[h].pc = "boot" THEN agent[h].before.ref ELSE NoMachine,
                   ![h].id = IF reboot THEN NoMachine ELSE @]
      BY <1>28 DEF AgentStops
    <2>3. /\ disk'[h].node = IF ~half THEN disk[h].node
                             ELSE IF agent[h].pc = "boot" THEN agent[h].before.ref ELSE NoMachine
          /\ \A k \in Hosts : k # h => disk'[k] = disk[k]
      BY <1>t, <2>2 DEF DiskRec
    <2>4. RecordsKept => NodeGuarded(h)'
      BY <1>c, <2>1, <2>3 DEF LabelsGuardNode, NodeGuarded, Stages
    <2>5. agent'[h].pc \in Stages => KeepsOrClears(agent[h])'
      BY <2>1 DEF Stages
    <2> QED BY <1>20, <2>1, <2>3, <2>4, <2>5
  <1>s. ASSUME NEW h \in Hosts, CacheSync(h) PROVE Goal
    <2>1. UNCHANGED <<host, machine, mctl, hctl, agent, disk>>
      BY <1>s DEF CacheSync
    <2>2. ListIsFree'
      BY <1>c, <2>1 DEF ListIsFree
    <2> QED BY <1>c, <1>2, <2>1, <2>2 DEF OnlyAttachClaims, KeepsOrClears
  <1>29. CASE UNCHANGED vars
    <2>1. ListIsFree'
      BY <1>c, <1>29 DEF vars, ListIsFree
    <2> QED BY <1>c, <1>2, <1>29, <2>1 DEF vars, OnlyAttachClaims, KeepsOrClears
  <1>30. CASE MctlNext
    BY <1>30, <1>1, <1>3, <1>4, <1>5, <1>6, <1>8, <1>9, <1>10, <1>11, <1>12 DEF MctlNext
  <1>31. CASE HctlNext
    BY <1>31, <1>14, <1>15 DEF HctlNext
  <1>32. CASE EnvNext
    BY <1>32, <1>1, <1>16, <1>17, <1>18, <1>28, <1>d, <1>s DEF EnvNext
  <1>33. ASSUME NEW h \in Hosts, AgentStart(h) \/ AgentNext(h) PROVE Goal
    BY <1>33, <1>19, <1>21, <1>23, <1>24, <1>25, <1>26, <1>27 DEF AgentNext
  <1> QED BY <1>29, <1>30, <1>31, <1>32, <1>33 DEF Next

(* The inductive invariant of the claim protocol holds, whatever faults occur:  *)
(* only attachByoHost writes a machine into a host, the hosts it has listed stay *)
(* free for it while it runs, and the labels guard the node on a host.           *)
THEOREM ClaimInvariant == Spec => [](TypeOK /\ ClaimInv)
  <1>1. Init => TypeOK /\ ClaimInv
    BY TypeInit, ClaimInit
  <1>2. TypeOK /\ ClaimInv /\ [Next]_vars => TypeOK' /\ ClaimInv'
    BY TypeStep, ClaimStep DEF ClaimInv
  <1> QED BY <1>1, <1>2, PTL DEF Spec

(* The label and the MachineRef of a host never name two machines, although     *)
(* attachByoHost, markHostForCleanup, the forced clean-up and the agent write    *)
(* them with separate API calls from stale copies (ListsKept).                  *)
THEOREM OneOwnerAlways == Spec => []OneOwner
  <1>1. ClaimInv => OneOwner
    BY DEF ClaimInv
  <1> QED BY <1>1, ClaimInvariant, PTL

(* A ByoMachine removed by a reconcileDelete whose cache is up to date, or       *)
(* before any claim, has no host labelled for it or referring to it, and none    *)
(* does later: every host left behind was hidden by a stale cache or claimed     *)
(* for a machine without finalizer.                                             *)
THEOREM ReleasedBeforeGoneAlways == Spec => []ReleasedBeforeGone
  <1>1. ClaimInv => ReleasedBeforeGone
    BY DEF ClaimInv
  <1> QED BY <1>1, ClaimInvariant, PTL

(* A host that attachByoHost may hand out carries no node of an earlier machine. *)
THEOREM PoolIsCleanAlways == Spec => []PoolIsClean
  <1>1. ClaimInv => PoolIsClean
    BY DEF ClaimInv, LabelsGuardNode, NodeGuarded, PoolIsClean, Pool, Claimable
  <1> QED BY <1>1, ClaimInvariant, PTL

-----------------------------------------------------------------------------
(* The refinement: owners are what the labels and references say, nodes what    *)
(* the disks hold.                                                              *)
owners == [h \in Hosts |-> OwnerOf(host[h])]
nodes == [h \in Hosts |-> disk[h].node]

(* What a step that concerns host h only may do to its owner and its node. *)
PoolMove(o, p, n, q) ==
    \/ o = p /\ q \in {n, NoMachine}
    \/ o = p /\ o # NoMachine /\ n \in {NoMachine, o} /\ q = o
    \/ o = NoMachine /\ n = NoMachine /\ q = n
    \/ p = NoMachine /\ n = NoMachine /\ q = n

(* A change of one host that is a PoolMove is a step of HostPool, or none. *)
LEMMA PoolMoveStep ==
    ASSUME TypeOK', NEW h \in Hosts,
           \A k \in Hosts : k # h => host'[k] = host[k] /\ disk'[k] = disk[k],
           PoolMove(OwnerOf(host[h]), OwnerOf(host'[h]), disk[h].node, disk'[h].node)
    PROVE  [Pooled!Next]_<<owners, nodes>>
  <1>1. /\ owners' = [owners EXCEPT ![h] = OwnerOf(host'[h])]
        /\ nodes' = [nodes EXCEPT ![h] = disk'[h].node]
        /\ owners[h] = OwnerOf(host[h]) /\ nodes[h] = disk[h].node
    BY DEF owners, nodes
  <1>2. OwnerOf(host'[h]) \in Machines \cup {NoMachine}
    BY DEF TypeOK, OwnerOf, HostRec, MaybeMachine
  <1>3. CASE OwnerOf(host'[h]) = owners[h] /\ disk'[h].node = nodes[h]
    <2>1. owners' = owners /\ nodes' = nodes
      BY <1>1, <1>3 DEF owners, nodes
    <2> QED BY <2>1
  <1>4. CASE OwnerOf(host'[h]) = owners[h] /\ disk'[h].node = NoMachine
    <2>1. owners' = owners
      BY <1>1, <1>4 DEF owners
    <2>2. Pooled!Reset(h)
      BY <1>1, <1>4, <2>1 DEF Pooled!Reset, owners, nodes
    <2> QED BY <2>2 DEF Pooled!Next
  <1>5. CASE /\ OwnerOf(host'[h]) = owners[h] /\ owners[h] # NoMachine
             /\ nodes[h] \in {NoMachine, owners[h]} /\ disk'[h].node = owners[h]
    <2>1. owners' = owners
      BY <1>1, <1>5 DEF owners
    <2>2. Pooled!Join(h)
      BY <1>1, <1>5, <2>1 DEF Pooled!Join, owners, nodes
    <2> QED BY <2>2 DEF Pooled!Next
  <1>6. CASE /\ owners[h] = NoMachine /\ nodes[h] = NoMachine /\ disk'[h].node = nodes[h]
             /\ OwnerOf(host'[h]) \in Machines
    <2>1. nodes' = nodes
      BY <1>1, <1>6 DEF nodes
    <2>2. Pooled!Claim(h, OwnerOf(host'[h]))
      BY <1>1, <1>6, <2>1 DEF Pooled!Claim, owners, nodes
    <2> QED BY <1>6, <2>2 DEF Pooled!Next
  <1>7. CASE /\ owners[h] # NoMachine /\ nodes[h] = NoMachine /\ disk'[h].node = nodes[h]
             /\ OwnerOf(host'[h]) = NoMachine
    <2>1. nodes' = nodes
      BY <1>1, <1>7 DEF nodes
    <2>2. Pooled!Release(h)
      BY <1>1, <1>7, <2>1 DEF Pooled!Release, owners, nodes
    <2> QED BY <2>2 DEF Pooled!Next
  <1> QED BY <1>1, <1>2, <1>3, <1>4, <1>5, <1>6, <1>7 DEF PoolMove

(* Every action is a step of HostPool, or changes no owner and no node. *)
LEMMA PoolStep ==
    RecordsKept /\ TypeOK /\ ClaimInv /\ TypeOK' /\ ClaimInv' /\ [Next]_vars
        => [Pooled!Next]_<<owners, nodes>>
  <1> SUFFICES ASSUME RecordsKept, TypeOK, ClaimInv, TypeOK', ClaimInv', [Next]_vars
               PROVE  [Pooled!Next]_<<owners, nodes>>
    OBVIOUS
  <1>c. ControlOK /\ OnlyAttachClaims /\ ListIsFree /\ LabelsGuardNode /\ OneOwner
    BY DEF ClaimInv
  <1>g. \A h \in Hosts : /\ disk[h].node \in {NoMachine, host[h].label}
                         /\ disk'[h].node \in {NoMachine, host'[h].label}
                         /\ agent[h].pc = "boot" => agent[h].before.ref = host[h].label
                                                    /\ host[h].label # NoMachine
    BY DEF ClaimInv, LabelsGuardNode, NodeGuarded, RecordsKept
  <1>t. /\ host \in [Hosts -> HostRec] /\ mctl \in MctlRec /\ hctl \in HctlRec
        /\ agent \in [Hosts -> AgentRec] /\ disk \in [Hosts -> DiskRec]
    BY DEF TypeOK
  <1>1. CASE UNCHANGED <<host, disk>>
    BY <1>1 DEF owners, nodes
  <1>2. ASSUME NEW h \in Hosts, UNCHANGED disk, \A k \in Hosts : k # h => host'[k] = host[k],
               \/ /\ host'[h].label \in {host[h].label, NoMachine}
                  /\ host'[h].ref \in {host[h].ref, NoMachine}
               \/ \E m \in Machines : {host[h].label, host'[h].label, host[h].ref, host'[h].ref}
                                        \subseteq {NoMachine, m}
        PROVE  [Pooled!Next]_<<owners, nodes>>
    <2> DEFINE o == OwnerOf(host[h])
               q == OwnerOf(host'[h])
    <2>1. o = q \/ o = NoMachine \/ q = NoMachine
      BY <1>c, <1>2 DEF OwnerOf, OneOwner, RecordsKept
    <2>2. o = NoMachine \/ q = NoMachine => disk[h].node = NoMachine
      BY <1>g, <1>2 DEF OwnerOf
    <2>3. PoolMove(o, q, disk[h].node, disk'[h].node)
      BY <1>2, <2>1, <2>2 DEF PoolMove
    <2> QED BY <1>2, <2>3, PoolMoveStep
  <1>3. ASSUME NEW h \in Hosts, UNCHANGED host, \A k \in Hosts : k # h => disk'[k] = disk[k],
               \/ disk'[h].node \in {disk[h].node, NoMachine}
               \/ agent[h].pc = "boot" /\ disk'[h].node = agent[h].before.ref
        PROVE  [Pooled!Next]_<<owners, nodes>>
    <2>1. agent[h].pc = "boot" => /\ OwnerOf(host[h]) = agent[h].before.ref
                                  /\ OwnerOf(host[h]) # NoMachine
                                  /\ disk[h].node \in {NoMachine, OwnerOf(host[h])}
      BY <1>g DEF OwnerOf
    <2>2. PoolMove(OwnerOf(host[h]), OwnerOf(host'[h]), disk[h].node, disk'[h].node)
      BY <1>3, <2>1 DEF PoolMove
    <2> QED BY <1>3, <2>2, PoolMoveStep
  <1>4. ASSUME NEW h \in Hosts, AttachLease(h) PROVE [Pooled!Next]_<<owners, nodes>>
    <2>1. /\ UNCHANGED disk /\ \A k \in Hosts : k # h => host'[k] = host[k]
          /\ host'[h].label = host[h].label /\ host'[h].ref \in {host[h].ref, NoMachine}
      BY <1>t, <1>4 DEF AttachLease, HostRec
    <2> QED BY <1>2, <2>1
  <1>5. ASSUME NEW h \in Hosts, NEW p, p.before \in HostRec, p.after \in HostRec, UNCHANGED disk,
               CallApplies(h, p) \/ CallFails(h, p),
               \/ KeepsOrClears(p)
               \/ \E m \in Machines : {host[h].label, host[h].ref, p.after.label, p.after.ref}
                                        \subseteq {NoMachine, m}
        PROVE  [Pooled!Next]_<<owners, nodes>>
    <2>1. /\ \A k \in Hosts : k # h => host'[k] = host[k]
          /\ \/ host'[h].label = host[h].label
             \/ p.after.label # p.before.label /\ host'[h].label = p.after.label
          /\ \/ host'[h].ref = host[h].ref
             \/ p.after.ref # p.before.ref /\ host'[h].ref = p.after.ref
      BY <1>5, CallEffect
    <2>2. CASE KeepsOrClears(p)
      BY <1>2, <1>5, <2>1, <2>2 DEF KeepsOrClears
    <2>3. CASE \E m \in Machines : {host[h].label, host[h].ref, p.after.label, p.after.ref}
                                     \subseteq {NoMachine, m}
      <3>1. PICK m \in Machines : /\ host[h].label \in {NoMachine, m}
                                  /\ host[h].ref \in {NoMachine, m}
                                  /\ p.after.label \in {NoMachine, m}
                                  /\ p.after.ref \in {NoMachine, m}
        BY <2>3
      <3>2. host'[h].label \in {NoMachine, m} /\ host'[h].ref \in {NoMachine, m}
        BY <2>1, <3>1
      <3>3. {host[h].label, host'[h].label, host[h].ref, host'[h].ref} \subseteq {NoMachine, m}
        BY <3>1, <3>2
      <3>4. UNCHANGED disk /\ \A k \in Hosts : k # h => host'[k] = host[k]
        BY <1>5, <2>1
      <3> QED BY <1>2, <3>3, <3>4
    <2> QED BY <1>5, <2>2, <2>3
  <1>6. CASE MctlCall
    <2>1. /\ mctl.h \in Hosts /\ mctl.before \in HostRec /\ mctl.after \in HostRec /\ UNCHANGED disk
          /\ CallApplies(mctl.h, mctl) \/ CallFails(mctl.h, mctl)
          /\ mctl.pc \in Stages /\ mctl.op \in {"attach", "mark"}
      BY <1>c, <1>t, <1>6 DEF MctlCall, ControlOK, MctlRec
    <2>2. mctl.op = "mark" => KeepsOrClears(mctl)
      BY <1>c DEF OnlyAttachClaims
    <2>3. mctl.op = "attach" =>
             \E m \in Machines : {host[mctl.h].label, host[mctl.h].ref, mctl.after.label, mctl.after.ref}
                                   \subseteq {NoMachine, m}
      BY <1>c, <2>1 DEF ListIsFree, RecordsKept
    <2> QED BY <1>5, <2>1, <2>2, <2>3
  <1>7. CASE HctlCall
    <2>1. /\ hctl.h \in Hosts /\ hctl.before \in HostRec /\ hctl.after \in HostRec /\ UNCHANGED disk
          /\ CallApplies(hctl.h, hctl) \/ CallFails(hctl.h, hctl)
          /\ KeepsOrClears(hctl)
      BY <1>c, <1>t, <1>7 DEF HctlCall, ControlOK, OnlyAttachClaims, HctlRec
    <2> QED BY <1>5, <2>1
  <1>8. ASSUME NEW h \in Hosts, AgentCall(h) PROVE [Pooled!Next]_<<owners, nodes>>
    <2>1. /\ agent[h].before \in HostRec /\ agent[h].after \in HostRec /\ UNCHANGED disk
          /\ CallApplies(h, agent[h]) \/ CallFails(h, agent[h])
          /\ KeepsOrClears(agent[h])
      BY <1>c, <1>t, <1>8 DEF AgentCall, OnlyAttachClaims, AgentRec
    <2> QED BY <1>5, <2>1
  <1>9. ASSUME NEW h \in Hosts, AgentStart(h) PROVE [Pooled!Next]_<<owners, nodes>>
    <2>1. /\ UNCHANGED disk /\ \A k \in Hosts : k # h => host'[k] = host[k]
          /\ host'[h].label = host[h].label /\ host'[h].ref = host[h].ref
      BY <1>c, <1>t, <1>9, ConstantHosts DEF AgentStart, ControlOK
    <2> QED BY <1>2, <2>1
  <1>10. ASSUME NEW h \in Hosts, TimePasses(h) PROVE [Pooled!Next]_<<owners, nodes>>
    <2>1. /\ UNCHANGED disk /\ \A k \in Hosts : k # h => host'[k] = host[k]
          /\ host'[h].label = host[h].label /\ host'[h].ref = host[h].ref
      BY <1>t, <1>10 DEF TimePasses, HostRec
    <2> QED BY <1>2, <2>1
  <1>11. ASSUME NEW h \in Hosts,
                AgentCleanUp(h) \/ AgentCleanUpFails(h) \/ AgentBootstrap(h) \/ AgentBootstrapFails(h)
         PROVE  [Pooled!Next]_<<owners, nodes>>
    <2>1. /\ UNCHANGED host /\ \A k \in Hosts : k # h => disk'[k] = disk[k]
          /\ \/ disk'[h].node \in {disk[h].node, NoMachine}
             \/ agent[h].pc = "boot" /\ disk'[h].node = agent[h].before.ref
      BY <1>t, <1>11
      DEF AgentCleanUp, AgentCleanUpFails, AgentBootstrap, AgentBootstrapFails, DiskRec
    <2> QED BY <1>3, <2>1
  <1>12. ASSUME NEW h \in Hosts, AgentStops(h) PROVE [Pooled!Next]_<<owners, nodes>>
    <2>1. PICK reboot \in BOOLEAN, half \in BOOLEAN :
             disk' = [disk EXCEPT
                   ![h].node = IF ~half THEN @
                               ELSE IF agent[h].pc = "boot" THEN agent[h].before.ref ELSE NoMachine,
                   ![h].id = IF reboot THEN NoMachine ELSE @]
      BY <1>12 DEF AgentStops
    <2>2. /\ UNCHANGED host /\ \A k \in Hosts : k # h => disk'[k] = disk[k]
          /\ \/ disk'[h].node \in {disk[h].node, NoMachine}
             \/ agent[h].pc = "boot" /\ disk'[h].node = agent[h].before.ref
      BY <1>t, <1>12, <2>1 DEF AgentStops, DiskRec
    <2> QED BY <1>3, <2>2
  <1>13. CASE MctlNext
    BY <1>1, <1>4, <1>6, <1>13
    DEF MctlNext, ReconcileNormal, AttachList, ReconcileDelete, DeleteComplete, Remediate,
        AttachMiss, AttachAbort, AttachGiveUp, AttachClaim, MctlFinish
  <1>14. CASE HctlNext
    BY <1>1, <1>7, <1>14 DEF HctlNext, HostReconcile
  <1>15. CASE EnvNext
    BY <1>1, <1>10, <1>12, <1>15
    DEF EnvNext, CreateMachine, BootstrapDataReady, DeleteMachine, DeleteHost, ManagerRestart, CacheSync,
        Fault, RecordsKept
  <1>16. ASSUME NEW h \in Hosts, AgentStart(h) \/ AgentNext(h)
         PROVE  [Pooled!Next]_<<owners, nodes>>
    BY <1>1, <1>8, <1>9, <1>11, <1>16 DEF AgentNext, AgentReconcile
  <1>17. CASE UNCHANGED vars
    BY <1>1, <1>17 DEF vars
  <1> QED BY <1>13, <1>14, <1>15, <1>16, <1>17 DEF Next

(* Registration, claim, bootstrap, release, forced clean-up and reuse implement  *)
(* the capacity pool: a host is claimed only when clean, joined only for its      *)
(* owner and released only when reset, whatever calls fail and whatever process   *)
(* restarts, as long as no ByoHost is deleted and resetNode does its work.        *)
THEOREM PoolRefinement ==
    ASSUME RecordsKept
    PROVE  Spec => ImplementsPool
  <1>1. Init => Pooled!Init
    BY ConstantHosts DEF Init, Pooled!Init, OwnerOf
  <1>2. TypeOK /\ ClaimInv /\ TypeOK' /\ ClaimInv' /\ [Next]_vars
           => [Pooled!Next]_<<owners, nodes>>
    BY PoolStep
  <1>3. Spec => Pooled!Spec
    BY <1>1, <1>2, ClaimInvariant, PTL DEF Spec, Pooled!Spec, owners, nodes
  <1> QED BY <1>3 DEF ImplementsPool
==============================================================================
