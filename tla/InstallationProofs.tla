-------------------------- MODULE InstallationProofs --------------------------
(***************************************************************************)
(* Proofs about Installation, for every kind of host, version, repository  *)
(* and number of faults.                                                   *)
(***************************************************************************)
EXTENDS Installation, TLAPS

(* MPatch and CPatch only choose where the patch begins. *)
LEMMA MPatchEffect ==
    ASSUME TypeOK, NEW r \in MRecs
    PROVE  MPatch(r) \in MRecs /\ MPatch(r).pc \in {"idle"} \cup Calls
BY DEF MPatch, MIdle, MRecs, Calls, Reasons

LEMMA CPatchEffect ==
    ASSUME TypeOK, NEW r \in CRecs
    PROVE  /\ CPatch(r) \in CRecs /\ CPatch(r).pc \in {"idle", "meta", "status"}
           /\ CPatch(r).ready => r.ready
           /\ CPatch(r).pc = "status" => CPatch(r).ready
BY DEF CPatch, CIdle, CRecs, Calls

(* Fault only counts. *)
LEMMA FaultType ==
    ASSUME TypeOK, NEW k, Fault(k)
    PROVE  faults' \in 0..MaxFaults
BY FaultAssumption DEF TypeOK, Fault

(* The same for the gate of reconcileNormal, which leads to work on the host     *)
(* only when the host is held.                                                   *)
LEMMA MGatedEffect ==
    ASSUME TypeOK, NEW r \in MRecs
    PROVE  /\ MGated(r) \in MRecs /\ MGated(r).pc \in {"idle", "tls", "attach", "inst"} \cup Calls
           /\ MGated(r).pc = "inst" => r.held
<1> DEFINE w == [r EXCEPT !.reason = "infrastructure"]
           d == [r EXCEPT !.reason = "bootstrapData"]
<1>1. w \in MRecs /\ d \in MRecs
  BY DEF MRecs, Reasons
<1>2. /\ MPatch(w) \in MRecs /\ MPatch(w).pc \in {"idle"} \cup Calls
      /\ MPatch(d) \in MRecs /\ MPatch(d).pc \in {"idle"} \cup Calls
  BY <1>1, MPatchEffect
<1>3. MPatch(w).pc # "inst" /\ MPatch(d).pc # "inst"
  BY <1>2 DEF Calls
<1> HIDE DEF w, d
<1>4. CASE ~cluster.infra
  BY <1>2, <1>3, <1>4 DEF MGated, w
<1>5. CASE cluster.infra /\ ~IsTLS /\ ~cluster.data
  BY <1>2, <1>3, <1>5 DEF MGated, d
<1>6. CASE cluster.infra /\ (IsTLS \/ cluster.data)
  BY <1>6 DEF MGated, MRecs
<1> QED BY <1>4, <1>5, <1>6

(* Every step keeps the types. *)
LEMMA TypeStep == TypeOK /\ [Next]_vars => TypeOK'
<1> SUFFICES ASSUME TypeOK, [Next]_vars
             PROVE  TypeOK'
  OBVIOUS
<1> USE DEF Phases, ClusterPhases
<1>1. CASE ClusterNormal
  <2>1. bc' \in [phase : ClusterPhases, fin : BOOLEAN, ready : BOOLEAN]
    <3>0. bc \in [phase : ClusterPhases, fin : BOOLEAN, ready : BOOLEAN]
      BY DEF TypeOK
    <3>1. \/ bc' = [bc EXCEPT !.fin = TRUE, !.ready = TRUE]
          \/ bc' = [bc EXCEPT !.fin = TRUE] \/ bc' = [bc EXCEPT !.ready = TRUE]
      BY <1>1 DEF ClusterNormal
    <3> QED BY <3>0, <3>1
  <2>2. faults' \in 0..MaxFaults
    <3>1. faults' = faults \/ Fault("api")
      BY <1>1 DEF ClusterNormal
    <3> QED BY <3>1, FaultType DEF TypeOK
  <2> QED BY <2>1, <2>2, <1>1 DEF ClusterNormal, TypeOK
<1>2. CASE ClusterDelete
  <2>1. bcrec' \in {"idle", "remove"}
    BY <1>2 DEF ClusterDelete, TypeOK
  <2> QED BY <2>1, <1>2 DEF ClusterDelete, TypeOK
<1>3. CASE ClusterRemove
  <2>1. bc' \in [phase : ClusterPhases, fin : BOOLEAN, ready : BOOLEAN]
    BY <1>3 DEF ClusterRemove, TypeOK
  <2>2. bcrec' \in {"idle", "remove"}
    BY <1>3 DEF ClusterRemove, TypeOK
  <2>3. faults' \in 0..MaxFaults
    BY <1>3, FaultType DEF ClusterRemove, TypeOK
  <2> QED BY <2>1, <2>2, <2>3, <1>3 DEF ClusterRemove, TypeOK
<1>4. CASE MachinePaused
  <2>1. mrec' \in MRecs
    <3> DEFINE r == [MIdle EXCEPT !.held = (host.state # "free"), !.info = machine.info,
                                  !.fin = machine.fin, !.reason = "paused"]
    <3>1. r \in MRecs
      BY DEF TypeOK, MRecs, MIdle, Reasons, Calls
    <3>2. MPatch(r) \in MRecs
      BY <3>1, MPatchEffect
    <3>3. mrec' = [r EXCEPT !.pc = "pause"] \/ mrec' = MPatch(r)
      BY <1>4 DEF MachinePaused
    <3> HIDE DEF r
    <3> QED BY <3>1, <3>2, <3>3 DEF MRecs
  <2> QED BY <2>1, <1>4 DEF MachinePaused, TypeOK
<1>5. CASE MachineNormal
  <2>1. mrec' \in MRecs
    BY <1>5 DEF MachineNormal, TypeOK, MRecs, Reasons
  <2> QED BY <2>1, <1>5 DEF MachineNormal, TypeOK
<1>6. CASE MachinePauses
  <2>1. host' \in [state : HostStates, paused : BOOLEAN, inst : BOOLEAN, comp : BOOLEAN]
    BY <1>6 DEF MachinePauses, TypeOK, HostStates
  <2>2. mrec' \in MRecs
    BY <1>6, MPatchEffect DEF MachinePauses, TypeOK, MRecs, Reasons
  <2>3. faults' \in 0..MaxFaults
    BY <1>6, FaultType DEF MachinePauses, TypeOK
  <2> QED BY <2>1, <2>2, <2>3, <1>6 DEF MachinePauses, TypeOK
<1>7. CASE MachineConfig
  <2>1. config' \in [phase : Phases, fin : BOOLEAN, ready : BOOLEAN]
    BY <1>7 DEF MachineConfig, TypeOK
  <2>2. mrec' \in MRecs
    BY <1>7, MGatedEffect, MPatchEffect DEF MachineConfig, TypeOK, MRecs, Reasons
  <2>3. faults' \in 0..MaxFaults
    BY <1>7, FaultType DEF MachineConfig, TypeOK
  <2> QED BY <2>1, <2>2, <2>3, <1>7 DEF MachineConfig, TypeOK
<1>8. CASE MachineTLSSecret
  <2>1. tls' \in BOOLEAN
    BY <1>8 DEF MachineTLSSecret, TypeOK
  <2>2. mrec' \in MRecs
    BY <1>8, MPatchEffect DEF MachineTLSSecret, TypeOK, MRecs, Reasons
  <2>3. faults' \in 0..MaxFaults
    BY <1>8, FaultType DEF MachineTLSSecret, TypeOK
  <2> QED BY <2>1, <2>2, <2>3, <1>8 DEF MachineTLSSecret, TypeOK
<1>9. CASE MachineAttach
  <2>1. host' \in [state : HostStates, paused : BOOLEAN, inst : BOOLEAN, comp : BOOLEAN]
    BY <1>9 DEF MachineAttach, TypeOK, HostStates
  <2>2. mrec' \in MRecs
    <3>0. mrec \in MRecs
      BY DEF TypeOK
    <3>1. \/ mrec' = [mrec EXCEPT !.pc = "inst", !.reason = "installationSecret"]
          \/ mrec' = [mrec EXCEPT !.pc = "tls"] \/ mrec' = [mrec EXCEPT !.pc = "attach"]
      BY <1>9 DEF MachineAttach
    <3>2. [mrec EXCEPT !.pc = "inst", !.reason = "installationSecret"] \in MRecs
      BY <3>0 DEF MRecs, Reasons
    <3>3. [mrec EXCEPT !.pc = "tls"] \in MRecs /\ [mrec EXCEPT !.pc = "attach"] \in MRecs
      BY <3>0 DEF MRecs
    <3> QED BY <3>1, <3>2, <3>3
  <2>3. faults' \in 0..MaxFaults
    BY <1>9, FaultType DEF MachineAttach, TypeOK
  <2> QED BY <2>1, <2>2, <2>3, <1>9 DEF MachineAttach, TypeOK
<1>10. CASE MachineInst
  <2>1. host' \in [state : HostStates, paused : BOOLEAN, inst : BOOLEAN, comp : BOOLEAN]
    BY <1>10 DEF MachineInst, TypeOK, HostStates
  <2>2. mrec' \in MRecs
    <3> DEFINE r == [mrec EXCEPT !.info = TRUE]
               done == [r EXCEPT !.reason = "node"]
    <3>1. r \in MRecs /\ done \in MRecs
      BY DEF TypeOK, MRecs, Reasons
    <3>2. MPatch(r) \in MRecs /\ MPatch(done) \in MRecs
      BY <3>1, MPatchEffect
    <3>3. mrec' = MPatch(r) \/ mrec' = MPatch(done)
      BY <1>10 DEF MachineInst
    <3> QED BY <3>2, <3>3
  <2>3. faults' \in 0..MaxFaults
    BY <1>10, FaultType DEF MachineInst, TypeOK
  <2> QED BY <2>1, <2>2, <2>3, <1>10 DEF MachineInst, TypeOK
<1>11. CASE MachineCall
  <2>1. machine' \in [phase : Phases, fin : BOOLEAN, reason : Reasons, info : BOOLEAN]
    BY <1>11 DEF MachineCall, TypeOK, MRecs, Calls
  <2>2. mrec' \in MRecs
    BY <1>11 DEF MachineCall, TypeOK, MRecs, MIdle, Reasons, Calls
  <2>3. faults' \in 0..MaxFaults
    BY <1>11, FaultType DEF MachineCall, TypeOK
  <2> QED BY <2>1, <2>2, <2>3, <1>11 DEF MachineCall, TypeOK
<1>12. CASE MachineDelete
  <2>1. machine' \in [phase : Phases, fin : BOOLEAN, reason : Reasons, info : BOOLEAN]
    BY <1>12 DEF MachineDelete, TypeOK, MRecs, Calls
  <2>2. host' \in [state : HostStates, paused : BOOLEAN, inst : BOOLEAN, comp : BOOLEAN]
    BY <1>12 DEF MachineDelete, TypeOK, HostStates
  <2> QED BY <2>1, <2>2, <1>12 DEF MachineDelete, TypeOK
<1>13. CASE ForceCleanup
  <2>1. host' \in [state : HostStates, paused : BOOLEAN, inst : BOOLEAN, comp : BOOLEAN]
    BY <1>13 DEF ForceCleanup, TypeOK, HostStates
  <2> QED BY <2>1, <1>13 DEF ForceCleanup, TypeOK
<1>14. CASE ConfigReconcile
  <2>1. crec' \in CRecs
    BY <1>14, CPatchEffect DEF ConfigReconcile, TypeOK, CRecs, CIdle
  <2> QED BY <2>1, <1>14 DEF ConfigReconcile, TypeOK
<1>15. CASE ConfigStore
  <2>1. secret' \in {NoInstaller} \cup {Made(kind, i) : i \in BOOLEAN}
    <3>1. crec.info \in BOOLEAN
      BY DEF TypeOK, CRecs
    <3>2. secret' = Made(kind, crec.info) \/ secret' = secret
      BY <1>15 DEF ConfigStore
    <3> QED BY <3>1, <3>2 DEF TypeOK
  <2>2. crec' \in CRecs
    <3> DEFINE r == [crec EXCEPT !.ready = TRUE]
    <3>1. r \in CRecs
      BY DEF TypeOK, CRecs
    <3>2. CPatch(r) \in CRecs /\ CPatch(crec) \in CRecs
      BY <3>1, CPatchEffect DEF TypeOK
    <3>3. crec' = CPatch(r) \/ crec' = CPatch(crec)
      BY <1>15 DEF ConfigStore
    <3> QED BY <3>2, <3>3
  <2>3. faults' \in 0..MaxFaults
    BY <1>15, FaultType DEF ConfigStore, TypeOK
  <2> QED BY <2>1, <2>2, <2>3, <1>15 DEF ConfigStore, TypeOK
<1>16. CASE ConfigCall
  <2>1. config' \in [phase : Phases, fin : BOOLEAN, ready : BOOLEAN]
    <3>1. Exists(config) \in BOOLEAN
      BY DEF Exists
    <3>2. \/ config' = [config EXCEPT !.fin = Exists(config)]
          \/ config' = [config EXCEPT !.ready = Exists(config)]
          \/ config' = config
      BY <1>16 DEF ConfigCall
    <3> QED BY <3>1, <3>2 DEF TypeOK
  <2>2. crec' \in CRecs
    BY <1>16 DEF ConfigCall, TypeOK, CRecs, CIdle, Calls
  <2>3. faults' \in 0..MaxFaults
    BY <1>16, FaultType DEF ConfigCall, TypeOK
  <2> QED BY <2>1, <2>2, <2>3, <1>16 DEF ConfigCall, TypeOK
<1>17. CASE ConfigDelete
  <2>1. config' \in [phase : Phases, fin : BOOLEAN, ready : BOOLEAN]
    BY <1>17 DEF ConfigDelete, TypeOK
  <2> QED BY <2>1, <1>17 DEF ConfigDelete, TypeOK
<1>18. CASE AgentInstalls
  <2>1. host' \in [state : HostStates, paused : BOOLEAN, inst : BOOLEAN, comp : BOOLEAN]
    BY <1>18 DEF AgentInstalls, TypeOK, HostStates
  <2> QED BY <2>1, <1>18 DEF AgentInstalls, TypeOK
<1>19. CASE AgentCleans
  <2>1. host' \in [state : HostStates, paused : BOOLEAN, inst : BOOLEAN, comp : BOOLEAN]
    BY <1>19 DEF AgentCleans, TypeOK, HostStates
  <2> QED BY <2>1, <1>19 DEF AgentCleans, TypeOK
<1>20. CASE MachineCreated
  <2>1. machine' \in [phase : Phases, fin : BOOLEAN, reason : Reasons, info : BOOLEAN]
    BY <1>20 DEF MachineCreated, TypeOK, MRecs, Calls
  <2> QED BY <2>1, <1>20 DEF MachineCreated, TypeOK
<1>21. CASE ClusterProgress
  <2>1. cluster' \in [paused : BOOLEAN, infra : BOOLEAN, data : BOOLEAN]
    BY <1>21 DEF ClusterProgress, TypeOK
  <2> QED BY <2>1, <1>21 DEF ClusterProgress, TypeOK
<1>22. CASE MachineDeleted
  <2>1. machine' \in [phase : Phases, fin : BOOLEAN, reason : Reasons, info : BOOLEAN]
    BY <1>22 DEF MachineDeleted, TypeOK, MRecs, Calls
  <2> QED BY <2>1, <1>22 DEF MachineDeleted, TypeOK
<1>23. CASE ClusterDeleted
  <2>1. bc' \in [phase : ClusterPhases, fin : BOOLEAN, ready : BOOLEAN]
    BY <1>23 DEF ClusterDeleted, TypeOK
  <2> QED BY <2>1, <1>23 DEF ClusterDeleted, TypeOK
<1>24. CASE Collect
  <2>1. config' \in [phase : Phases, fin : BOOLEAN, ready : BOOLEAN]
    BY <1>24 DEF Collect, TypeOK
  <2>2. tls' \in BOOLEAN
    BY <1>24 DEF Collect, TypeOK
  <2>3. secret' \in {NoInstaller} \cup {Made(kind, i) : i \in BOOLEAN}
    BY <1>24 DEF Collect, TypeOK
  <2> QED BY <2>1, <2>2, <2>3, <1>24 DEF Collect, TypeOK
<1>25. CASE Pause
  <2>1. cluster' \in [paused : BOOLEAN, infra : BOOLEAN, data : BOOLEAN]
    BY <1>25 DEF Pause, TypeOK
  <2>2. faults' \in 0..MaxFaults
    BY <1>25, FaultType DEF Pause, TypeOK
  <2> QED BY <2>1, <2>2, <1>25 DEF Pause, TypeOK
<1>26. CASE Unpause
  <2>1. cluster' \in [paused : BOOLEAN, infra : BOOLEAN, data : BOOLEAN]
    BY <1>26 DEF Unpause, TypeOK
  <2> QED BY <2>1, <1>26 DEF Unpause, TypeOK
<1>27. CASE ManagerRestarts
  <2>1. bcrec' \in {"idle", "remove"}
    BY <1>27 DEF ManagerRestarts, TypeOK
  <2>2. mrec' \in MRecs
    BY <1>27 DEF ManagerRestarts, TypeOK, MRecs, MIdle, Reasons
  <2>3. crec' \in CRecs
    BY <1>27 DEF ManagerRestarts, TypeOK, CRecs, CIdle
  <2>4. faults' \in 0..MaxFaults
    BY <1>27, FaultType DEF ManagerRestarts, TypeOK
  <2> QED BY <2>1, <2>2, <2>3, <2>4, <1>27 DEF ManagerRestarts, TypeOK
<1>28. CASE UNCHANGED vars
  BY <1>28 DEF vars, TypeOK
<1> QED
  BY <1>1, <1>2, <1>3, <1>4, <1>5, <1>6, <1>7, <1>8, <1>9, <1>10, <1>11, <1>12, <1>13, <1>14, <1>15, <1>16, <1>17, <1>18, <1>19, <1>20, <1>21, <1>22, <1>23, <1>24, <1>25, <1>26, <1>27, <1>28 DEF Next, MachineStep, ConfigStep, ClusterStep

(* Every step keeps the hand-over invariant. *)
LEMMA HandoverStep == TypeOK /\ HandoverInv /\ [Next]_vars => HandoverInv'
<1> SUFFICES ASSUME TypeOK, HandoverInv, [Next]_vars
             PROVE  HandoverInv'
  OBVIOUS
<1> USE DEF HandoverInv, Exists, NoMachinesListed, Phases, ClusterPhases
<1>1. CASE ClusterNormal
  BY <1>1 DEF ClusterNormal, TypeOK
<1>2. CASE ClusterDelete
  BY <1>2 DEF ClusterDelete, TypeOK
<1>3. CASE ClusterRemove
  BY <1>3 DEF ClusterRemove, TypeOK
<1>4. CASE MachinePaused
  <2> DEFINE r == [MIdle EXCEPT !.held = (host.state # "free"), !.info = machine.info,
                                !.fin = machine.fin, !.reason = "paused"]
  <2>1. r \in MRecs
    BY DEF TypeOK, MRecs, MIdle, Reasons, Calls
  <2>2. MPatch(r).pc \in {"idle"} \cup Calls
    BY <2>1, MPatchEffect
  <2>3. mrec' = [r EXCEPT !.pc = "pause"] \/ mrec' = MPatch(r)
    BY <1>4 DEF MachinePaused
  <2> HIDE DEF r
  <2>4. mrec'.pc \in {"idle", "pause"} \cup Calls
    BY <2>1, <2>2, <2>3 DEF MRecs
  <2> QED BY <1>4, <2>4 DEF MachinePaused, TypeOK, Calls
<1>5. CASE MachineNormal
  <2>1. mrec'.pc \in {"resume", "config"} /\ (mrec'.held => host.state # "free")
    BY <1>5 DEF MachineNormal
  <2>2. host.state \in {"free", "held"}
    BY <1>5 DEF MachineNormal, TypeOK, HostStates
  <2> QED BY <1>5, <2>1, <2>2 DEF MachineNormal, TypeOK
<1>6. CASE MachinePauses
  BY <1>6, MPatchEffect DEF MachinePauses, TypeOK, MRecs, MIdle, Calls, HostStates
<1>7. CASE MachineConfig
  BY <1>7, MPatchEffect, MGatedEffect DEF MachineConfig, TypeOK, MRecs, MIdle, Calls
<1>8. CASE MachineTLSSecret
  BY <1>8, MPatchEffect DEF MachineTLSSecret, TypeOK, MRecs, MIdle, Calls
<1>9. CASE MachineAttach
  BY <1>9, MPatchEffect DEF MachineAttach, TypeOK, MRecs, MIdle, Calls, HostStates
<1>10. CASE MachineInst
  BY <1>10, MPatchEffect DEF MachineInst, TypeOK, MRecs, MIdle, Calls, HostStates, ConfigReady
<1>11. CASE MachineCall
  BY <1>11, MPatchEffect DEF MachineCall, TypeOK, MRecs, MIdle, Calls
<1>12. CASE MachineDelete
  BY <1>12 DEF MachineDelete, TypeOK, HostStates
<1>13. CASE ForceCleanup
  BY <1>13 DEF ForceCleanup, TypeOK, HostStates
<1>14. CASE ConfigReconcile
  <2> DEFINE r == [CIdle EXCEPT !.pc = "store", !.info = machine.info]
  <2>1. CIdle \in CRecs /\ ~CIdle.ready
    BY DEF CIdle, CRecs
  <2>2. /\ CPatch(CIdle).pc \in {"idle", "meta", "status"} /\ ~CPatch(CIdle).ready
        /\ CPatch(CIdle).pc # "status"
    BY <2>1, CPatchEffect
  <2>3. \/ crec' = CPatch(CIdle)
        \/ crec' = r /\ Made(kind, machine.info) # NoInstaller
    BY <1>14 DEF ConfigReconcile
  <2>4. r.pc = "store" /\ r.info = machine.info /\ ~r.ready
    BY DEF CIdle
  <2> HIDE DEF r
  <2>5. /\ ~crec'.ready /\ crec'.pc # "status"
        /\ crec'.pc = "store" => Made(kind, crec'.info) # NoInstaller
    BY <2>2, <2>3, <2>4
  <2> QED BY <1>14, <2>5 DEF ConfigReconcile
<1>15. CASE ConfigStore
  <2> DEFINE r == [crec EXCEPT !.ready = TRUE]
  <2>1. r \in CRecs /\ crec \in CRecs
    BY DEF TypeOK, CRecs
  <2>2. /\ CPatch(r).pc \in {"idle", "meta", "status"} /\ (CPatch(r).pc = "status" => CPatch(r).ready)
        /\ CPatch(crec).pc \in {"idle", "meta", "status"} /\ (CPatch(crec).ready => crec.ready)
        /\ CPatch(crec).pc = "status" => CPatch(crec).ready
    BY <2>1, CPatchEffect
  <2> HIDE DEF r
  <2>3. \/ secret' = Made(kind, crec.info) /\ crec' = CPatch(r)
        \/ secret' = secret /\ crec' = CPatch(crec)
    BY <1>15 DEF ConfigStore, r
  <2>4. /\ crec'.pc \in {"idle", "meta", "status"}
        /\ crec'.pc = "status" => crec'.ready
        /\ secret' # NoInstaller \/ (secret' = secret /\ (crec'.ready => crec.ready))
    BY <1>15, <2>2, <2>3 DEF ConfigStore
  <2> QED BY <1>15, <2>4 DEF ConfigStore
<1>16. CASE ConfigCall
  BY <1>16, CPatchEffect DEF ConfigCall, TypeOK, CRecs, CIdle, Calls
<1>17. CASE ConfigDelete
  BY <1>17 DEF ConfigDelete, TypeOK
<1>18. CASE AgentInstalls
  BY <1>18 DEF AgentInstalls, TypeOK, HostStates
<1>19. CASE AgentCleans
  BY <1>19 DEF AgentCleans, TypeOK, HostStates
<1>20. CASE MachineCreated
  BY <1>20 DEF MachineCreated, TypeOK
<1>21. CASE ClusterProgress
  BY <1>21 DEF ClusterProgress, TypeOK
<1>22. CASE MachineDeleted
  BY <1>22 DEF MachineDeleted, TypeOK
<1>23. CASE ClusterDeleted
  BY <1>23 DEF ClusterDeleted, TypeOK
<1>24. CASE Collect
  BY <1>24 DEF Collect, TypeOK
<1>25. CASE Pause
  BY <1>25 DEF Pause, TypeOK
<1>26. CASE Unpause
  BY <1>26 DEF Unpause, TypeOK
<1>27. CASE ManagerRestarts
  BY <1>27, MPatchEffect, CPatchEffect DEF ManagerRestarts, TypeOK, MRecs, MIdle, Calls, CRecs, CIdle
<1>28. CASE UNCHANGED vars
  BY <1>28 DEF vars
<1> QED
  BY <1>1, <1>2, <1>3, <1>4, <1>5, <1>6, <1>7, <1>8, <1>9, <1>10, <1>11, <1>12, <1>13, <1>14, <1>15, <1>16, <1>17, <1>18, <1>19, <1>20, <1>21, <1>22, <1>23, <1>24, <1>25, <1>26, <1>27, <1>28 DEF Next, MachineStep, ConfigStep, ClusterStep

(* For every kind of host: the types and the hand-over invariant always hold. *)
THEOREM HandoverInvariant == Spec => [](TypeOK /\ HandoverInv)
<1>1. Init => TypeOK
  <2> SUFFICES ASSUME Init PROVE TypeOK
    OBVIOUS
  <2>1. MIdle \in MRecs /\ CIdle \in CRecs
    BY DEF MIdle, CIdle, MRecs, CRecs, Reasons
  <2>2. faults \in 0..MaxFaults
    BY FaultAssumption DEF Init
  <2> QED BY <2>1, <2>2 DEF Init, TypeOK, Phases, ClusterPhases, HostStates, Reasons
<1>2. Init => HandoverInv
  BY DEF Init, HandoverInv, MIdle, CIdle
<1> QED
  BY <1>1, <1>2, TypeStep, HandoverStep, PTL DEF Spec

(* Hence the secret a host is told of is there, whatever calls fail and whenever  *)
(* the manager restarts (setInstallationSecretForByoHost, executeInstallerController). *)
THEOREM SecretBeforeReferenceAlways == Spec => []SecretBeforeReference
<1>1. TypeOK /\ HandoverInv => SecretBeforeReference
  BY DEF TypeOK, HandoverInv, SecretBeforeReference, ConfigReady, Exists, Phases
<1> QED
  BY <1>1, HandoverInvariant, PTL

(* And a ByoCluster waits for its machine before it goes, unless its name is not     *)
(* its Cluster's (reconcileDelete of ByoClusterReconciler).                        *)
THEOREM ClusterWaitsAlways == Spec => ClusterWaitsForMachines
<1>1. ASSUME TypeOK, HandoverInv, Next, kind.alike, bc.fin, Exists(bc), ~Exists(bc)'
      PROVE  ~Exists(machine)
  <2>1. CASE ClusterRemove
    BY <1>1, <2>1 DEF HandoverInv, ClusterRemove, NoMachinesListed
  <2>2. CASE ClusterDeleted
    BY <2>2, <1>1 DEF ClusterDeleted, Exists, TypeOK
  <2>3. CASE ClusterNormal
    BY <2>3, <1>1 DEF ClusterNormal, Exists, TypeOK
  <2>4. CASE bc' = bc
    BY <2>4, <1>1 DEF Exists
  <2> QED
    BY <1>1, <2>1, <2>2, <2>3, <2>4
       DEF Next, MachineStep, ConfigStep, ClusterStep, ClusterDelete, MachinePaused, MachineNormal,
           MachinePauses, MachineConfig, MachineTLSSecret, MachineAttach, MachineInst, MachineCall,
           MachineDelete, ForceCleanup, ConfigReconcile, ConfigStore, ConfigCall, ConfigDelete,
           AgentInstalls, AgentCleans, MachineCreated, ClusterProgress, MachineDeleted, Collect,
           Pause, Unpause, ManagerRestarts
<1>2. TypeOK /\ HandoverInv /\ [Next]_vars
        => [kind.alike /\ bc.fin /\ Exists(bc) /\ ~Exists(bc)' => ~Exists(machine)]_vars
  BY <1>1
<1> QED
  BY <1>2, HandoverInvariant, PTL DEF Spec, ClusterWaitsForMachines

(* The types hold: every reconcile keeps its private copies and the objects it      *)
(* patches within them, and the secret holds what some installer made.              *)
THEOREM TypeCorrect == Spec => []TypeOK
<1> QED BY HandoverInvariant, PTL

(* The registry knows no OS of an empty release and architecture. *)
LEMMA NothingForEmptyInfo ==
    ASSUME NEW k, k.mode = "kubeadm"
    PROVE  Made(k, FALSE) = NoInstaller
<1>1. OldName("") = ""
  BY DEF OldName
<1>2. ResolveOsToOsBundle("", "") = {}
  BY DEF ResolveOsToOsBundle, Bundles, Releases
<1>3. ListK8s("", "") = {}
  BY <1>2 DEF ListK8s
<1>4. NewInstaller("", "", Repo, Minor) = NoInstaller
  BY <1>1, <1>3 DEF NewInstaller
<1> QED
  BY <1>4 DEF Made

(* In the kubeadm mode a secret's scripts are for the OS and architecture of its    *)
(* host, although storeInstallationData may run with a HostInfo that was not saved  *)
(* yet: NewInstaller fails then.                                                    *)
THEOREM ScriptsFitHostAlways == Spec => []ScriptsFitHost
<1>1. TypeOK => ScriptsFitHost
  <2> SUFFICES ASSUME TypeOK, kind.mode = "kubeadm", secret # NoInstaller
               PROVE  secret = Made(kind, TRUE)
    BY DEF ScriptsFitHost
  <2>1. PICK i \in BOOLEAN : secret = Made(kind, i)
    BY DEF TypeOK
  <2>2. i # FALSE
    BY <2>1, NothingForEmptyInfo
  <2> QED
    BY <2>1, <2>2
<1> QED
  BY <1>1, TypeCorrect, PTL
==============================================================================
