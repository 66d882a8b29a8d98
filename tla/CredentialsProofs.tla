-------------------------- MODULE CredentialsProofs --------------------------
(***************************************************************************)
(* Proofs about Credentials, for any number of keys, requests, certificates *)
(* and faults.                                                              *)
(***************************************************************************)
EXTENDS Credentials, TLAPS

CSRRec == [state : {"none", "pending", "approved", "issued", "denied"},
           uid : MaybeUID, key : MaybeKey, cert : 0..MaxCerts]
CertRec == [key : MaybeKey, age : {"unissued", "valid", "due", "expired"}]
ConfigRec == [state : {"none", "torn", "whole"}, key : MaybeKey, cert : 0..MaxCerts]
DiskRec == [key : MaybeKey, rotation : BOOLEAN, config : ConfigRec]
AgentRec == [pc : {"down", "run"} \cup Flow, rotating : BOOLEAN, key : MaybeKey,
             uid : MaybeUID, cert : 0..MaxCerts, mem : 0..MaxCerts]

(* The constants of the records are of their types. *)
LEMMA ConstantTypes ==
    /\ NoCSR \in CSRRec /\ NoCSR.state = "none" /\ NoCSR.uid = NoUID
    /\ Down \in AgentRec /\ Down.pc = "down"
    /\ NoConfig \in ConfigRec /\ NoConfig.state = "none"
    /\ 0 \in 0..MaxCerts
  BY BoundAssumption
     DEF NoCSR, CSRRec, Down, AgentRec, NoConfig, ConfigRec, MaybeKey, MaybeUID

(* The number of faults stays within its bound. *)
LEMMA FaultType ==
    ASSUME faults \in 0..MaxFaults, NEW k, Fault(k) \/ UNCHANGED faults
    PROVE  faults' \in 0..MaxFaults
  BY BoundAssumption DEF Fault

(* A choice of a new key or request is one of those offered. *)
LEMMA NewInSet == ASSUME NEW S, NEW x \in New(S) PROVE x \in S
  <1>1. S # {} /\ x = CHOOSE y \in S : TRUE
    BY DEF New
  <1> QED BY <1>1

(* Where the bootstrap flow returns to. *)
LEMMA ReturnedType ==
    ASSUME TypeOK, NEW failed \in BOOLEAN
    PROVE  Returned(failed) \in AgentRec /\ Returned(failed).pc \in {"run", "down"}
  <1>1. agent \in AgentRec /\ disk.config.cert \in 0..MaxCerts
    BY DEF TypeOK, AgentRec
  <1>2. [agent EXCEPT !.pc = "run", !.rotating = FALSE, !.key = NoKey, !.uid = NoUID, !.cert = 0]
            \in AgentRec
    BY <1>1, ConstantTypes DEF AgentRec, MaybeKey, MaybeUID
  <1>3. /\ [Down EXCEPT !.pc = "run", !.mem = disk.config.cert] \in AgentRec
        /\ [Down EXCEPT !.pc = "run", !.mem = disk.config.cert].pc = "run"
    BY <1>1, ConstantTypes DEF AgentRec, Down
  <1>4. [agent EXCEPT !.pc = "run", !.rotating = FALSE, !.key = NoKey, !.uid = NoUID, !.cert = 0].pc = "run"
    BY <1>1 DEF AgentRec
  <1> QED BY <1>2, <1>3, <1>4, ConstantTypes DEF Returned

(* Types and key discipline are kept by every step. *)
LEMMA KeyStep ==
    ASSUME TypeOK, KeyInv, [Next]_vars
    PROVE  TypeOK' /\ KeyInv'
  <1>0. /\ boot \in {"none", "live", "expired"} /\ csr \in CSRRec /\ cert \in [Certs -> CertRec]
        /\ disk \in DiskRec /\ disk.config \in ConfigRec /\ agent \in AgentRec
        /\ adm \in MaybeUID /\ faults \in 0..MaxFaults
    BY DEF TypeOK, CSRRec, CertRec, DiskRec, ConfigRec, AgentRec
  <1> DEFINE T == /\ boot' \in {"none", "live", "expired"} /\ csr' \in CSRRec /\ cert' \in [Certs -> CertRec]
                  /\ disk' \in DiskRec /\ agent' \in AgentRec
                  /\ adm' \in MaybeUID /\ faults' \in 0..MaxFaults
  <1>T. T => TypeOK'
    BY DEF TypeOK, CSRRec, CertRec, DiskRec, ConfigRec, AgentRec
  <1> HIDE DEF T
  <1>1. CASE AdmissionGet
    <2>1. T
      BY <1>0, <1>1 DEF T, AdmissionGet, CSRRec
    <2> QED BY <2>1, <1>T, <1>1 DEF AdmissionGet, KeyInv, Issued
  <1>2. CASE AdmissionApprove
    <2>1. [csr EXCEPT !.state = "approved"] \in CSRRec
      BY <1>0 DEF CSRRec
    <2>2. csr' = csr \/ (csr' = [csr EXCEPT !.state = "approved"] /\ csr.state = "pending")
      BY <1>2 DEF AdmissionApprove
    <2>3. adm' = NoUID /\ UNCHANGED <<boot, cert, disk, agent>> /\ (UNCHANGED faults \/ Fault("api"))
      BY <1>2 DEF AdmissionApprove
    <2>4. T
      BY <1>0, <2>1, <2>2, <2>3, FaultType DEF T, MaybeUID
    <2>5. KeyInv'
      BY <1>0, <2>2, <2>3 DEF KeyInv, Issued, CSRRec
    <2> QED BY <2>4, <2>5, <1>T
  <1>3. CASE AgentStarts
    <2>1. /\ agent' = [Down EXCEPT !.pc = "key"]
             \/ agent' = [Down EXCEPT !.pc = "run", !.mem = disk.config.cert]
          /\ UNCHANGED <<boot, csr, cert, disk, adm, faults>>
      BY <1>3 DEF AgentStarts
    <2>2. agent' \in AgentRec /\ agent'.pc \in {"key", "run"}
      <3>1. disk.config.cert \in 0..MaxCerts /\ Down \in AgentRec
        BY <1>0, ConstantTypes DEF ConfigRec
      <3>2. CASE agent' = [Down EXCEPT !.pc = "key"]
        BY <3>1, <3>2 DEF AgentRec, Flow
      <3>3. CASE agent' = [Down EXCEPT !.pc = "run", !.mem = disk.config.cert]
        BY <3>1, <3>3 DEF AgentRec
      <3> QED BY <2>1, <3>2, <3>3
    <2>3. T
      BY <1>0, <2>1, <2>2 DEF T
    <2>4. KeyInv'
      BY <2>1, <2>2 DEF KeyInv, Issued
    <2> QED BY <2>3, <2>4, <1>T
  <1>4. CASE Rotate
    <2>1. agent' \in AgentRec /\ agent'.pc = "key"
      BY <1>0, <1>4 DEF Rotate, AgentRec, Flow
    <2>2. UNCHANGED <<boot, csr, cert, disk, adm, faults>>
      BY <1>4 DEF Rotate
    <2>3. T
      BY <1>0, <2>1, <2>2 DEF T
    <2>4. KeyInv'
      BY <2>1, <2>2 DEF KeyInv, Issued
    <2> QED BY <2>3, <2>4, <1>T
  <1>5. CASE LoadKey
    <2> PICK k \in IF disk.key # NoKey THEN {disk.key} ELSE New(Keys \ KeyInUse) :
             /\ disk' = [disk EXCEPT !.key = k]
             /\ agent' = [agent EXCEPT !.pc = "request", !.key = k]
      BY <1>5 DEF LoadKey
    <2>1. k \in MaybeKey
      <3>1. CASE disk.key # NoKey
        BY <1>0, <3>1 DEF DiskRec
      <3>2. CASE disk.key = NoKey
        BY <3>2, NewInSet DEF MaybeKey
      <3> QED BY <3>1, <3>2
    <2>2. /\ agent' \in AgentRec /\ agent'.pc = "request"
          /\ disk' \in DiskRec /\ disk'.config = disk.config
      BY <1>0, <2>1 DEF AgentRec, DiskRec, Flow
    <2>3. UNCHANGED <<boot, csr, cert, adm, faults>>
      BY <1>5 DEF LoadKey
    <2>4. T
      BY <1>0, <2>2, <2>3 DEF T
    <2>5. KeyInv'
      BY <2>2, <2>3 DEF KeyInv, Issued
    <2> QED BY <2>4, <2>5, <1>T
  <1>6. CASE Request
    <2>1. agent.pc = "request" /\ UNCHANGED <<boot, cert, disk, adm>>
      BY <1>6 DEF Request
    <2>2. faults' \in 0..MaxFaults
      BY <1>0, <1>6, FaultType DEF Request
    <2>3. CASE agent' = Returned(TRUE) /\ UNCHANGED csr
      <3>1. agent' \in AgentRec /\ agent'.pc \in {"run", "down"}
        BY <2>3, ReturnedType
      <3>2. T
        BY <1>0, <2>1, <2>2, <2>3, <3>1 DEF T
      <3>3. KeyInv'
        BY <2>1, <2>3, <3>1 DEF KeyInv, Issued
      <3> QED BY <3>2, <3>3, <1>T
    <2>4. CASE /\ csr.state # "none" /\ Compatible /\ UNCHANGED csr
               /\ agent' = [agent EXCEPT !.pc = "wait", !.uid = csr.uid]
      <3>1. agent' \in AgentRec /\ agent'.pc = "wait" /\ agent'.uid = csr.uid /\ agent'.key = agent.key
        BY <1>0, <2>4 DEF AgentRec, CSRRec, Flow
      <3>2. T
        BY <1>0, <2>1, <2>2, <2>4, <3>1 DEF T
      <3>3. csr.uid \in UIDs
        BY <2>4 DEF KeyInv
      <3>4. KeyInv'
        BY <2>1, <2>4, <3>1, <3>3 DEF KeyInv, Issued, Compatible
      <3> QED BY <3>2, <3>4, <1>T
    <2>5. ASSUME NEW u \in New(UIDs \ {adm}), csr' = Create(u),
                 agent' = [agent EXCEPT !.pc = "wait", !.uid = u] \/ agent' = Returned(TRUE)
          PROVE  TypeOK' /\ KeyInv'
      <3>1. u \in UIDs
        BY NewInSet
      <3>2. csr' \in CSRRec /\ csr'.state = "pending" /\ csr'.uid = u /\ csr'.key = agent.key
        BY <1>0, <2>5, <3>1, ConstantTypes DEF Create, CSRRec, AgentRec, MaybeUID
      <3>3. /\ agent' \in AgentRec
            /\ \/ agent'.pc = "wait" /\ agent'.uid = u /\ agent'.key = agent.key
               \/ agent'.pc \in {"run", "down"}
        <4>1. CASE agent' = [agent EXCEPT !.pc = "wait", !.uid = u]
          BY <1>0, <3>1, <4>1 DEF AgentRec, MaybeUID, Flow
        <4>2. CASE agent' = Returned(TRUE)
          BY <4>2, ReturnedType
        <4> QED BY <2>5, <4>1, <4>2
      <3>4. T
        BY <1>0, <2>1, <2>2, <3>2, <3>3 DEF T
      <3>5. KeyInv'
        BY <2>1, <3>1, <3>2, <3>3 DEF KeyInv, Issued
      <3> QED BY <3>4, <3>5, <1>T
    <2>6. \/ agent' = Returned(TRUE) /\ UNCHANGED csr
          \/ /\ csr.state # "none" /\ Compatible /\ UNCHANGED csr
             /\ agent' = [agent EXCEPT !.pc = "wait", !.uid = csr.uid]
          \/ \E u \in New(UIDs \ {adm}) :
                /\ csr' = Create(u)
                /\ agent' = [agent EXCEPT !.pc = "wait", !.uid = u] \/ agent' = Returned(TRUE)
      BY <1>6 DEF Request
    <2> QED BY <2>3, <2>4, <2>5, <2>6
  <1>7. CASE Wait
    <2>1. UNCHANGED <<boot, csr, cert, disk, adm, faults>>
      BY <1>7 DEF Wait
    <2>2. CASE /\ csr.uid = agent.uid /\ csr.state = "issued"
               /\ agent' = [agent EXCEPT !.pc = "write", !.cert = csr.cert]
      <3>1. /\ agent' \in AgentRec /\ agent'.pc = "write" /\ agent'.cert = csr.cert
            /\ agent'.key = agent.key
        BY <1>0, <2>2 DEF AgentRec, CSRRec, Flow
      <3>2. T
        BY <1>0, <2>1, <3>1 DEF T
      <3>3. csr.key = agent.key /\ Issued(csr.cert, csr.key)
        BY <1>7, <2>2 DEF KeyInv, Wait
      <3>4. KeyInv'
        BY <2>1, <3>1, <3>3 DEF KeyInv, Issued
      <3> QED BY <3>2, <3>4, <1>T
    <2>3. CASE agent' = Returned(TRUE)
      <3>1. agent' \in AgentRec /\ agent'.pc \in {"run", "down"}
        BY <2>3, ReturnedType
      <3>2. T
        BY <1>0, <2>1, <3>1 DEF T
      <3>3. KeyInv'
        BY <2>1, <3>1 DEF KeyInv, Issued
      <3> QED BY <3>2, <3>3, <1>T
    <2> QED BY <1>7, <2>2, <2>3 DEF Wait
  <1>8. CASE WriteConfig
    <2> DEFINE c == [state |-> "whole", key |-> agent.key, cert |-> agent.cert]
    <2>1. /\ agent.pc = "write" /\ UNCHANGED <<boot, csr, cert, adm, faults>>
          /\ disk' = [disk EXCEPT !.config = c] /\ agent' = [agent EXCEPT !.pc = "clean"]
      BY <1>8 DEF WriteConfig
    <2>2. c \in ConfigRec /\ c.key = agent.key /\ c.cert = agent.cert
      BY <1>0 DEF ConfigRec, AgentRec
    <2> HIDE DEF c
    <2>3. disk' \in DiskRec /\ disk'.config = c /\ agent' \in AgentRec /\ agent'.pc = "clean"
      BY <1>0, <2>1, <2>2 DEF DiskRec, AgentRec, Flow
    <2>4. T
      BY <1>0, <2>1, <2>3 DEF T
    <2>5. KeyInv'
      BY <2>1, <2>2, <2>3 DEF KeyInv, Issued
    <2> QED BY <2>4, <2>5, <1>T
  <1>9. CASE Clean
    <2>1. UNCHANGED <<boot, csr, cert, adm, faults>>
      BY <1>9 DEF Clean
    <2>2. agent' \in AgentRec /\ agent'.pc \in {"run", "down"}
      BY <1>9, ReturnedType DEF Clean
    <2>3. disk' \in DiskRec /\ disk'.config = disk.config
      BY <1>0, <1>9 DEF Clean, DiskRec, MaybeKey
    <2>4. T
      BY <1>0, <2>1, <2>2, <2>3 DEF T
    <2>5. KeyInv'
      BY <2>1, <2>2, <2>3 DEF KeyInv, Issued
    <2> QED BY <2>4, <2>5, <1>T
  <1>10. CASE AgentStops
    <2>1. /\ agent' = Down /\ UNCHANGED <<boot, csr, cert, adm>>
          /\ Fault("agent") \/ Fault("torn")
          /\ disk' = disk \/ disk' = [disk EXCEPT !.config = [NoConfig EXCEPT !.state = "torn"]]
      BY <1>10 DEF AgentStops
    <2>2. faults' \in 0..MaxFaults
      BY <1>0, <2>1, FaultType
    <2>3. [NoConfig EXCEPT !.state = "torn"] \in ConfigRec /\ [NoConfig EXCEPT !.state = "torn"].state = "torn"
      BY ConstantTypes DEF ConfigRec
    <2>4. disk' \in DiskRec /\ (disk'.config = disk.config \/ disk'.config.state = "torn")
      BY <1>0, <2>1, <2>3 DEF DiskRec
    <2>5. T
      BY <1>0, <2>1, <2>2, <2>4, ConstantTypes DEF T
    <2>6. KeyInv'
      BY <2>1, <2>4, ConstantTypes DEF KeyInv, Issued
    <2> QED BY <2>5, <2>6, <1>T
  <1>11. CASE WatcherRestarts
    <2>1. agent' = Down /\ UNCHANGED <<boot, csr, cert, disk, adm, faults>>
      BY <1>11 DEF WatcherRestarts
    <2>2. T
      BY <1>0, <2>1, ConstantTypes DEF T
    <2>3. KeyInv'
      BY <2>1, ConstantTypes DEF KeyInv, Issued
    <2> QED BY <2>2, <2>3, <1>T
  <1>12. CASE Moved
    <2>1. /\ disk' \in DiskRec /\ disk'.config = disk.config
          /\ Fault("moved") /\ UNCHANGED <<boot, csr, cert, agent, adm>>
      BY <1>0, <1>12 DEF Moved, DiskRec, MaybeKey
    <2>2. T
      BY <1>0, <2>1, FaultType DEF T
    <2>3. KeyInv'
      BY <2>1 DEF KeyInv, Issued
    <2> QED BY <2>2, <2>3, <1>T
  <1>13. CASE AdminDecides
    <2>1. /\ csr.state = "pending" /\ UNCHANGED <<boot, cert, disk, agent, adm>>
          /\ UNCHANGED faults \/ Fault("deny")
          /\ \/ csr' = [csr EXCEPT !.state = "approved"]
             \/ csr' = [csr EXCEPT !.state = "denied"]
      BY <1>13 DEF AdminDecides
    <2>2. /\ csr' \in CSRRec /\ csr'.uid = csr.uid /\ csr'.key = csr.key
          /\ csr'.state \in {"approved", "denied"}
      BY <1>0, <2>1 DEF CSRRec
    <2>3. T
      BY <1>0, <2>1, <2>2, FaultType DEF T
    <2>4. KeyInv'
      BY <2>1, <2>2 DEF KeyInv, Issued
    <2> QED BY <2>3, <2>4, <1>T
  <1>14. CASE AdminDeletes \/ CSRCleaned
    <2>1. /\ csr' = NoCSR /\ UNCHANGED <<boot, cert, disk, agent, adm>>
          /\ UNCHANGED faults \/ Fault("delete")
      BY <1>14 DEF AdminDeletes, CSRCleaned
    <2>2. T
      BY <1>0, <2>1, FaultType, ConstantTypes DEF T
    <2>3. KeyInv'
      BY <2>1, ConstantTypes, NullAssumption DEF KeyInv, Issued
    <2> QED BY <2>2, <2>3, <1>T
  <1>15. CASE Sign
    <2> PICK c \in Certs : /\ cert[c].age = "unissued"
                           /\ cert' = [cert EXCEPT ![c] = [key |-> csr.key, age |-> "valid"]]
                           /\ csr' = [csr EXCEPT !.state = "issued", !.cert = c]
      BY <1>15 DEF Sign
    <2>1. csr.state = "approved" /\ UNCHANGED <<boot, disk, agent, adm, faults>>
      BY <1>15 DEF Sign
    <2>2. [key |-> csr.key, age |-> "valid"] \in CertRec
      BY <1>0 DEF CertRec, CSRRec
    <2>3. cert' \in [Certs -> CertRec] /\ cert'[c].key = csr.key /\ cert'[c].age = "valid"
      BY <1>0, <2>2
    <2>4. /\ csr' \in CSRRec /\ csr'.state = "issued" /\ csr'.cert = c
          /\ csr'.key = csr.key /\ csr'.uid = csr.uid
      <3>1. c \in 0..MaxCerts
        BY BoundAssumption DEF Certs
      <3>2. csr' = [csr EXCEPT !.state = "issued", !.cert = c] /\ csr \in CSRRec
        BY <1>0
      <3> QED BY <3>1, <3>2 DEF CSRRec
    <2>5. T
      BY <1>0, <2>1, <2>3, <2>4 DEF T
    <2>6. \A d, k : Issued(d, k) => d # c /\ cert'[d] = cert[d]
      BY <1>0 DEF Issued
    <2>7. Issued(c, csr.key)' /\ \A d, k : Issued(d, k) => d \in Certs /\ cert'[d].age # "unissued" /\ cert'[d].key = k
      BY <2>3, <2>4, <2>6 DEF Issued
    <2>8. KeyInv'
      BY <2>1, <2>3, <2>4, <2>7 DEF KeyInv, Issued
    <2> QED BY <2>5, <2>8, <1>T
  <1>16. ASSUME NEW c \in Certs, Ages(c)
         PROVE  TypeOK' /\ KeyInv'
    <2>1. /\ cert[c].age \in {"valid", "due"} /\ UNCHANGED <<boot, csr, disk, agent, adm, faults>>
          /\ cert' = [cert EXCEPT ![c].age = IF cert[c].age = "valid" THEN "due" ELSE "expired"]
      BY <1>16 DEF Ages
    <2>2. /\ cert' \in [Certs -> CertRec]
          /\ \A d \in Certs : cert'[d].key = cert[d].key /\ (cert[d].age # "unissued" => cert'[d].age # "unissued")
      <3> DEFINE x == IF cert[c].age = "valid" THEN "due" ELSE "expired"
      <3>1. x \in {"due", "expired"}
        OBVIOUS
      <3>2. cert' = [cert EXCEPT ![c].age = x]
        BY <2>1
      <3> HIDE DEF x
      <3>3. [cert[c] EXCEPT !.age = x] \in CertRec
        BY <1>0, <3>1 DEF CertRec
      <3> QED BY <1>0, <3>1, <3>2, <3>3 DEF CertRec
    <2>3. T
      BY <1>0, <2>1, <2>2 DEF T
    <2>4. KeyInv'
      BY <2>1, <2>2 DEF KeyInv, Issued
    <2> QED BY <2>3, <2>4, <1>T
  <1>17. CASE TokenProvided \/ TokenExpires \/ UNCHANGED vars
    <2>1. boot' \in {"none", "live", "expired"} /\ UNCHANGED <<csr, cert, disk, agent, adm, faults>>
      BY <1>0, <1>17 DEF TokenProvided, TokenExpires, vars
    <2>2. T
      BY <1>0, <2>1 DEF T
    <2>3. KeyInv'
      BY <2>1 DEF KeyInv, Issued
    <2> QED BY <2>2, <2>3, <1>T
  <1> QED
    BY <1>1, <1>2, <1>3, <1>4, <1>5, <1>6, <1>7, <1>8, <1>9, <1>10, <1>11, <1>12, <1>13, <1>14,
       <1>15, <1>16, <1>17 DEF Next, AgentFlow

(* Types and key discipline hold in every reachable state. *)
THEOREM KeyInvariant == Spec => [](TypeOK /\ KeyInv)
  <1>1. Init => TypeOK /\ KeyInv
    <2> SUFFICES ASSUME Init PROVE TypeOK /\ KeyInv
      OBVIOUS
    <2>1. TypeOK
      BY ConstantTypes, BoundAssumption
         DEF Init, TypeOK, CSRRec, ConfigRec, AgentRec, MaybeUID, MaybeKey
    <2>2. KeyInv
      BY ConstantTypes DEF Init, KeyInv, Issued
    <2> QED BY <2>1, <2>2
  <1>2. TypeOK /\ KeyInv /\ [Next]_vars => (TypeOK /\ KeyInv)'
    BY KeyStep
  <1> QED BY <1>1, <1>2, PTL DEF Spec

(* The kubeconfig on the host always holds the key its certificate was issued *)
(* for, however bootstrap and rotation were interrupted.                      *)
THEOREM ConfigUsableAlways == Spec => []ConfigUsable
  <1>1. TypeOK /\ KeyInv => ConfigUsable
    BY DEF KeyInv, Issued, ConfigUsable
  <1> QED BY <1>1, KeyInvariant, PTL

(* No step turns a denied request into an approved one. *)
THEOREM DenialStandsAlways == Spec => DenialStands
  <1>1. ASSUME TypeOK, KeyInv, [Next]_vars, csr.state = "denied", csr'.uid = csr.uid
        PROVE  csr'.state = "denied"
    <2>1. csr \in CSRRec
      BY <1>1 DEF TypeOK, CSRRec
    <2>2. csr' # NoCSR
      BY <1>1, ConstantTypes, NullAssumption DEF KeyInv
    <2>3. csr' = csr
      BY <1>1, <2>2 DEF Next, AgentFlow, vars, AdmissionGet, AdmissionApprove, AgentStarts, Rotate,
                        LoadKey, Request, Wait, WriteConfig, Clean, AgentStops, WatcherRestarts, Moved,
                        AdminDecides, AdminDeletes, Sign, CSRCleaned, TokenProvided, TokenExpires, Ages
    <2> QED BY <1>1, <2>3
  <1> QED BY <1>1, KeyInvariant, PTL DEF Spec, DenialStands

(* The kubeconfig, the request and the certificates are of their types, for any  *)
(* number of keys, requests and certificates.                                   *)
THEOREM TypeCorrect == Spec => []TypeOK
  <1> QED BY KeyInvariant, PTL
==============================================================================
