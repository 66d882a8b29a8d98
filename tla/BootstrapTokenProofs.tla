------------------------- MODULE BootstrapTokenProofs -------------------------
(***************************************************************************)
(* Proofs about BootstrapToken, for any number of tokens and faults.        *)
(***************************************************************************)
EXTENDS BootstrapToken, TLAPS

BKRec == [owner : BOOLEAN, spec : SUBSET Fields, token : MaybeToken, data : SUBSET Fields]
RecRec == [pc : {"idle", "create", "publish"}, spec : SUBSET Fields, token : MaybeToken]

(* The number of faults stays within its bound. *)
LEMMA FaultType ==
    ASSUME faults \in 0..MaxFaults, NEW k, Fault(k) \/ UNCHANGED faults
    PROVE  faults' \in 0..MaxFaults
  BY FaultAssumption DEF Fault

(* The idle reconcile is of its type. *)
LEMMA IdleType == RecIdle \in RecRec /\ RecIdle.pc = "idle" /\ RecIdle.token = NoToken
  BY DEF RecIdle, RecRec, MaybeToken

(* Types, and that a token in use has been created, are kept by every step. *)
LEMMA TokenStep ==
    ASSUME TypeOK, TokenInv, [Next]_vars
    PROVE  TypeOK' /\ TokenInv'
  <1>0. /\ bk \in BKRec /\ known \in SUBSET Fields /\ queued \in BOOLEAN /\ rec \in RecRec
        /\ secret \in [Tokens -> {"unused", "live", "expired", "cleaned"}]
        /\ boot \in MaybeToken /\ faults \in 0..MaxFaults
    BY DEF TypeOK, BKRec, RecRec
  <1> DEFINE T == /\ bk' \in BKRec /\ known' \in SUBSET Fields /\ queued' \in BOOLEAN /\ rec' \in RecRec
                  /\ secret' \in [Tokens -> {"unused", "live", "expired", "cleaned"}]
                  /\ boot' \in MaybeToken /\ faults' \in 0..MaxFaults
  <1>T. T => TypeOK'
    BY DEF TypeOK, BKRec, RecRec
  <1>B. bk.token \in MaybeToken /\ boot \in MaybeToken /\ rec.token \in MaybeToken
    BY <1>0 DEF BKRec, RecRec
  <1>S. ASSUME bk'.token = bk.token, boot' \in {boot, bk.token},
               rec'.pc = "publish" => rec.pc = "publish" /\ rec'.token = rec.token,
               \A t \in Tokens : secret[t] # "unused" => secret'[t] # "unused"
        PROVE  TokenInv'
    BY <1>B, <1>S DEF TokenInv, Created, MaybeToken
  <1> HIDE DEF T
  <1>1. CASE Start
    <2>1. /\ UNCHANGED <<known, secret, boot>> /\ queued' \in BOOLEAN
          /\ UNCHANGED faults \/ Fault("api")
      BY <1>1 DEF Start, PopulateFails
    <2>2. Populated \in SUBSET Fields
      BY <1>0 DEF Populated, BKRec
    <2>3. \E spec \in SUBSET Fields : bk' \in {bk, [bk EXCEPT !.spec = spec]}
      BY <1>0, <1>1, <2>2 DEF Start, Generate
    <2>4. bk' \in BKRec /\ bk'.token = bk.token
      BY <1>0, <2>3 DEF BKRec
    <2>5. rec' = rec \/ \E spec \in SUBSET Fields : Generate(spec)
      BY <1>0, <1>1, <2>2 DEF Start, BKRec
    <2>6. rec' \in RecRec /\ (rec' = rec \/ (rec'.pc = "create" /\ rec'.token = NoToken))
      BY <1>0, <2>5 DEF Generate, RecRec, MaybeToken
    <2>7. T
      BY <1>0, <2>1, <2>4, <2>6, FaultType DEF T
    <2> QED BY <1>T, <1>S, <2>1, <2>4, <2>6, <2>7
  <1>2. CASE Create
    <2> PICK t \in Tokens :
          \/ /\ secret' = [secret EXCEPT ![t] = "live"]
             /\ rec' = [rec EXCEPT !.pc = "publish", !.token = t]
             /\ UNCHANGED <<queued, faults>>
          \/ /\ Fault("api") /\ Retry
             /\ secret' \in {secret, [secret EXCEPT ![t] = "live"]}
      BY <1>2 DEF Create
    <2>1. UNCHANGED <<bk, known, boot>>
      BY <1>2 DEF Create
    <2>2. /\ secret' \in [Tokens -> {"unused", "live", "expired", "cleaned"}]
          /\ \A s \in Tokens : secret[s] # "unused" => secret'[s] # "unused"
      BY <1>0
    <2>3. CASE Retry /\ Fault("api")
      <3>1. T
        BY <1>0, <2>1, <2>2, <2>3, FaultType, IdleType DEF T, Retry
      <3> QED BY <1>T, <1>S, <2>1, <2>2, <2>3, <3>1, IdleType DEF Retry
    <2>4. CASE /\ secret' = [secret EXCEPT ![t] = "live"]
               /\ rec' = [rec EXCEPT !.pc = "publish", !.token = t]
               /\ UNCHANGED <<queued, faults>>
      <3>1. rec' \in RecRec /\ rec'.token = t
        BY <1>0, <2>4 DEF RecRec, MaybeToken
      <3>2. T
        BY <1>0, <2>1, <2>2, <2>4, <3>1 DEF T
      <3>3. secret'[t] = "live"
        BY <1>0, <2>4
      <3>4. TokenInv'
        BY <1>B, <2>1, <2>2, <3>1, <3>3 DEF TokenInv, Created, MaybeToken
      <3> QED BY <1>T, <3>2, <3>4
    <2> QED BY <2>3, <2>4
  <1>3. CASE Publish
    <2> DEFINE published == [bk EXCEPT !.token = rec.token, !.data = rec.spec]
    <2>1. /\ rec.pc = "publish" /\ Retry /\ bk' \in {bk, published}
          /\ UNCHANGED faults \/ Fault("api")
          /\ UNCHANGED <<known, secret, boot>>
      BY <1>3 DEF Publish
    <2>2. published \in BKRec /\ published.token = rec.token
      BY <1>0 DEF BKRec, RecRec
    <2> HIDE DEF published
    <2>3. T
      BY <1>0, <2>1, <2>2, FaultType, IdleType DEF T, Retry
    <2>4. bk'.token = bk.token \/ bk'.token = rec.token
      BY <2>1, <2>2
    <2>5. TokenInv'
      BY <2>1, <2>4, IdleType DEF Retry, TokenInv, Created
    <2> QED BY <1>T, <2>3, <2>5
  <1>4. CASE ManagerRestarts
    <2>1. T
      BY <1>0, <1>4, FaultType, IdleType DEF ManagerRestarts, T, Retry
    <2> QED BY <1>4, <2>1, <1>T, <1>S, IdleType DEF ManagerRestarts, Retry
  <1>5. CASE Resync
    <2>1. T
      BY <1>0, <1>5 DEF Resync, T
    <2> QED BY <1>5, <2>1, <1>T, <1>S DEF Resync
  <1>6. CASE SetOwner
    <2>1. bk' \in BKRec /\ bk'.token = bk.token
      BY <1>0, <1>6 DEF SetOwner, BKRec
    <2>2. T
      BY <1>0, <1>6, <2>1 DEF SetOwner, T
    <2> QED BY <1>6, <2>1, <2>2, <1>T, <1>S DEF SetOwner
  <1>7. CASE CopyToHost
    <2>1. T
      BY <1>0, <1>7 DEF CopyToHost, Live, T, MaybeToken
    <2> QED BY <1>7, <2>1, <1>T, <1>S DEF CopyToHost
  <1>8. ASSUME NEW f \in Fields, BecomesKnown(f)
        PROVE  TypeOK' /\ TokenInv'
    <2>1. T
      BY <1>0, <1>8 DEF BecomesKnown, T
    <2> QED BY <1>8, <2>1, <1>T, <1>S DEF BecomesKnown
  <1>9. ASSUME NEW t \in Tokens, TokenExpires(t) \/ TokenCleaned(t)
        PROVE  TypeOK' /\ TokenInv'
    <2>1. /\ secret' \in [Tokens -> {"unused", "live", "expired", "cleaned"}]
          /\ \A s \in Tokens : secret[s] # "unused" => secret'[s] # "unused"
      BY <1>0, <1>9 DEF TokenExpires, TokenCleaned
    <2>2. T
      BY <1>0, <1>9, <2>1 DEF TokenExpires, TokenCleaned, T
    <2> QED BY <1>9, <2>1, <2>2, <1>T, <1>S DEF TokenExpires, TokenCleaned
  <1>10. CASE UNCHANGED vars
    <2>1. T
      BY <1>0, <1>10 DEF vars, T
    <2> QED BY <1>10, <2>1, <1>T, <1>S DEF vars
  <1> QED BY <1>1, <1>2, <1>3, <1>4, <1>5, <1>6, <1>7, <1>8, <1>9, <1>10 DEF Next, Step

(* Types, and that a token in use has been created, hold always. *)
THEOREM TokenInvariant == Spec => [](TypeOK /\ TokenInv)
  <1>1. Init => TypeOK /\ TokenInv
    <2> SUFFICES ASSUME Init PROVE TypeOK /\ TokenInv
      OBVIOUS
    <2>1. TypeOK
      BY IdleType, FaultAssumption DEF Init, TypeOK, RecRec, MaybeToken
    <2>2. TokenInv
      BY IdleType, TokenAssumption DEF Init, TokenInv, Created
    <2> QED BY <2>1, <2>2
  <1>2. TypeOK /\ TokenInv /\ [Next]_vars => (TypeOK /\ TokenInv)'
    BY TokenStep
  <1> QED BY <1>1, <1>2, PTL DEF Spec

(* A token that is published, or copied to a host, has a secret behind it. *)
THEOREM PublishedTokenExistsAlways == Spec => []PublishedTokenExists
  <1>1. TypeOK /\ TokenInv => PublishedTokenExists
    BY DEF TypeOK, TokenInv, Created, PublishedTokenExists, MaybeToken
  <1> QED BY <1>1, TokenInvariant, PTL

(* The tokens and the copies of them are of their types, for any number of       *)
(* tokens and faults.                                                           *)
THEOREM TypeCorrect == Spec => []TypeOK
  <1> QED BY TokenInvariant, PTL
==============================================================================
