---------------------------- MODULE BootstrapToken ----------------------------
(***************************************************************************)
(* The BootstrapKubeconfig controller: it fills in the API server and the   *)
(* CA of a BootstrapKubeconfig, creates a bootstrap token as a secret of    *)
(* the management cluster, and publishes a kubeconfig with that token.      *)
(* An administrator copies the kubeconfig to a host.                        *)
(***************************************************************************)
EXTENDS Naturals

CONSTANTS Tokens,         \* bound: bootstrap tokens in use at one time
          NoToken,
          FaultKinds,     \* the faults that may happen
          MaxFaults       \* bound: how many of them

AllFaultKinds == {"api",       \* an API call fails; it may have been applied
                  "manager"}   \* the manager stops and is started again

ASSUME TokenAssumption == NoToken \notin Tokens
ASSUME FaultAssumption == FaultKinds \subseteq AllFaultKinds /\ MaxFaults \in Nat

VARIABLES bk,       \* the BootstrapKubeconfig
          known,    \* what Cluster and original BootstrapKubeconfig provide
          secret,   \* the bootstrap token secrets
          queued,   \* a reconcile is due
          rec,      \* the reconcile in progress
          boot,     \* the token in the kubeconfig copied to the host
          faults

vars == <<bk, known, secret, queued, rec, boot, faults>>

(* Spec.APIServer and Spec.CertificateAuthorityData. *)
Fields == {"server", "ca"}
MaybeToken == Tokens \cup {NoToken}

TypeOK ==
    /\ bk \in [owner : BOOLEAN, spec : SUBSET Fields, token : MaybeToken, data : SUBSET Fields]
    /\ known \in SUBSET Fields
    /\ secret \in [Tokens -> {"unused", "live", "expired", "cleaned"}]
    /\ queued \in BOOLEAN
    /\ rec \in [pc : {"idle", "create", "publish"}, spec : SUBSET Fields, token : MaybeToken]
    /\ boot \in MaybeToken
    /\ faults \in 0..MaxFaults

RecIdle == [pc |-> "idle", spec |-> {}, token |-> NoToken]

(* One that MachineSet has cloned, or one with everything given. *)
Init ==
    /\ \E s \in {{}, Fields} : bk = [owner |-> FALSE, spec |-> s, token |-> NoToken, data |-> {}]
    /\ known = {}
    /\ secret = [t \in Tokens |-> "unused"]
    /\ queued = TRUE
    /\ rec = RecIdle
    /\ boot = NoToken
    /\ faults = 0

Fault(k) == k \in FaultKinds /\ faults < MaxFaults /\ faults' = faults + 1

Live(t) == t \in Tokens /\ secret[t] = "live"

-----------------------------------------------------------------------------
(* populateFromOriginal saves what is known; it fails without an owner, and  *)
(* when a call fails, perhaps after the copy in memory was filled in or even *)
(* saved.                                                                    *)
Populated == bk.spec \cup known

PopulateFails(spec) ==
    \/ ~bk.owner /\ spec = bk.spec /\ UNCHANGED faults
    \/ bk.owner /\ spec \in {bk.spec, Populated} /\ Fault("api")

(* Reconcile up to the new token.  A failed populateFromOriginal ends it only *)
(* when there is no data yet.                                                 *)
Generate(spec) == rec' = [pc |-> "create", spec |-> spec, token |-> NoToken]

(* Faulty variant: it stops when there is data. *)
StartOnce ==
    /\ rec.pc = "idle" /\ queued /\ bk.token = NoToken
    /\ queued' = (bk.owner /\ Populated # bk.spec)
    /\ bk' = [bk EXCEPT !.spec = IF bk.owner THEN Populated ELSE @]
    /\ IF bk.owner \/ bk.spec = Fields THEN Generate(bk'.spec) ELSE UNCHANGED rec
    /\ UNCHANGED <<known, secret, boot, faults>>

Start ==
    /\ rec.pc = "idle" /\ queued
    /\ \/ bk.spec = Fields /\ bk.token = NoToken
          /\ Generate(bk.spec) /\ queued' = FALSE /\ UNCHANGED <<bk, faults>>
       \/ (bk.spec # Fields \/ bk.token # NoToken) /\ bk.owner
          /\ bk' = [bk EXCEPT !.spec = Populated]
          /\ Generate(Populated) /\ queued' = (Populated # bk.spec) /\ UNCHANGED faults
       \/ (bk.spec # Fields \/ bk.token # NoToken)
          /\ \E spec \in SUBSET Fields :
                /\ PopulateFails(spec)
                /\ bk' \in {bk, [bk EXCEPT !.spec = spec]}
                /\ IF bk.token = NoToken THEN UNCHANGED rec ELSE Generate(spec)
          /\ queued' = (bk' # bk)
    /\ UNCHANGED <<known, secret, boot>>

(* A token nobody uses or has used. *)
Fresh(t) == secret[t] \in {"unused", "cleaned"} /\ t \notin {bk.token, rec.token, boot}

(* Faulty variant: an error is waited for in a state of its own. *)
RetryLater == rec' = [rec EXCEPT !.pc = "retry"] /\ queued' = TRUE

(* Reconcile returns an error, or has changed the object itself. *)
Retry == rec' = RecIdle /\ queued' = TRUE

(* Faulty variant: the error of Create is ignored. *)
CreateUnchecked ==
    /\ rec.pc = "create"
    /\ \E t \in Tokens :
          /\ Fresh(t)
          /\ rec' = [rec EXCEPT !.pc = "publish", !.token = t]
          /\ \/ secret' = [secret EXCEPT ![t] = "live"] /\ UNCHANGED faults
             \/ Fault("api") /\ UNCHANGED secret
    /\ UNCHANGED <<bk, known, boot, queued>>

Create ==
    /\ rec.pc = "create"
    /\ \E t \in Tokens :
          /\ Fresh(t)
          /\ \/ /\ secret' = [secret EXCEPT ![t] = "live"]
                /\ rec' = [rec EXCEPT !.pc = "publish", !.token = t]
                /\ UNCHANGED <<queued, faults>>
             \/ /\ Fault("api") /\ Retry
                /\ secret' \in {secret, [secret EXCEPT ![t] = "live"]}
    /\ UNCHANGED <<bk, known, boot>>

(* The patch of the status.  Its own change brings the next reconcile. *)
Publish ==
    /\ rec.pc = "publish"
    /\ Retry
    /\ LET published == [bk EXCEPT !.token = rec.token, !.data = rec.spec]
       IN \/ bk' = published /\ UNCHANGED faults
          \/ bk' \in {bk, published} /\ Fault("api")
    /\ UNCHANGED <<known, secret, boot>>

-----------------------------------------------------------------------------
(* Environment *)

ManagerRestarts ==
    /\ Fault("manager") /\ rec.pc # "idle"
    /\ Retry
    /\ UNCHANGED <<bk, known, secret, boot>>

(* The informer's periodic resync. *)
Resync ==
    /\ ~queued /\ queued' = TRUE
    /\ UNCHANGED <<bk, known, secret, rec, boot, faults>>

SetOwner ==
    /\ ~bk.owner /\ bk' = [bk EXCEPT !.owner = TRUE]
    /\ queued' = TRUE
    /\ UNCHANGED <<known, secret, rec, boot, faults>>

(* The Cluster gets its endpoint, the original BootstrapKubeconfig its CA:  *)
(* neither is watched.                                                      *)
BecomesKnown(f) ==
    /\ f \notin known /\ known' = known \cup {f}
    /\ UNCHANGED <<bk, secret, queued, rec, boot, faults>>

TokenExpires(t) ==
    /\ secret[t] = "live" /\ secret' = [secret EXCEPT ![t] = "expired"]
    /\ UNCHANGED <<bk, known, queued, rec, boot, faults>>

(* The token cleaner of the management cluster. *)
TokenCleaned(t) ==
    /\ secret[t] = "expired" /\ secret' = [secret EXCEPT ![t] = "cleaned"]
    /\ UNCHANGED <<bk, known, queued, rec, boot, faults>>

CopyToHost ==
    /\ Live(bk.token) /\ bk.data = Fields /\ ~Live(boot)
    /\ boot' = bk.token
    /\ UNCHANGED <<bk, known, secret, queued, rec, faults>>

Step == Start \/ Create \/ Publish

Next ==
    \/ Step \/ ManagerRestarts \/ Resync \/ SetOwner \/ CopyToHost
    \/ \E f \in Fields : BecomesKnown(f)
    \/ \E t \in Tokens : TokenExpires(t) \/ TokenCleaned(t)

Spec == Init /\ [][Next]_vars

(* The controller works its queue, informers resync, a token has a TTL of      *)
(* thirty minutes and is cleaned up after it.                                  *)
Fairness ==
    /\ WF_vars(Step) /\ WF_vars(Resync)
    /\ \A t \in Tokens : WF_vars(TokenExpires(t)) /\ WF_vars(TokenCleaned(t))

FairSpec == Spec /\ Fairness

-----------------------------------------------------------------------------
(* A token is published after its secret exists (Create, then the status      *)
(* patch), so whoever gets one can authenticate until it expires, also when   *)
(* calls fail and the manager stops between the two (91-129).                 *)
PublishedTokenExists ==
    \A t \in {bk.token, boot} \ {NoToken} : secret[t] # "unused"

(* Why: the token of a reconcile about to publish has been created. *)
Created(t) == t # NoToken => secret[t] # "unused"

TokenInv ==
    /\ Created(bk.token) /\ Created(boot)
    /\ rec.pc = "publish" => Created(rec.token)

(* What Cluster and original provide reaches the published kubeconfig although *)
(* neither is watched (59-78): the reconcile that found data once must not be  *)
(* the last one.                                                               *)
DataCatchesUp ==
    \A f \in Fields : (f \in known /\ bk.owner) ~> f \in bk.data
==============================================================================
