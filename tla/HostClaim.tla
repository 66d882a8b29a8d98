------------------------------ MODULE HostClaim ------------------------------
(***************************************************************************)
(* How attachByoHost claims a host when its reads are stale and another     *)
(* manager is at work: the lease annotation with its expiry, the informer   *)
(* cache every read goes to, the resource version only the lease's Update   *)
(* checks, and the calls of the claim that check nothing.                   *)
(*                                                                          *)
(* Several managers are active while the leader changes, or when leader     *)
(* election is off (main.go 59).  Each runs one reconcile at a time.        *)
(* A resource version is a flag here: a copy is current until somebody      *)
(* writes the object.                                                       *)
(***************************************************************************)
EXTENDS Naturals, FiniteSets

CONSTANTS Managers, Machines, Hosts, NoMachine, NoHost,
          TLSMachines,    \* the machines that join in TLS bootstrap mode
          MaxRetries,     \* tries of the claim loop (5 in the code)
          FaultKinds,     \* the faults that may happen
          MaxFaults       \* bound: how many of them

AllFaultKinds == {"api",     \* an API call fails; it may have been applied
                  "crash",   \* a manager stops and is started again
                  "stall"}   \* a claim takes longer than its lease lasts

ASSUME NullAssumption == NoMachine \notin Machines /\ NoHost \notin Hosts
ASSUME ModeAssumption == TLSMachines \subseteq Machines
ASSUME BoundAssumption == MaxRetries \in Nat \ {0} /\ MaxFaults \in Nat
ASSUME FaultAssumption == FaultKinds \subseteq AllFaultKinds

VARIABLES api,        \* the ByoHost objects
          cache,      \* each manager's informer cache of them
          work,       \* each manager's attachByoHost in progress
          attached,   \* the hosts attachByoHost has returned for a machine
          secret,     \* the machines whose TLS bootstrap secret exists
          faults

vars == <<api, cache, work, attached, secret, faults>>

MaybeMachine == Machines \cup {NoMachine}

(* What attachByoHost reads of a ByoHost: MachineRef, the labels of a claim, *)
(* the lease annotation.                                                     *)
HostObj == [ref : MaybeMachine, label : MaybeMachine, lease : {"none", "live", "expired"}]

FreeHost == [ref |-> NoMachine, label |-> NoMachine, lease |-> "none"]

CacheRec == [obj : HostObj, current : BOOLEAN]

Holding == {"leased", "meta", "status", "release"}

WorkRec == [pc     : {"idle", "select"} \cup Holding,
            m      : MaybeMachine,
            list   : SUBSET Hosts,        \* the hosts listed and available
            tries  : 0..MaxRetries,       \* tries that have failed
            h      : Hosts \cup {NoHost},
            copy   : HostObj,             \* latestHost
            failed : BOOLEAN]             \* a call of the claim has failed

Idle == [pc |-> "idle", m |-> NoMachine, list |-> {}, tries |-> 0, h |-> NoHost,
         copy |-> FreeHost, failed |-> FALSE]

TypeOK ==
    /\ api \in [Hosts -> HostObj]
    /\ cache \in [Managers -> [Hosts -> CacheRec]]
    /\ work \in [Managers -> WorkRec]
    /\ attached \in [Machines -> SUBSET Hosts]
    /\ secret \subseteq TLSMachines
    /\ faults \in 0..MaxFaults

Init ==
    /\ api = [h \in Hosts |-> FreeHost]
    /\ cache = [w \in Managers |-> [h \in Hosts |-> [obj |-> FreeHost, current |-> TRUE]]]
    /\ work = [w \in Managers |-> Idle]
    /\ attached = [m \in Machines |-> {}]
    /\ secret = {}
    /\ faults = 0

Fault(k) == k \in FaultKinds /\ faults < MaxFaults /\ faults' = faults + 1

(* A write of host h: every cached copy of it falls behind. *)
Write(h, obj) ==
    /\ api' = [api EXCEPT ![h] = obj]
    /\ cache' = [w \in Managers |-> [cache[w] EXCEPT ![h].current = @ /\ obj = api[h]]]

(* An API call that writes obj, or fails; a failed call may have been applied. *)
Called(h, obj) == Write(h, obj) /\ UNCHANGED faults

CallFailed(h, obj) ==
    /\ Fault("api")
    /\ Write(h, obj) \/ UNCHANGED <<api, cache>>

-----------------------------------------------------------------------------
(* The hosts FetchAttachedByoHost and attachByoHost find in the cache. *)
CachedFor(w, m) == {h \in Hosts : cache[w][h].obj.label = m}
CachedFree(w) == {h \in Hosts : cache[w][h].obj.label = NoMachine /\ cache[w][h].obj.ref = NoMachine}

(* reconcileNormal finds no host attached and attachByoHost lists some. *)
List(w, m) ==
    /\ work[w].pc = "idle"
    /\ CachedFor(w, m) = {} /\ CachedFree(w) # {}
    /\ work' = [work EXCEPT ![w] = [Idle EXCEPT !.pc = "select", !.m = m, !.list = CachedFree(w)]]
    /\ UNCHANGED <<api, cache, attached, secret, faults>>

(* The loop goes on to its next try. *)
Missed(w) == [work[w] EXCEPT !.pc = "select", !.tries = @ + 1, !.h = NoHost,
                             !.copy = FreeHost, !.failed = FALSE]

(* Faulty variants: the Update that takes the lease does not check the      *)
(* resource version; an expired lease counts as held.                       *)
AcquirableUnversioned(w, h) ==
    cache[w][h].obj.ref = NoMachine /\ cache[w][h].obj.lease # "live"

AcquirableOnce(w, h) ==
    cache[w][h].current /\ cache[w][h].obj.ref = NoMachine /\ api[h].lease = "none"

(* tryAcquireLease succeeds: the fetched copy has no MachineRef (here every  *)
(* machine it could name exists) and no valid lease, and the API server      *)
(* finds its resource version current.  A lease expires by the clock, so     *)
(* its age is that of the object itself.                                     *)
Acquirable(w, h) ==
    cache[w][h].current /\ cache[w][h].obj.ref = NoMachine /\ api[h].lease # "live"

Acquire(w, h) ==
    LET obj == [api[h] EXCEPT !.lease = "live"]
    IN /\ work[w].pc = "select" /\ work[w].tries < MaxRetries /\ h \in work[w].list
       /\ Acquirable(w, h)
       /\ \/ /\ Called(h, obj)
             /\ work' = [work EXCEPT ![w].pc = "leased", ![w].h = h, ![w].copy = obj]
          \/ CallFailed(h, obj) /\ work' = [work EXCEPT ![w] = Missed(w)]
       /\ UNCHANGED <<attached, secret>>

(* Faulty variants: one try too many; a lease that is refused is removed. *)
RefusedOnceMore(w, h) ==
    /\ work[w].pc = "select" /\ work[w].tries <= MaxRetries /\ h \in work[w].list
    /\ ~Acquirable(w, h)
    /\ work' = [work EXCEPT ![w] = Missed(w)]
    /\ UNCHANGED <<api, cache, attached, secret, faults>>

RefusedAndRemoved(w, h) ==
    /\ work[w].pc = "select" /\ work[w].tries < MaxRetries /\ h \in work[w].list
    /\ ~Acquirable(w, h)
    /\ work' = [work EXCEPT ![w] = Missed(w)]
    /\ Called(h, [api[h] EXCEPT !.lease = "none"])
    /\ UNCHANGED <<attached, secret>>

(* The try ends without the lease. *)
Refused(w, h) ==
    /\ work[w].pc = "select" /\ work[w].tries < MaxRetries /\ h \in work[w].list
    /\ ~Acquirable(w, h)
    /\ work' = [work EXCEPT ![w] = Missed(w)]
    /\ UNCHANGED <<api, cache, attached, secret, faults>>

GiveUp(w) ==
    /\ work[w].pc = "select" /\ work[w].tries = MaxRetries
    /\ work' = [work EXCEPT ![w] = Idle]
    /\ UNCHANGED <<api, cache, attached, secret, faults>>

(* The try that ends with the lease to be released: the next one follows, or  *)
(* none, when attachByoHost returns the error.                                 *)
Retried(rec) == [rec EXCEPT !.pc = "release", !.failed = TRUE]
GivenUp(rec) == [Retried(rec) EXCEPT !.tries = MaxRetries - 1]

(* The host is fetched again, from the cache, which may not have the lease   *)
(* yet; when that fails, the copy the Update returned is used to release it.  *)
(* In TLS mode the machine's bootstrap secret is created next.  Its name is   *)
(* the machine's (1190): where a claim before this one has made it, Create    *)
(* fails (1425), now and on every later try.                                  *)
Refetch(w) ==
    LET m == work[w].m
        fetched == [work[w] EXCEPT !.pc = "meta", !.copy = cache[w][work[w].h].obj]
    IN /\ work[w].pc = "leased"
       /\ \/ /\ Fault("api")
             /\ work' = [work EXCEPT ![w] = Retried(work[w])]
             /\ UNCHANGED secret
          \/ /\ m \notin secret
             /\ work' = [work EXCEPT ![w] = fetched]
             /\ secret' = secret \cup ({m} \cap TLSMachines)
             /\ UNCHANGED faults
          \/ /\ m \in secret
             /\ work' = [work EXCEPT ![w] = GivenUp(fetched)]
             /\ UNCHANGED <<secret, faults>>
          \/ /\ Fault("api") /\ m \in TLSMachines
             /\ work' = [work EXCEPT ![w] = GivenUp(fetched)]
             /\ secret' \in {secret, secret \cup {m}}
       /\ UNCHANGED <<api, cache, attached>>

(* The claim: a call for the labels, then a call for the MachineRef.  A call  *)
(* sends only what differs from the copy, checks no version, and is made      *)
(* whether or not the one before has failed.                                  *)
ClaimCall(w, obj, next) ==
    /\ \/ Called(work[w].h, obj) /\ work' = [work EXCEPT ![w].pc = next]
       \/ CallFailed(work[w].h, obj) /\ work' = [work EXCEPT ![w].pc = next, ![w].failed = TRUE]
    /\ UNCHANGED <<attached, secret>>

ClaimLabels(w) ==
    /\ work[w].pc = "meta"
    /\ ClaimCall(w, [api[work[w].h] EXCEPT !.label = IF work[w].copy.label = work[w].m THEN @ ELSE work[w].m],
                 "status")

ClaimRef(w) ==
    /\ work[w].pc = "status"
    /\ ClaimCall(w, [api[work[w].h] EXCEPT !.ref = IF work[w].copy.ref = work[w].m THEN @ ELSE work[w].m],
                 "release")

(* releaseLease and the end of the try.  Whether there is a lease to remove   *)
(* is decided on the copy; whose it is, is not looked at.                     *)
Released(w) ==
    LET h == work[w].h
        obj == [api[h] EXCEPT !.lease = "none"]
    IN IF work[w].copy.lease = "none" THEN UNCHANGED <<api, cache, faults>>
       ELSE Called(h, obj) \/ CallFailed(h, obj)

ReleaseLease(w) ==
    /\ work[w].pc = "release"
    /\ Released(w)
    /\ IF work[w].failed
       THEN work' = [work EXCEPT ![w] = Missed(w)] /\ UNCHANGED attached
       ELSE /\ work' = [work EXCEPT ![w] = Idle]
            /\ attached' = [attached EXCEPT ![work[w].m] = @ \cup {work[w].h}]
    /\ UNCHANGED secret

-----------------------------------------------------------------------------
(* Environment *)

(* The informer delivers the latest version. *)
CacheSync(w, h) ==
    /\ ~cache[w][h].current
    /\ cache' = [cache EXCEPT ![w][h] = [obj |-> api[h], current |-> TRUE]]
    /\ UNCHANGED <<api, work, attached, secret, faults>>

Holds(w, h) == work[w].pc \in Holding /\ work[w].h = h

(* Thirty seconds pass.  A claim is over by then, unless it stalls. *)
LeaseExpires(h) ==
    /\ api[h].lease = "live"
    /\ IF \E w \in Managers : Holds(w, h) THEN Fault("stall") ELSE UNCHANGED faults
    /\ api' = [api EXCEPT ![h].lease = "expired"]
    /\ cache' = [w \in Managers |-> [cache[w] EXCEPT
                    ![h].obj.lease = IF @ = "live" THEN "expired" ELSE @]]
    /\ UNCHANGED <<work, attached, secret>>

(* The host is released and cleaned up; a lease annotation stays.  That takes *)
(* longer than the claim loop: nobody still has the host on a list.  The TLS  *)
(* secret goes with its machine, if it is the machine that is deleted, and     *)
(* stays when the host is taken from a machine that lives on.                 *)
HostReleased(h) ==
    /\ NoMachine \notin {api[h].ref, api[h].label}
    /\ \A w \in Managers : h \notin work[w].list
    /\ Write(h, [FreeHost EXCEPT !.lease = api[h].lease])
    /\ attached' = [m \in Machines |-> attached[m] \ {h}]
    /\ secret' \in {secret, secret \ {api[h].ref, api[h].label}}
    /\ UNCHANGED <<work, faults>>

(* A manager stops; started again, it fills its cache. *)
Restart(w) ==
    /\ Fault("crash")
    /\ work[w].pc # "idle"
    /\ work' = [work EXCEPT ![w] = Idle]
    /\ cache' = [cache EXCEPT ![w] = [h \in Hosts |-> [obj |-> api[h], current |-> TRUE]]]
    /\ UNCHANGED <<api, attached, secret>>

-----------------------------------------------------------------------------
Step(w) ==
    \/ \E h \in Hosts : Acquire(w, h) \/ Refused(w, h)
    \/ GiveUp(w) \/ Refetch(w) \/ ClaimLabels(w) \/ ClaimRef(w) \/ ReleaseLease(w)

Next ==
    \/ \E w \in Managers : Step(w) \/ Restart(w) \/ \E m \in Machines : List(w, m)
    \/ \E w \in Managers, h \in Hosts : CacheSync(w, h)
    \/ \E h \in Hosts : LeaseExpires(h) \/ HostReleased(h)

Spec == Init /\ [][Next]_vars

(* A reconcile in progress runs on, a machine without a host is reconciled   *)
(* again and again (attachByoHost returns an error or RequeueAfter), watches  *)
(* deliver, and time passes.                                                 *)
Fairness ==
    /\ \A w \in Managers : WF_vars(Step(w))
    /\ \A w \in Managers, m \in Machines : SF_vars(List(w, m))
    /\ \A w \in Managers, h \in Hosts : WF_vars(CacheSync(w, h))
    /\ \A h \in Hosts : WF_vars(LeaseExpires(h))

FairSpec == Spec /\ Fairness

-----------------------------------------------------------------------------
(* A host attachByoHost has returned for a machine is that machine's until it *)
(* is released: no other manager, and no later reconcile reading a stale      *)
(* cache, claims it too (675-885).  It takes the resource version check of    *)
(* tryAcquireLease and a lease that outlives the claim.                       *)
ClaimIsExclusive ==
    "stall" \notin FaultKinds =>
        \A m \in Machines : \A h \in attached[m] : api[h].ref = m /\ api[h].label = m

(* releaseLease removes whatever lease it finds (1776-1786); still, a valid    *)
(* lease only ever goes with the claim that holds it, and never under a claim  *)
(* that is still running.                                                      *)
LeaseRemovedByHolder ==
    [][\A h \in Hosts :
          "stall" \notin FaultKinds /\ api[h].lease = "live" /\ api'[h].lease = "none"
          => /\ \E w \in Managers : Holds(w, h)
             /\ \A w \in Managers : ~Holds(w, h)']_vars

(* The machine a host has been returned for. *)
OwnerOf(h) == LET owners == {m \in Machines : h \in attached[m]}
              IN IF owners = {} THEN NoMachine ELSE CHOOSE m \in owners : TRUE

(* The promise of HostPool, as far as claims go (the release, with the clean-up  *)
(* before it, is one step here): with several managers, stale caches and failed  *)
(* calls too, attachByoHost hands out a host only when no machine has it, and     *)
(* the host changes hands only by being released first (675-885).                *)
Pooled == INSTANCE HostPool WITH owner <- [h \in Hosts |-> OwnerOf(h)],
                                 node  <- [h \in Hosts |-> NoMachine]

AttachImplementsPool == Pooled!Spec

Free(h) == api[h].label = NoMachine /\ api[h].ref = NoMachine
HasHost(m) == \E h \in Hosts : m \in {api[h].label, api[h].ref}

(* What an interrupted claim leaves of a machine in TLS mode: no host, and a    *)
(* secret that makes every later claim fail, as no claim under way is past it.   *)
SecretInTheWay(m) ==
    /\ m \in secret /\ ~HasHost(m)
    /\ \A w \in Managers : work[w].m = m => work[w].pc \notin {"meta", "status"}

(* No lease is for ever: a machine without a host gets one while there is a    *)
(* free one, whatever manager stopped while holding its lease (1733).  The      *)
(* exception is a claim in TLS mode that was interrupted once the secret        *)
(* existed (1425): that machine never claims again, and as its tries go on       *)
(* taking the lease, another machine may always find the host leased.            *)
FreeHostIsClaimed ==
    \A m \in Machines :
        ((\E h \in Hosts : Free(h)) /\ ~HasHost(m))
            ~> \/ HasHost(m) \/ \A h \in Hosts : ~Free(h)
               \/ \E other \in Machines : SecretInTheWay(other)

(* A claim that fails after the lease is taken is retried until the machine has  *)
(* its host ("failed to patch byohost, will retry", 868), in TLS mode too.        *)
(* (Violated: the secret of the first try is in the way of every later one.)      *)
FailedClaimIsRetried ==
    \A m \in Machines :
        ((\E h \in Hosts : Free(h)) /\ ~HasHost(m)) ~> (HasHost(m) \/ \A h \in Hosts : ~Free(h))

-----------------------------------------------------------------------------
(* Inductive invariant *)

(* A claim in progress is for a machine, on a host of its list, with a try left. *)
ControlOK ==
    \A w \in Managers :
        /\ work[w].pc # "idle" => work[w].m \in Machines
        /\ work[w].pc \in Holding => work[w].h \in work[w].list /\ work[w].tries < MaxRetries

CacheCurrent ==
    \A w \in Managers, h \in Hosts : cache[w][h].current => cache[w][h].obj = api[h]

OneHolder ==
    \A v, w \in Managers, h \in Hosts : Holds(v, h) /\ Holds(w, h) => v = w

(* What the holder of the lease on h can rely on: nobody else has h, the reads *)
(* after the lease see the same label and reference, its own calls stick.      *)
HolderKnows(w, h) ==
    Holds(w, h) =>
        /\ api[h].lease = "live"
        /\ \A m \in Machines : h \notin attached[m]
        /\ work[w].pc = "leased" =>
              cache[w][h].obj.ref = api[h].ref /\ cache[w][h].obj.label = api[h].label
        /\ work[w].pc = "meta" => work[w].copy.ref = api[h].ref /\ work[w].copy.label = api[h].label
        /\ work[w].pc = "status" =>
              work[w].copy.ref = api[h].ref /\ (work[w].failed \/ api[h].label = work[w].m)
        /\ work[w].pc = "release" =>
              work[w].failed \/ (api[h].label = work[w].m /\ api[h].ref = work[w].m)

LeaseInv ==
    /\ ControlOK /\ CacheCurrent
    /\ "stall" \notin FaultKinds =>
          OneHolder /\ ClaimIsExclusive /\ \A w \in Managers, h \in Hosts : HolderKnows(w, h)
==============================================================================
