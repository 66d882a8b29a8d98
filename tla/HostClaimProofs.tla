--------------------------- MODULE HostClaimProofs ---------------------------
(***************************************************************************)
(* Proofs about HostClaim, for any number of managers, machines, hosts,     *)
(* retries and faults: the types, and that a claim is exclusive although    *)
(* every read may be stale and the calls of the claim check no version.     *)
(***************************************************************************)
EXTENDS HostClaim, TLAPS

(* The free host and the idle manager are of their types. *)
LEMMA ConstantTypes == FreeHost \in HostObj /\ Idle \in WorkRec
  BY BoundAssumption DEF FreeHost, HostObj, Idle, WorkRec, MaybeMachine

(* The number of faults stays within its bound. *)
LEMMA FaultType ==
    ASSUME faults \in 0..MaxFaults, NEW k, Fault(k) \/ UNCHANGED faults
    PROVE  faults' \in 0..MaxFaults
  BY BoundAssumption DEF Fault

(* What a write of a host does: the object changes, cached copies keep their    *)
(* content, and only copies of other hosts, or of an unchanged one, stay current. *)
LEMMA WriteEffect ==
    ASSUME TypeOK, NEW h \in Hosts, NEW obj \in HostObj, Write(h, obj)
    PROVE  /\ api' \in [Hosts -> HostObj] /\ cache' \in [Managers -> [Hosts -> CacheRec]]
           /\ api'[h] = obj /\ \A k \in Hosts : k # h => api'[k] = api[k]
           /\ \A w \in Managers, k \in Hosts :
                 /\ cache'[w][k].obj = cache[w][k].obj
                 /\ cache'[w][k].current => cache[w][k].current /\ (k = h => obj = api[h])
  <1>1. api \in [Hosts -> HostObj] /\ cache \in [Managers -> [Hosts -> CacheRec]]
    BY DEF TypeOK
  <1>2. api' = [api EXCEPT ![h] = obj]
    BY DEF Write
  <1>3. ASSUME NEW w \in Managers
        PROVE  /\ cache'[w] \in [Hosts -> CacheRec]
               /\ \A k \in Hosts : k # h => cache'[w][k] = cache[w][k]
               /\ cache'[w][h].obj = cache[w][h].obj
               /\ cache'[w][h].current = (cache[w][h].current /\ obj = api[h])
    <2>1. cache'[w] = [cache[w] EXCEPT ![h].current = cache[w][h].current /\ obj = api[h]]
      BY DEF Write
    <2>2. cache[w] \in [Hosts -> CacheRec] /\ cache[w][h] \in CacheRec
      BY <1>1
    <2>3. [cache[w][h] EXCEPT !.current = cache[w][h].current /\ obj = api[h]] \in CacheRec
      BY <2>2 DEF CacheRec
    <2> QED BY <2>1, <2>2, <2>3 DEF CacheRec
  <1>4. cache' \in [Managers -> [Hosts -> CacheRec]]
    <2>1. DOMAIN cache' = Managers /\ cache' = [w \in Managers |-> cache'[w]]
      BY DEF Write
    <2> QED BY <2>1, <1>3
  <1> QED BY <1>1, <1>2, <1>3, <1>4

(* The same for a call that may have failed, applied or not. *)
LEMMA CallEffect ==
    ASSUME TypeOK, CacheCurrent, NEW h \in Hosts, NEW obj \in HostObj,
           Called(h, obj) \/ CallFailed(h, obj)
    PROVE  /\ api' \in [Hosts -> HostObj] /\ cache' \in [Managers -> [Hosts -> CacheRec]]
           /\ faults' \in 0..MaxFaults
           /\ api'[h] \in {api[h], obj} /\ \A k \in Hosts : k # h => api'[k] = api[k]
           /\ \A w \in Managers, k \in Hosts : cache'[w][k].obj = cache[w][k].obj
           /\ CacheCurrent'
  <1>0. /\ api \in [Hosts -> HostObj] /\ cache \in [Managers -> [Hosts -> CacheRec]]
        /\ faults \in 0..MaxFaults
    BY DEF TypeOK
  <1>1. faults' \in 0..MaxFaults
    BY <1>0, FaultType DEF Called, CallFailed
  <1>2. CASE Write(h, obj)
    <2>1. /\ api' \in [Hosts -> HostObj] /\ cache' \in [Managers -> [Hosts -> CacheRec]]
          /\ api'[h] = obj /\ \A k \in Hosts : k # h => api'[k] = api[k]
          /\ \A w \in Managers, k \in Hosts :
                /\ cache'[w][k].obj = cache[w][k].obj
                /\ cache'[w][k].current => cache[w][k].current /\ (k = h => obj = api[h])
      BY <1>2, WriteEffect
    <2>2. CacheCurrent'
      BY <2>1 DEF CacheCurrent
    <2> QED BY <1>1, <2>1, <2>2
  <1>3. CASE UNCHANGED <<api, cache>>
    BY <1>0, <1>1, <1>3 DEF CacheCurrent
  <1> QED BY <1>2, <1>3 DEF Called, CallFailed

(* A manager's record after a try that has failed. *)
LEMMA MissedEffect ==
    ASSUME TypeOK, ControlOK, NEW w \in Managers, work[w].tries < MaxRetries
    PROVE  /\ Missed(w) \in WorkRec /\ Missed(w).pc = "select" /\ Missed(w).m = work[w].m
           /\ Missed(w).list = work[w].list
  <1>1. work[w] \in WorkRec
    BY DEF TypeOK
  <1>2. work[w].tries + 1 \in 0..MaxRetries
    BY <1>1, BoundAssumption DEF WorkRec
  <1> QED BY <1>1, <1>2, ConstantTypes DEF Missed, WorkRec

(* A manager's record when the lease is to be released. *)
LEMMA ReleasingEffect ==
    ASSUME NEW rec \in WorkRec, rec.tries < MaxRetries, NEW x \in {Retried(rec), GivenUp(rec)}
    PROVE  /\ x \in WorkRec /\ x.pc = "release" /\ x.failed /\ x.m = rec.m /\ x.h = rec.h
           /\ x.list = rec.list /\ x.tries < MaxRetries
  <1>1. MaxRetries - 1 \in 0..MaxRetries /\ MaxRetries - 1 < MaxRetries
    BY BoundAssumption
  <1>2. Retried(rec) \in WorkRec
    BY DEF Retried, WorkRec, Holding
  <1>3. GivenUp(rec) \in WorkRec
    BY <1>1, <1>2 DEF GivenUp, WorkRec
  <1>4. CASE x = Retried(rec)
    BY <1>2, <1>4 DEF Retried, WorkRec
  <1>5. CASE x = GivenUp(rec)
    BY <1>1, <1>3, <1>5 DEF GivenUp, Retried, WorkRec
  <1> QED BY <1>4, <1>5

(* The types, the control state and the currency flags of the caches are kept   *)
(* by every step, leases that expire too early included.                       *)
LEMMA TypeStep ==
    ASSUME TypeOK, ControlOK, CacheCurrent, [Next]_vars
    PROVE  TypeOK' /\ ControlOK' /\ CacheCurrent'
  <1>0. /\ api \in [Hosts -> HostObj] /\ cache \in [Managers -> [Hosts -> CacheRec]]
        /\ work \in [Managers -> WorkRec] /\ attached \in [Machines -> SUBSET Hosts]
        /\ secret \subseteq TLSMachines /\ faults \in 0..MaxFaults
    BY DEF TypeOK
  <1>1. ASSUME NEW w \in Managers, NEW m \in Machines, List(w, m)
        PROVE  TypeOK' /\ ControlOK' /\ CacheCurrent'
    <2>1. [Idle EXCEPT !.pc = "select", !.m = m, !.list = CachedFree(w)] \in WorkRec
      BY ConstantTypes DEF Idle, WorkRec, CachedFree, MaybeMachine
    <2>2. /\ work' = [work EXCEPT ![w] = [Idle EXCEPT !.pc = "select", !.m = m, !.list = CachedFree(w)]]
          /\ UNCHANGED <<api, cache, attached, secret, faults>>
      BY <1>1 DEF List
    <2>3. TypeOK'
      BY <1>0, <2>1, <2>2 DEF TypeOK
    <2>4. ControlOK'
      BY <1>0, <2>2 DEF ControlOK, Idle, Holding
    <2> QED BY <2>2, <2>3, <2>4 DEF CacheCurrent
  <1>2. ASSUME NEW w \in Managers, NEW h \in Hosts, Acquire(w, h)
        PROVE  TypeOK' /\ ControlOK' /\ CacheCurrent'
    <2> DEFINE obj == [api[h] EXCEPT !.lease = "live"]
    <2>1. obj \in HostObj
      BY <1>0 DEF HostObj
    <2>2. Called(h, obj) \/ CallFailed(h, obj)
      BY <1>2 DEF Acquire
    <2> HIDE DEF obj
    <2>3. /\ api' \in [Hosts -> HostObj] /\ cache' \in [Managers -> [Hosts -> CacheRec]]
          /\ faults' \in 0..MaxFaults /\ CacheCurrent'
      BY <2>1, <2>2, CallEffect
    <2>4. /\ work[w].pc = "select" /\ work[w].tries < MaxRetries /\ h \in work[w].list
          /\ \/ work' = [work EXCEPT ![w].pc = "leased", ![w].h = h, ![w].copy = obj]
             \/ work' = [work EXCEPT ![w] = Missed(w)]
          /\ attached' = attached /\ secret' = secret
      BY <1>2 DEF Acquire, obj
    <2>5. CASE work' = [work EXCEPT ![w].pc = "leased", ![w].h = h, ![w].copy = obj]
      <3>0. work[w] \in WorkRec
        BY <1>0
      <3>1. [work[w] EXCEPT !.pc = "leased", !.h = h, !.copy = obj] \in WorkRec
        BY <2>1, <3>0 DEF WorkRec, Holding
      <3>2. work' \in [Managers -> WorkRec]
        BY <1>0, <2>5, <3>1
      <3>3. ControlOK'
        BY <1>0, <2>4, <2>5 DEF ControlOK, WorkRec
      <3> QED BY <1>0, <2>3, <2>4, <3>2, <3>3 DEF TypeOK
    <2>6. CASE work' = [work EXCEPT ![w] = Missed(w)]
      BY <1>0, <2>3, <2>4, <2>6, MissedEffect DEF TypeOK, ControlOK, Holding
    <2> QED BY <2>4, <2>5, <2>6
  <1>3. ASSUME NEW w \in Managers, NEW h \in Hosts, Refused(w, h)
        PROVE  TypeOK' /\ ControlOK' /\ CacheCurrent'
    <2>1. /\ work[w].pc = "select" /\ work[w].tries < MaxRetries
          /\ work' = [work EXCEPT ![w] = Missed(w)] /\ UNCHANGED <<api, cache, attached, secret, faults>>
      BY <1>3 DEF Refused
    <2> QED BY <1>0, <2>1, MissedEffect DEF TypeOK, ControlOK, CacheCurrent, Holding
  <1>4. ASSUME NEW w \in Managers, GiveUp(w)
        PROVE  TypeOK' /\ ControlOK' /\ CacheCurrent'
    <2>1. work' = [work EXCEPT ![w] = Idle] /\ UNCHANGED <<api, cache, attached, secret, faults>>
      BY <1>4 DEF GiveUp
    <2>2. Idle.pc = "idle"
      BY DEF Idle
    <2> QED BY <1>0, <2>1, <2>2, ConstantTypes DEF TypeOK, ControlOK, CacheCurrent, Holding
  <1>5. ASSUME NEW w \in Managers, Refetch(w)
        PROVE  TypeOK' /\ ControlOK' /\ CacheCurrent'
    <2> DEFINE c == cache[w][work[w].h].obj
               f == [work[w] EXCEPT !.pc = "meta", !.copy = c]
    <2>1. /\ work[w].pc = "leased" /\ UNCHANGED <<api, cache, attached>>
          /\ \/ work' = [work EXCEPT ![w] = f] \/ work' = [work EXCEPT ![w] = GivenUp(f)]
             \/ work' = [work EXCEPT ![w] = Retried(work[w])]
          /\ Fault("api") \/ UNCHANGED faults
          /\ \/ secret' \in {secret, secret \cup ({work[w].m} \cap TLSMachines)}
             \/ work[w].m \in TLSMachines /\ secret' \in {secret, secret \cup {work[w].m}}
      BY <1>5 DEF Refetch
    <2>2. work[w] \in WorkRec /\ work[w].h \in work[w].list /\ work[w].m \in Machines
          /\ work[w].tries < MaxRetries
      BY <1>0, <2>1 DEF ControlOK, Holding
    <2>3. c \in HostObj
      BY <1>0, <2>2 DEF WorkRec, CacheRec
    <2>4. f \in WorkRec /\ f.pc = "meta" /\ f.m = work[w].m /\ f.h = work[w].h
          /\ f.list = work[w].list /\ f.tries = work[w].tries
      BY <2>2, <2>3 DEF WorkRec, Holding
    <2> HIDE DEF f
    <2>5. ASSUME NEW x \in {Retried(work[w]), GivenUp(f)}
          PROVE  x \in WorkRec /\ x.pc = "release" /\ x.m = work[w].m /\ x.h = work[w].h
                 /\ x.list = work[w].list /\ x.tries < MaxRetries
      BY <2>2, <2>4, ReleasingEffect
    <2>6. PICK x \in {f, Retried(work[w]), GivenUp(f)} : work' = [work EXCEPT ![w] = x]
      BY <2>1
    <2>7. x \in WorkRec /\ x.pc \in Holding /\ x.m = work[w].m /\ x.h = work[w].h
          /\ x.list = work[w].list /\ x.tries < MaxRetries
      BY <2>2, <2>4, <2>5, <2>6 DEF Holding
    <2>8. faults' \in 0..MaxFaults
      BY <1>0, <2>1, FaultType
    <2>9. secret' \subseteq TLSMachines
      BY <1>0, <2>1
    <2>10. TypeOK'
      BY <1>0, <2>1, <2>6, <2>7, <2>8, <2>9 DEF TypeOK
    <2>11. ControlOK'
      BY <1>0, <2>2, <2>6, <2>7 DEF ControlOK
    <2> QED BY <2>1, <2>10, <2>11 DEF CacheCurrent
  <1>6. ASSUME NEW w \in Managers, NEW obj \in HostObj, NEW next \in Holding,
               work[w].pc \in Holding, ClaimCall(w, obj, next)
        PROVE  TypeOK' /\ ControlOK' /\ CacheCurrent'
    <2>1. work[w] \in WorkRec /\ work[w].h \in Hosts
      BY <1>0, <1>6 DEF ControlOK, WorkRec
    <2>2. /\ \/ work' = [work EXCEPT ![w].pc = next]
             \/ work' = [work EXCEPT ![w].pc = next, ![w].failed = TRUE]
          /\ Called(work[w].h, obj) \/ CallFailed(work[w].h, obj)
          /\ attached' = attached /\ secret' = secret
      BY <1>6 DEF ClaimCall
    <2>3. /\ api' \in [Hosts -> HostObj] /\ cache' \in [Managers -> [Hosts -> CacheRec]]
          /\ faults' \in 0..MaxFaults /\ CacheCurrent'
      BY <2>1, <2>2, CallEffect
    <2>4. /\ [work[w] EXCEPT !.pc = next] \in WorkRec
          /\ [work[w] EXCEPT !.pc = next, !.failed = TRUE] \in WorkRec
      BY <2>1 DEF WorkRec
    <2>5. work' \in [Managers -> WorkRec]
      BY <1>0, <2>2, <2>4
    <2>6. ControlOK'
      <3>1. /\ \A v \in Managers : v # w => work'[v] = work[v]
            /\ work'[w].m = work[w].m /\ work'[w].h = work[w].h
            /\ work'[w].list = work[w].list /\ work'[w].tries = work[w].tries
        BY <1>0, <2>1, <2>2 DEF WorkRec
      <3>2. work[w].pc # "idle"
        BY <1>6 DEF Holding
      <3> QED BY <1>6, <3>1, <3>2 DEF ControlOK
    <2> QED BY <1>0, <2>2, <2>3, <2>5, <2>6 DEF TypeOK
  <1>7. ASSUME NEW w \in Managers, ClaimLabels(w)
        PROVE  TypeOK' /\ ControlOK' /\ CacheCurrent'
    <2>1. work[w] \in WorkRec /\ work[w].h \in Hosts /\ work[w].m \in Machines
      BY <1>0, <1>7 DEF ClaimLabels, ControlOK, Holding, WorkRec
    <2> DEFINE x == IF work[w].copy.label = work[w].m THEN api[work[w].h].label ELSE work[w].m
    <2>x. x \in MaybeMachine
      BY <1>0, <2>1 DEF HostObj, MaybeMachine
    <2> HIDE DEF x
    <2>y. [api[work[w].h] EXCEPT !.label = x] \in HostObj
      BY <1>0, <2>1, <2>x DEF HostObj
    <2>2. [api[work[w].h] EXCEPT !.label = IF work[w].copy.label = work[w].m THEN @ ELSE work[w].m] \in HostObj
      BY <2>y DEF x
    <2> QED BY <1>6, <1>7, <2>2 DEF ClaimLabels, Holding
  <1>8. ASSUME NEW w \in Managers, ClaimRef(w)
        PROVE  TypeOK' /\ ControlOK' /\ CacheCurrent'
    <2>1. work[w] \in WorkRec /\ work[w].h \in Hosts /\ work[w].m \in Machines
      BY <1>0, <1>8 DEF ClaimRef, ControlOK, Holding, WorkRec
    <2> DEFINE x == IF work[w].copy.ref = work[w].m THEN api[work[w].h].ref ELSE work[w].m
    <2>x. x \in MaybeMachine
      BY <1>0, <2>1 DEF HostObj, MaybeMachine
    <2> HIDE DEF x
    <2>y. [api[work[w].h] EXCEPT !.ref = x] \in HostObj
      BY <1>0, <2>1, <2>x DEF HostObj
    <2>2. [api[work[w].h] EXCEPT !.ref = IF work[w].copy.ref = work[w].m THEN @ ELSE work[w].m] \in HostObj
      BY <2>y DEF x
    <2> QED BY <1>6, <1>8, <2>2 DEF ClaimRef, Holding
  <1>9. ASSUME NEW w \in Managers, ReleaseLease(w)
        PROVE  TypeOK' /\ ControlOK' /\ CacheCurrent'
    <2>1. /\ work[w] \in WorkRec /\ work[w].h \in Hosts /\ work[w].m \in Machines
          /\ work[w].tries < MaxRetries
      BY <1>0, <1>9 DEF ReleaseLease, ControlOK, Holding, WorkRec
    <2> DEFINE obj == [api[work[w].h] EXCEPT !.lease = "none"]
    <2>2. obj \in HostObj
      BY <1>0, <2>1 DEF HostObj
    <2>3. UNCHANGED <<api, cache, faults>> \/ Called(work[w].h, obj) \/ CallFailed(work[w].h, obj)
      BY <1>9 DEF ReleaseLease, Released
    <2> HIDE DEF obj
    <2>4. /\ api' \in [Hosts -> HostObj] /\ cache' \in [Managers -> [Hosts -> CacheRec]]
          /\ faults' \in 0..MaxFaults /\ CacheCurrent'
      <3>1. CASE UNCHANGED <<api, cache, faults>>
        BY <1>0, <3>1 DEF CacheCurrent
      <3> QED BY <2>1, <2>2, <2>3, <3>1, CallEffect
    <2>s. secret' = secret
      BY <1>9 DEF ReleaseLease
    <2>5. CASE work' = [work EXCEPT ![w] = Missed(w)] /\ UNCHANGED attached
      BY <1>0, <2>1, <2>4, <2>s, <2>5, MissedEffect DEF TypeOK, ControlOK, Holding
    <2>6. CASE /\ work' = [work EXCEPT ![w] = Idle]
               /\ attached' = [attached EXCEPT ![work[w].m] = @ \cup {work[w].h}]
      <3>1. Idle.pc = "idle"
        BY DEF Idle
      <3>2. work' \in [Managers -> WorkRec] /\ ControlOK'
        BY <1>0, <2>6, <3>1, ConstantTypes DEF ControlOK, Holding
      <3>3. attached' \in [Machines -> SUBSET Hosts]
        BY <1>0, <2>1, <2>6
      <3> QED BY <1>0, <2>4, <2>s, <3>2, <3>3 DEF TypeOK
    <2> QED BY <1>9, <2>5, <2>6 DEF ReleaseLease
  <1>10. ASSUME NEW w \in Managers, NEW h \in Hosts, CacheSync(w, h)
         PROVE  TypeOK' /\ ControlOK' /\ CacheCurrent'
    <2>1. /\ cache' = [cache EXCEPT ![w][h] = [obj |-> api[h], current |-> TRUE]]
          /\ UNCHANGED <<api, work, attached, secret, faults>>
      BY <1>10 DEF CacheSync
    <2>2. [obj |-> api[h], current |-> TRUE] \in CacheRec
      BY <1>0 DEF CacheRec
    <2>3. cache' \in [Managers -> [Hosts -> CacheRec]]
      BY <1>0, <2>1, <2>2
    <2>4. CacheCurrent'
      BY <1>0, <2>1 DEF CacheCurrent
    <2> QED BY <1>0, <2>1, <2>3, <2>4 DEF TypeOK, ControlOK
  <1>11. ASSUME NEW h \in Hosts, LeaseExpires(h)
         PROVE  TypeOK' /\ ControlOK' /\ CacheCurrent'
    <2> DEFINE Aged(o) == [o EXCEPT !.lease = IF o.lease = "live" THEN "expired" ELSE o.lease]
    <2>1. /\ api[h].lease = "live" /\ api' = [api EXCEPT ![h].lease = "expired"]
          /\ UNCHANGED <<work, attached, secret>>
          /\ faults' \in 0..MaxFaults
      BY <1>0, <1>11, FaultType DEF LeaseExpires
    <2>2. ASSUME NEW o \in HostObj PROVE Aged(o) \in HostObj
      BY DEF HostObj
    <2>3. api[h] \in HostObj /\ api' = [api EXCEPT ![h] = Aged(api[h])]
      BY <1>0, <2>1
    <2>4. api' \in [Hosts -> HostObj] /\ \A k \in Hosts : api'[k] = IF k = h THEN Aged(api[h]) ELSE api[k]
      <3> HIDE DEF Aged
      <3> QED BY <1>0, <2>2, <2>3
    <2>5. ASSUME NEW w \in Managers
          PROVE  /\ cache'[w] \in [Hosts -> CacheRec]
                 /\ \A k \in Hosts : k # h => cache'[w][k] = cache[w][k]
                 /\ cache'[w][h].obj = Aged(cache[w][h].obj)
                 /\ cache'[w][h].current = cache[w][h].current
      <3>1. cache[w] \in [Hosts -> CacheRec] /\ cache[w][h].obj \in HostObj /\ cache[w][h] \in CacheRec
        BY <1>0 DEF CacheRec
      <3>2. cache'[w] = [cache[w] EXCEPT ![h] = [cache[w][h] EXCEPT !.obj = Aged(cache[w][h].obj)]]
        BY <1>11 DEF LeaseExpires
      <3>3. Aged(cache[w][h].obj) \in HostObj
        BY <2>2, <3>1
      <3> HIDE DEF Aged
      <3>4. [cache[w][h] EXCEPT !.obj = Aged(cache[w][h].obj)] \in CacheRec
        BY <3>1, <3>3 DEF CacheRec
      <3> QED BY <3>1, <3>2, <3>4 DEF CacheRec
    <2> HIDE DEF Aged
    <2>6. cache' \in [Managers -> [Hosts -> CacheRec]]
      <3>1. cache' = [w \in Managers |-> cache'[w]]
        BY <1>11 DEF LeaseExpires
      <3> QED BY <2>5, <3>1
    <2>7. CacheCurrent'
      BY <2>4, <2>5 DEF CacheCurrent
    <2> QED BY <1>0, <2>1, <2>4, <2>6, <2>7 DEF TypeOK, ControlOK
  <1>12. ASSUME NEW h \in Hosts, HostReleased(h)
         PROVE  TypeOK' /\ ControlOK' /\ CacheCurrent'
    <2> DEFINE obj == [FreeHost EXCEPT !.lease = api[h].lease]
    <2>o. obj \in HostObj
      BY <1>0, ConstantTypes DEF HostObj
    <2>1. /\ Write(h, obj) /\ UNCHANGED <<work, faults>> /\ secret' \subseteq TLSMachines
          /\ attached' = [m \in Machines |-> attached[m] \ {h}]
      BY <1>0, <1>12 DEF HostReleased
    <2> HIDE DEF obj
    <2>2. /\ api' \in [Hosts -> HostObj] /\ cache' \in [Managers -> [Hosts -> CacheRec]]
          /\ api'[h] = obj /\ \A k \in Hosts : k # h => api'[k] = api[k]
          /\ \A w \in Managers, k \in Hosts :
                /\ cache'[w][k].obj = cache[w][k].obj
                /\ cache'[w][k].current => cache[w][k].current /\ (k = h => obj = api[h])
      BY <2>o, <2>1, WriteEffect
    <2>3. CacheCurrent'
      BY <2>2 DEF CacheCurrent
    <2> QED BY <1>0, <2>1, <2>2, <2>3 DEF TypeOK, ControlOK
  <1>13. ASSUME NEW w \in Managers, Restart(w)
         PROVE  TypeOK' /\ ControlOK' /\ CacheCurrent'
    <2>1. /\ work' = [work EXCEPT ![w] = Idle]
          /\ cache' = [cache EXCEPT ![w] = [h \in Hosts |-> [obj |-> api[h], current |-> TRUE]]]
          /\ UNCHANGED <<api, attached, secret>> /\ faults' \in 0..MaxFaults
      BY <1>0, <1>13, FaultType DEF Restart
    <2>2. \A h \in Hosts : [obj |-> api[h], current |-> TRUE] \in CacheRec
      BY <1>0 DEF CacheRec
    <2>3. cache' \in [Managers -> [Hosts -> CacheRec]]
      BY <1>0, <2>1, <2>2
    <2>4. Idle.pc = "idle"
      BY DEF Idle
    <2>5. ControlOK' /\ work' \in [Managers -> WorkRec]
      BY <1>0, <2>1, <2>4, ConstantTypes DEF ControlOK, Holding
    <2>6. CacheCurrent'
      BY <1>0, <2>1 DEF CacheCurrent
    <2> QED BY <1>0, <2>1, <2>3, <2>5, <2>6 DEF TypeOK
  <1>14. CASE UNCHANGED vars
    BY <1>14 DEF vars, TypeOK, ControlOK, CacheCurrent
  <1> QED
    BY <1>1, <1>2, <1>3, <1>4, <1>5, <1>7, <1>8, <1>9, <1>10, <1>11, <1>12, <1>13, <1>14
       DEF Next, Step

(* What the invariant says about leases when no claim outlives its own. *)
Exclusive ==
    OneHolder /\ ClaimIsExclusive /\ \A w \in Managers, h \in Hosts : HolderKnows(w, h)

(* A step of manager w that touches at most host h, which nobody else holds,    *)
(* leaves the other managers what they know; what remains to be shown is what   *)
(* w knows of h and that the claims reported for h are right.                   *)
LEMMA OthersUndisturbed ==
    ASSUME "stall" \notin FaultKinds, Exclusive,
           NEW w \in Managers, NEW h \in Hosts,
           \A v \in Managers : v # w => ~Holds(v, h) /\ work'[v] = work[v],
           \A k \in Hosts : k # h => api'[k] = api[k] /\ ~Holds(w, k)',
           \A v \in Managers, k \in Hosts : v # w => cache'[v][k].obj = cache[v][k].obj,
           \A m \in Machines, k \in Hosts : k # h => (k \in attached'[m] <=> k \in attached[m]),
           HolderKnows(w, h)',
           \A m \in Machines : h \in attached'[m] => api'[h].ref = m /\ api'[h].label = m,
           attached' \in [Machines -> SUBSET Hosts]
    PROVE  Exclusive'
  <1>1. OneHolder'
    BY DEF Exclusive, OneHolder, Holds
  <1>2. ClaimIsExclusive'
    BY DEF Exclusive, ClaimIsExclusive
  <1>3. ASSUME NEW v \in Managers, NEW k \in Hosts
        PROVE  HolderKnows(v, k)'
    <2>1. CASE v = w
      BY <2>1 DEF HolderKnows
    <2>2. CASE v # w
      <3>1. CASE k = h
        BY <2>2, <3>1 DEF HolderKnows, Holds
      <3>2. CASE k # h
        <4>1. /\ work'[v] = work[v] /\ api'[k] = api[k] /\ cache'[v][k].obj = cache[v][k].obj
              /\ \A m \in Machines : k \in attached'[m] <=> k \in attached[m]
          BY <2>2, <3>2
        <4>2. HolderKnows(v, k)
          BY DEF Exclusive
        <4> QED BY <4>1, <4>2 DEF HolderKnows, Holds
      <3> QED BY <3>1, <3>2
    <2> QED BY <2>1, <2>2
  <1> QED BY <1>1, <1>2, <1>3 DEF Exclusive

(* A step of w that leaves it holding nothing and touches no host. *)
LEMMA NothingTouched ==
    ASSUME "stall" \notin FaultKinds, Exclusive, NEW w \in Managers,
           \A v \in Managers : v # w => work'[v] = work[v],
           work'[w].pc \notin Holding,
           api' = api, attached' = attached,
           \A v \in Managers : v # w => cache'[v] = cache[v]
    PROVE  Exclusive'
  <1>1. OneHolder' /\ ClaimIsExclusive'
    BY DEF Exclusive, OneHolder, Holds, ClaimIsExclusive
  <1>2. ASSUME NEW v \in Managers, NEW k \in Hosts
        PROVE  HolderKnows(v, k)'
    <2>1. CASE v = w
      BY <2>1 DEF HolderKnows, Holds
    <2>2. CASE v # w
      <3>1. HolderKnows(v, k)
        BY DEF Exclusive
      <3> QED BY <2>2, <3>1 DEF HolderKnows, Holds
    <2> QED BY <2>1, <2>2
  <1> QED BY <1>1, <1>2 DEF Exclusive

(* Every step keeps a claim exclusive: one step per action. *)
LEMMA ExclusiveStep ==
    ASSUME "stall" \notin FaultKinds, TypeOK, ControlOK, CacheCurrent, Exclusive, TypeOK', [Next]_vars
    PROVE  Exclusive'
  <1>0. /\ api \in [Hosts -> HostObj] /\ cache \in [Managers -> [Hosts -> CacheRec]]
        /\ work \in [Managers -> WorkRec] /\ attached \in [Machines -> SUBSET Hosts]
        /\ attached' \in [Machines -> SUBSET Hosts]
    BY DEF TypeOK
  <1>1. ASSUME NEW w \in Managers, NEW m \in Machines, List(w, m)
        PROVE  Exclusive'
    BY <1>0, <1>1, NothingTouched DEF List, Idle, Holding
  <1>2. ASSUME NEW w \in Managers, NEW h \in Hosts, Acquire(w, h)
        PROVE  Exclusive'
    <2> DEFINE obj == [api[h] EXCEPT !.lease = "live"]
    <2>1. obj \in HostObj /\ obj.lease = "live" /\ obj.ref = api[h].ref /\ obj.label = api[h].label
      BY <1>0 DEF HostObj
    <2>2. /\ \/ /\ Called(h, obj)
                /\ work' = [work EXCEPT ![w].pc = "leased", ![w].h = h, ![w].copy = obj]
             \/ CallFailed(h, obj) /\ work' = [work EXCEPT ![w] = Missed(w)]
          /\ attached' = attached /\ Acquirable(w, h) /\ work[w].tries < MaxRetries
      BY <1>2 DEF Acquire
    <2> HIDE DEF obj
    <2>3. /\ \A k \in Hosts : k # h => api'[k] = api[k]
          /\ api'[h] \in {api[h], obj}
          /\ \A v \in Managers, k \in Hosts : cache'[v][k].obj = cache[v][k].obj
      BY <2>1, <2>2, CallEffect
    <2>4. cache[w][h].obj = api[h] /\ api[h].ref = NoMachine /\ api[h].lease # "live"
      BY <2>2 DEF Acquirable, CacheCurrent
    <2>5. \A m \in Machines : h \notin attached[m]
      BY <2>4, NullAssumption DEF Exclusive, ClaimIsExclusive
    <2>6. \A v \in Managers : ~Holds(v, h)
      BY <2>4 DEF Exclusive, HolderKnows
    <2>7. \A v \in Managers : v # w => work'[v] = work[v]
      BY <1>0, <2>2
    <2>8. CASE /\ Called(h, obj)
               /\ work' = [work EXCEPT ![w].pc = "leased", ![w].h = h, ![w].copy = obj]
      <3>1. work'[w].pc = "leased" /\ work'[w].h = h
        BY <1>0, <2>8 DEF WorkRec
      <3>2. api'[h] = obj
        BY <1>0, <2>8 DEF Called, Write
      <3>3. HolderKnows(w, h)'
        BY <2>1, <2>2, <2>3, <2>4, <2>5, <3>1, <3>2 DEF HolderKnows, Holds
      <3>4. \A k \in Hosts : k # h => ~Holds(w, k)'
        BY <3>1 DEF Holds
      <3> QED BY <1>0, <2>2, <2>3, <2>5, <2>6, <2>7, <3>3, <3>4, OthersUndisturbed
    <2>9. CASE work' = [work EXCEPT ![w] = Missed(w)]
      <3>1. work'[w].pc = "select"
        BY <1>0, <2>2, <2>9, MissedEffect
      <3>2. \A k \in Hosts : ~Holds(w, k)'
        BY <3>1 DEF Holds, Holding
      <3> QED BY <1>0, <2>2, <2>3, <2>5, <2>6, <2>7, <3>2, OthersUndisturbed DEF HolderKnows
    <2> QED BY <2>2, <2>8, <2>9
  <1>3. ASSUME NEW w \in Managers, NEW h \in Hosts, Refused(w, h)
        PROVE  Exclusive'
    <2>1. /\ work' = [work EXCEPT ![w] = Missed(w)] /\ UNCHANGED <<api, cache, attached, secret, faults>>
          /\ work[w].tries < MaxRetries
      BY <1>3 DEF Refused
    <2>2. work'[w].pc = "select" /\ \A v \in Managers : v # w => work'[v] = work[v]
      BY <1>0, <2>1, MissedEffect
    <2> QED BY <2>1, <2>2, NothingTouched DEF Holding
  <1>4. ASSUME NEW w \in Managers, GiveUp(w)
        PROVE  Exclusive'
    BY <1>0, <1>4, NothingTouched DEF GiveUp, Idle, Holding
  <1>5. ASSUME NEW w \in Managers, Refetch(w)
        PROVE  Exclusive'
    <2>0. work[w].h \in Hosts
      BY <1>0, <1>5 DEF Refetch, ControlOK, Holding, WorkRec
    <2> PICK h \in Hosts : h = work[w].h
      BY <2>0
    <2> DEFINE f == [work[w] EXCEPT !.pc = "meta", !.copy = cache[w][h].obj]
    <2>1. /\ work[w].pc = "leased" /\ UNCHANGED <<api, cache, attached>>
          /\ \/ work' = [work EXCEPT ![w] = f] \/ work' = [work EXCEPT ![w] = GivenUp(f)]
             \/ work' = [work EXCEPT ![w] = Retried(work[w])]
      BY <1>5 DEF Refetch
    <2>2. work[w] \in WorkRec /\ h \in Hosts /\ Holds(w, h) /\ work[w].tries < MaxRetries
      BY <1>0, <2>1 DEF ControlOK, Holding, WorkRec, Holds
    <2>c. cache[w][h].obj \in HostObj
      BY <1>0 DEF CacheRec
    <2>3. f.pc = "meta" /\ f.h = h /\ f.copy = cache[w][h].obj /\ f \in WorkRec
          /\ f.tries = work[w].tries
      BY <2>2, <2>c DEF WorkRec, Holding
    <2> HIDE DEF f
    <2>4. \A x \in {GivenUp(f), Retried(work[w])} : x.pc = "release" /\ x.h = h /\ x.failed
      BY <2>2, <2>3, ReleasingEffect
    <2>5. /\ work'[w] \in {f, GivenUp(f), Retried(work[w])}
          /\ \A v \in Managers : v # w => work'[v] = work[v]
      BY <1>0, <2>1
    <2>6. HolderKnows(w, h)
      BY <2>2 DEF Exclusive
    <2>7. HolderKnows(w, h)'
      BY <2>1, <2>2, <2>3, <2>4, <2>5, <2>6 DEF HolderKnows, Holds
    <2>8. \A v \in Managers : v # w => ~Holds(v, h)
      BY <2>2 DEF Exclusive, OneHolder
    <2>9. \A k \in Hosts : k # h => ~Holds(w, k)'
      BY <2>3, <2>4, <2>5 DEF Holds
    <2>10. \A m \in Machines : h \notin attached[m]
      BY <2>2, <2>6 DEF HolderKnows
    <2> QED BY <1>0, <2>1, <2>2, <2>5, <2>7, <2>8, <2>9, <2>10, OthersUndisturbed
  <1>6. ASSUME NEW w \in Managers, NEW h \in Hosts, NEW obj \in HostObj, NEW next \in Holding,
               work[w].pc \in Holding, work[w].h = h, ClaimCall(w, obj, next), HolderKnows(w, h)'
        PROVE  Exclusive'
    <2>1. work[w] \in WorkRec /\ h \in Hosts /\ Holds(w, h)
      BY <1>0, <1>6 DEF ControlOK, WorkRec, Holds
    <2>2. /\ \/ work' = [work EXCEPT ![w].pc = next]
             \/ work' = [work EXCEPT ![w].pc = next, ![w].failed = TRUE]
          /\ Called(h, obj) \/ CallFailed(h, obj)
          /\ attached' = attached
      BY <1>6 DEF ClaimCall
    <2>3. work'[w].h = h /\ \A v \in Managers : v # w => work'[v] = work[v]
      <3>1. work'[w].h = work[w].h
        BY <1>0, <2>1, <2>2 DEF WorkRec
      <3>2. \A v \in Managers : v # w => work'[v] = work[v]
        BY <1>0, <2>2
      <3> QED BY <1>6, <3>1, <3>2
    <2>4. HolderKnows(w, h)'
      BY <1>6
    <2>5. HolderKnows(w, h)
      BY <2>1 DEF Exclusive
    <2>6. /\ \A k \in Hosts : k # h => api'[k] = api[k]
          /\ \A v \in Managers, k \in Hosts : cache'[v][k].obj = cache[v][k].obj
      BY <2>1, <2>2, CallEffect
    <2>7. \A v \in Managers : v # w => ~Holds(v, h)
      BY <2>1 DEF Exclusive, OneHolder
    <2>8. \A m \in Machines : h \notin attached[m]
      BY <2>1, <2>5 DEF HolderKnows
    <2>9. \A k \in Hosts : k # h => ~Holds(w, k)'
      BY <2>3 DEF Holds
    <2>10. attached' = attached
      BY <2>2
    <2>11. \A m \in Machines : h \in attached'[m] => api'[h].ref = m /\ api'[h].label = m
      BY <2>8, <2>10
    <2> QED BY <1>0, <2>3, <2>4, <2>6, <2>7, <2>9, <2>10, <2>11, OthersUndisturbed
  <1>7. ASSUME NEW w \in Managers, ClaimLabels(w)
        PROVE  Exclusive'
    <2>0. work[w].h \in Hosts
      BY <1>0, <1>7 DEF ClaimLabels, ControlOK, Holding, WorkRec
    <2> PICK h \in Hosts : h = work[w].h
      BY <2>0
    <2> DEFINE x == IF work[w].copy.label = work[w].m THEN api[h].label ELSE work[w].m
               obj == [api[h] EXCEPT !.label = x]
    <2>1. /\ work[w] \in WorkRec /\ h \in Hosts /\ work[w].m \in Machines
          /\ work[w].pc = "meta" /\ Holds(w, h)
      BY <1>0, <1>7 DEF ClaimLabels, ControlOK, Holding, WorkRec, Holds
    <2>2. HolderKnows(w, h)
      BY <2>1 DEF Exclusive
    <2>3. x = work[w].m /\ api[h].lease = "live" /\ work[w].copy.ref = api[h].ref
          /\ \A m \in Machines : h \notin attached[m]
      BY <2>1, <2>2 DEF HolderKnows
    <2>4. ClaimCall(w, obj, "status")
      BY <1>7 DEF ClaimLabels
    <2> HIDE DEF x
    <2>5. obj \in HostObj /\ obj.lease = api[h].lease /\ obj.ref = api[h].ref /\ obj.label = work[w].m
      BY <1>0, <2>1, <2>3 DEF HostObj, MaybeMachine
    <2> HIDE DEF obj
    <2>6. HolderKnows(w, h)'
      <3>1. api'[h] \in {api[h], obj}
        BY <2>1, <2>4, <2>5, CallEffect DEF ClaimCall
      <3>2. /\ work'[w].pc = "status" /\ work'[w].h = h /\ work'[w].copy = work[w].copy
            /\ work'[w].m = work[w].m /\ attached' = attached
            /\ ~work'[w].failed => api'[h] = obj
        <4>1. CASE Called(h, obj) /\ work' = [work EXCEPT ![w].pc = "status"]
          BY <1>0, <2>1, <2>4, <4>1 DEF Called, Write, ClaimCall, WorkRec
        <4>2. CASE CallFailed(h, obj) /\ work' = [work EXCEPT ![w].pc = "status", ![w].failed = TRUE]
          <5>1. work'[w] = [work[w] EXCEPT !.pc = "status", !.failed = TRUE]
            BY <1>0, <4>2
          <5>2. work'[w].failed
            BY <2>1, <5>1 DEF WorkRec
          <5> QED BY <2>1, <2>4, <5>1, <5>2 DEF ClaimCall, WorkRec
        <4> QED BY <2>4, <4>1, <4>2 DEF ClaimCall
      <3> QED BY <2>3, <2>5, <3>1, <3>2 DEF HolderKnows, Holds
    <2> QED BY <1>6, <2>1, <2>4, <2>5, <2>6 DEF Holding
  <1>8. ASSUME NEW w \in Managers, ClaimRef(w)
        PROVE  Exclusive'
    <2>0. work[w].h \in Hosts
      BY <1>0, <1>8 DEF ClaimRef, ControlOK, Holding, WorkRec
    <2> PICK h \in Hosts : h = work[w].h
      BY <2>0
    <2> DEFINE x == IF work[w].copy.ref = work[w].m THEN api[h].ref ELSE work[w].m
               obj == [api[h] EXCEPT !.ref = x]
    <2>1. /\ work[w] \in WorkRec /\ h \in Hosts /\ work[w].m \in Machines
          /\ work[w].pc = "status" /\ Holds(w, h)
      BY <1>0, <1>8 DEF ClaimRef, ControlOK, Holding, WorkRec, Holds
    <2>2. HolderKnows(w, h)
      BY <2>1 DEF Exclusive
    <2>3. /\ x = work[w].m /\ api[h].lease = "live"
          /\ work[w].failed \/ api[h].label = work[w].m
          /\ \A m \in Machines : h \notin attached[m]
      BY <2>1, <2>2 DEF HolderKnows
    <2>4. ClaimCall(w, obj, "release")
      BY <1>8 DEF ClaimRef
    <2> HIDE DEF x
    <2>5. obj \in HostObj /\ obj.lease = api[h].lease /\ obj.label = api[h].label /\ obj.ref = work[w].m
      BY <1>0, <2>1, <2>3 DEF HostObj, MaybeMachine
    <2> HIDE DEF obj
    <2>6. HolderKnows(w, h)'
      <3>1. api'[h] \in {api[h], obj}
        BY <2>1, <2>4, <2>5, CallEffect DEF ClaimCall
      <3>2. /\ work'[w].pc = "release" /\ work'[w].h = h /\ work'[w].m = work[w].m /\ attached' = attached
            /\ ~work'[w].failed => api'[h] = obj /\ ~work[w].failed
        <4>1. CASE Called(h, obj) /\ work' = [work EXCEPT ![w].pc = "release"]
          BY <1>0, <2>1, <2>4, <4>1 DEF Called, Write, ClaimCall, WorkRec
        <4>2. CASE CallFailed(h, obj) /\ work' = [work EXCEPT ![w].pc = "release", ![w].failed = TRUE]
          <5>1. work'[w] = [work[w] EXCEPT !.pc = "release", !.failed = TRUE]
            BY <1>0, <4>2
          <5>2. work'[w].failed
            BY <2>1, <5>1 DEF WorkRec
          <5> QED BY <2>1, <2>4, <5>1, <5>2 DEF ClaimCall, WorkRec
        <4> QED BY <2>4, <4>1, <4>2 DEF ClaimCall
      <3> QED BY <2>3, <2>5, <3>1, <3>2 DEF HolderKnows, Holds
    <2> QED BY <1>6, <2>1, <2>4, <2>5, <2>6 DEF Holding
  <1>9. ASSUME NEW w \in Managers, ReleaseLease(w)
        PROVE  Exclusive'
    <2>0. work[w].h \in Hosts
      BY <1>0, <1>9 DEF ReleaseLease, ControlOK, Holding, WorkRec
    <2> PICK h \in Hosts : h = work[w].h
      BY <2>0
    <2> DEFINE obj == [api[h] EXCEPT !.lease = "none"]
    <2>1. /\ work[w] \in WorkRec /\ work[w].m \in Machines /\ work[w].tries < MaxRetries
          /\ work[w].pc = "release" /\ Holds(w, h)
      BY <1>0, <1>9 DEF ReleaseLease, ControlOK, Holding, WorkRec, Holds
    <2>2. HolderKnows(w, h)
      BY <2>1 DEF Exclusive
    <2>3. UNCHANGED <<api, cache, faults>> \/ Called(h, obj) \/ CallFailed(h, obj)
      BY <1>9 DEF ReleaseLease, Released
    <2>4. obj \in HostObj /\ obj.ref = api[h].ref /\ obj.label = api[h].label
      BY <1>0 DEF HostObj
    <2> HIDE DEF obj
    <2>5. /\ \A k \in Hosts : k # h => api'[k] = api[k]
          /\ api'[h].ref = api[h].ref /\ api'[h].label = api[h].label
          /\ \A v \in Managers, k \in Hosts : cache'[v][k].obj = cache[v][k].obj
      <3>1. CASE UNCHANGED <<api, cache, faults>>
        BY <3>1
      <3> QED BY <2>3, <2>4, <3>1, CallEffect
    <2>6. \A v \in Managers : v # w => ~Holds(v, h)
      BY <2>1 DEF Exclusive, OneHolder
    <2>7. work'[w].pc \notin Holding /\ \A v \in Managers : v # w => work'[v] = work[v]
      <3>1. CASE work' = [work EXCEPT ![w] = Missed(w)]
        BY <1>0, <2>1, <3>1, MissedEffect DEF Holding
      <3>2. CASE work' = [work EXCEPT ![w] = Idle]
        BY <1>0, <3>2 DEF Idle, Holding
      <3> QED BY <1>9, <3>1, <3>2 DEF ReleaseLease
    <2>8. \A k \in Hosts : ~Holds(w, k)'
      BY <2>7 DEF Holds
    <2>9. \A m \in Machines : h \in attached'[m] => api'[h].ref = m /\ api'[h].label = m
      <3>1. \A m \in Machines : h \notin attached[m]
        BY <2>1, <2>2 DEF HolderKnows
      <3>2. CASE work[w].failed
        BY <1>9, <3>1, <3>2 DEF ReleaseLease
      <3>3. CASE ~work[w].failed
        <4>1. attached' = [attached EXCEPT ![work[w].m] = @ \cup {work[w].h}]
          BY <1>9, <3>3 DEF ReleaseLease
        <4>2. api[h].ref = work[w].m /\ api[h].label = work[w].m
          BY <2>1, <2>2, <3>3 DEF HolderKnows
        <4> QED BY <1>0, <2>5, <3>1, <4>1, <4>2
      <3> QED BY <3>2, <3>3
    <2>10. \A m \in Machines, k \in Hosts : k # h => (k \in attached'[m] <=> k \in attached[m])
      BY <1>0, <1>9 DEF ReleaseLease
    <2>11. HolderKnows(w, h)'
      BY <2>8 DEF HolderKnows
    <2>12. /\ \A v \in Managers : v # w => ~Holds(v, h) /\ work'[v] = work[v]
           /\ \A k \in Hosts : k # h => api'[k] = api[k] /\ ~Holds(w, k)'
           /\ \A v \in Managers, k \in Hosts : v # w => cache'[v][k].obj = cache[v][k].obj
      BY <2>5, <2>6, <2>7, <2>8
    <2> QED BY <1>0, <2>9, <2>10, <2>11, <2>12, OthersUndisturbed
  <1>10. ASSUME NEW w \in Managers, NEW h \in Hosts, CacheSync(w, h)
         PROVE  Exclusive'
    <2>1. /\ cache' = [cache EXCEPT ![w][h] = [obj |-> api[h], current |-> TRUE]]
          /\ UNCHANGED <<api, work, attached>>
      BY <1>10 DEF CacheSync
    <2>2. \A v \in Managers, k \in Hosts : cache'[v][k].obj \in {cache[v][k].obj, api[k]}
      BY <1>0, <2>1
    <2>3. ASSUME NEW v \in Managers, NEW k \in Hosts
          PROVE  HolderKnows(v, k)'
      <3>1. HolderKnows(v, k) /\ cache'[v][k].obj \in {cache[v][k].obj, api[k]}
        BY <2>2 DEF Exclusive
      <3> QED BY <2>1, <3>1 DEF HolderKnows, Holds
    <2>4. OneHolder' /\ ClaimIsExclusive'
      BY <2>1 DEF Exclusive, OneHolder, Holds, ClaimIsExclusive
    <2> QED BY <2>3, <2>4 DEF Exclusive
  <1>11. ASSUME NEW h \in Hosts, LeaseExpires(h)
         PROVE  Exclusive'
    <2>1. /\ \A v \in Managers : ~Holds(v, h)
          /\ UNCHANGED <<work, attached>>
          /\ api' = [api EXCEPT ![h].lease = "expired"]
      BY <1>11 DEF LeaseExpires, Fault
    <2>2. /\ \A k \in Hosts : k # h => api'[k] = api[k]
          /\ api'[h].ref = api[h].ref /\ api'[h].label = api[h].label
      BY <1>0, <2>1 DEF HostObj
    <2>3. \A v \in Managers, k \in Hosts : k # h => cache'[v][k] = cache[v][k]
      BY <1>0, <1>11 DEF LeaseExpires
    <2>4. ASSUME NEW v \in Managers, NEW k \in Hosts
          PROVE  HolderKnows(v, k)'
      <3>1. CASE k = h
        BY <2>1, <3>1 DEF HolderKnows, Holds
      <3>2. CASE k # h
        <4>1. HolderKnows(v, k)
          BY DEF Exclusive
        <4> QED BY <2>1, <2>2, <2>3, <3>2, <4>1 DEF HolderKnows, Holds
      <3> QED BY <3>1, <3>2
    <2>5. OneHolder'
      BY <2>1 DEF Exclusive, OneHolder, Holds
    <2>6. ClaimIsExclusive'
      BY <1>0, <2>1, <2>2 DEF Exclusive, ClaimIsExclusive
    <2> QED BY <2>4, <2>5, <2>6 DEF Exclusive
  <1>12. ASSUME NEW h \in Hosts, HostReleased(h)
         PROVE  Exclusive'
    <2> DEFINE obj == [FreeHost EXCEPT !.lease = api[h].lease]
    <2>o. obj \in HostObj
      BY <1>0, ConstantTypes DEF HostObj
    <2>1. /\ \A v \in Managers : h \notin work[v].list
          /\ Write(h, obj) /\ UNCHANGED <<work, faults>>
          /\ attached' = [m \in Machines |-> attached[m] \ {h}]
      BY <1>12 DEF HostReleased
    <2> HIDE DEF obj
    <2>2. /\ \A k \in Hosts : k # h => api'[k] = api[k]
          /\ \A v \in Managers, k \in Hosts : cache'[v][k].obj = cache[v][k].obj
      BY <2>o, <2>1, WriteEffect
    <2>3. \A v \in Managers : ~Holds(v, h)
      BY <2>1 DEF ControlOK, Holds
    <2>4. ASSUME NEW v \in Managers, NEW k \in Hosts
          PROVE  HolderKnows(v, k)'
      <3>1. CASE k = h
        BY <2>1, <2>3, <3>1 DEF HolderKnows, Holds
      <3>2. CASE k # h
        <4>1. HolderKnows(v, k)
          BY DEF Exclusive
        <4> QED BY <2>1, <2>2, <3>2, <4>1 DEF HolderKnows, Holds
      <3> QED BY <3>1, <3>2
    <2>5. OneHolder'
      BY <2>1 DEF Exclusive, OneHolder, Holds
    <2>6. ClaimIsExclusive'
      BY <1>0, <2>1, <2>2 DEF Exclusive, ClaimIsExclusive
    <2> QED BY <2>4, <2>5, <2>6 DEF Exclusive
  <1>13. ASSUME NEW w \in Managers, Restart(w)
         PROVE  Exclusive'
    BY <1>0, <1>13, NothingTouched DEF Restart, Idle, Holding
  <1>14. CASE UNCHANGED vars
    BY <1>14 DEF vars, Exclusive, OneHolder, Holds, ClaimIsExclusive, HolderKnows
  <1> QED
    BY <1>1, <1>2, <1>3, <1>4, <1>5, <1>7, <1>8, <1>9, <1>10, <1>11, <1>12, <1>13, <1>14
       DEF Next, Step

(* The inductive invariant of the claim protocol, with stalled claims its parts  *)
(* about types, control and caches only.                                        *)
THEOREM LeaseInvariant == Spec => [](TypeOK /\ LeaseInv)
  <1>1. Init => TypeOK /\ LeaseInv
    <2> SUFFICES ASSUME Init PROVE TypeOK /\ LeaseInv
      OBVIOUS
    <2>1. \A w \in Managers : work[w] = Idle
      BY DEF Init
    <2>2. Idle.pc = "idle"
      BY DEF Idle
    <2>3. [obj |-> FreeHost, current |-> TRUE] \in CacheRec
      BY ConstantTypes DEF CacheRec
    <2>4. TypeOK
      BY ConstantTypes, BoundAssumption, <2>3 DEF Init, TypeOK
    <2>5. ControlOK
      BY <2>1, <2>2 DEF ControlOK, Holding
    <2>6. CacheCurrent
      BY DEF Init, CacheCurrent
    <2>7. OneHolder /\ \A w \in Managers, h \in Hosts : HolderKnows(w, h)
      BY <2>1, <2>2 DEF OneHolder, HolderKnows, Holds, Holding
    <2>8. ClaimIsExclusive
      BY DEF Init, ClaimIsExclusive
    <2> QED BY <2>4, <2>5, <2>6, <2>7, <2>8 DEF LeaseInv
  <1>2. TypeOK /\ LeaseInv /\ [Next]_vars => (TypeOK /\ LeaseInv)'
    <2> SUFFICES ASSUME TypeOK, LeaseInv, [Next]_vars PROVE (TypeOK /\ LeaseInv)'
      OBVIOUS
    <2>1. ControlOK /\ CacheCurrent
      BY DEF LeaseInv
    <2>2. TypeOK' /\ ControlOK' /\ CacheCurrent'
      BY <2>1, TypeStep
    <2>3. "stall" \notin FaultKinds => Exclusive'
      <3>1. "stall" \notin FaultKinds => Exclusive
        BY DEF LeaseInv, Exclusive
      <3> QED BY <2>1, <2>2, <3>1, ExclusiveStep
    <2> QED BY <2>2, <2>3 DEF LeaseInv, Exclusive
  <1> QED BY <1>1, <1>2, PTL DEF Spec

(* A host that attachByoHost has returned for a machine carries that machine's   *)
(* label and reference until it is released, for any number of managers reading  *)
(* stale caches.                                                                *)
THEOREM ClaimIsExclusiveAlways == Spec => []ClaimIsExclusive
  <1>1. TypeOK /\ LeaseInv => ClaimIsExclusive
    BY DEF LeaseInv, ClaimIsExclusive
  <1> QED BY <1>1, LeaseInvariant, PTL

(* A valid lease goes with the claim that holds it only, and never under a       *)
(* claim that is still running.                                                *)
THEOREM LeaseRemovedByHolderAlways == Spec => LeaseRemovedByHolder
  <1>1. ASSUME TypeOK, LeaseInv, TypeOK', LeaseInv', [Next]_vars, NEW h \in Hosts,
               "stall" \notin FaultKinds, api[h].lease = "live", api'[h].lease = "none"
        PROVE  /\ \E w \in Managers : Holds(w, h)
               /\ \A w \in Managers : ~Holds(w, h)'
    <2>0. /\ api \in [Hosts -> HostObj] /\ cache \in [Managers -> [Hosts -> CacheRec]]
          /\ work \in [Managers -> WorkRec]
          /\ ControlOK /\ CacheCurrent
      BY <1>1 DEF TypeOK, LeaseInv
    <2>1. ASSUME NEW w \in Managers
          PROVE  ~Holds(w, h)'
      <3>1. HolderKnows(w, h)'
        BY <1>1 DEF LeaseInv
      <3> QED BY <1>1, <3>1 DEF HolderKnows
    <2>2. api'[h] # api[h]
      BY <1>1
    <2>3. ASSUME NEW w \in Managers, NEW g \in Hosts, Acquire(w, g)
          PROVE  FALSE
      <3> DEFINE obj == [api[g] EXCEPT !.lease = "live"]
      <3>1. obj \in HostObj /\ obj.lease = "live"
        BY <2>0 DEF HostObj
      <3>2. Called(g, obj) \/ CallFailed(g, obj)
        BY <2>3 DEF Acquire
      <3> HIDE DEF obj
      <3>3. api'[g] \in {api[g], obj} /\ \A k \in Hosts : k # g => api'[k] = api[k]
        BY <1>1, <2>0, <3>1, <3>2, CallEffect
      <3> QED BY <1>1, <2>2, <3>1, <3>3
    <2>4. ASSUME NEW w \in Managers, ClaimLabels(w) \/ ClaimRef(w) \/ ReleaseLease(w)
          PROVE  \E v \in Managers : Holds(v, h)
      <3>1. work[w].pc \in Holding /\ work[w].h \in Hosts
        BY <2>0, <2>4 DEF ClaimLabels, ClaimRef, ReleaseLease, ControlOK, Holding, WorkRec
      <3>2. \A k \in Hosts : k # work[w].h => api'[k] = api[k]
        BY <2>0, <2>4, <3>1 DEF ClaimLabels, ClaimRef, ReleaseLease, ClaimCall, Released,
                                Called, CallFailed, Write
      <3> QED BY <2>2, <3>1, <3>2 DEF Holds
    <2>5. ASSUME NEW g \in Hosts, LeaseExpires(g)
          PROVE  FALSE
      BY <1>1, <2>0, <2>5 DEF LeaseExpires, HostObj
    <2>6. ASSUME NEW g \in Hosts, HostReleased(g)
          PROVE  FALSE
      BY <1>1, <2>0, <2>6 DEF HostReleased, Write, FreeHost
    <2>7. UNCHANGED api \/ \E w \in Managers : Holds(w, h)
      BY <1>1, <2>3, <2>4, <2>5, <2>6
         DEF Next, Step, vars, List, Refused, GiveUp, Refetch, CacheSync, Restart
    <2> QED BY <2>1, <2>2, <2>7
  <1>2. TypeOK /\ LeaseInv /\ TypeOK' /\ LeaseInv' /\ [Next]_vars
        => [\A h \in Hosts :
              "stall" \notin FaultKinds /\ api[h].lease = "live" /\ api'[h].lease = "none"
              => /\ \E w \in Managers : Holds(w, h)
                 /\ \A w \in Managers : ~Holds(w, h)']_vars
    BY <1>1
  <1> QED BY <1>2, LeaseInvariant, PTL DEF Spec, LeaseRemovedByHolder

(* The managers' private copies, the hosts and their leases are of their types,  *)
(* with any number of managers, hosts and faults.                               *)
THEOREM TypeCorrect == Spec => []TypeOK
  <1> QED BY LeaseInvariant, PTL

-----------------------------------------------------------------------------
(* The refinement: the owner is the machine a host was returned for. *)
owners == [h \in Hosts |-> OwnerOf(h)]
nodes == [h \in Hosts |-> NoMachine]

(* Those who have host h when the attached hosts are a. *)
Having(h, a) == {m \in Machines : h \in a[m]}

(* Nobody, or the one machine, that has a host is its owner, before and after a  *)
(* step.                                                                        *)
LEMMA OwnerIs ==
    ASSUME NEW h \in Hosts
    PROVE  /\ Having(h, attached) = {} => OwnerOf(h) = NoMachine
           /\ Having(h, attached') = {} => OwnerOf(h)' = NoMachine
           /\ \A m \in Machines : Having(h, attached') = {m} => OwnerOf(h)' = m
           /\ Having(h, attached') = Having(h, attached) => OwnerOf(h)' = OwnerOf(h)
  <1> DEFINE Sole(O) == IF O = {} THEN NoMachine ELSE CHOOSE m \in O : TRUE
  <1>1. OwnerOf(h) = Sole(Having(h, attached)) /\ OwnerOf(h)' = Sole(Having(h, attached'))
    BY DEF OwnerOf, Having
  <1>2. Sole({}) = NoMachine /\ \A m : Sole({m}) = m
    OBVIOUS
  <1> HIDE DEF Sole
  <1> QED BY <1>1, <1>2

(* A step that only changes who has h, from nobody to a machine or back.         *)
LEMMA HandOverStep ==
    ASSUME NEW h \in Hosts, \A k \in Hosts : k # h => OwnerOf(k)' = OwnerOf(k),
           \/ OwnerOf(h)' = OwnerOf(h)
           \/ OwnerOf(h) = NoMachine /\ OwnerOf(h)' \in Machines
           \/ OwnerOf(h) # NoMachine /\ OwnerOf(h)' = NoMachine
    PROVE  [Pooled!Next]_<<owners, nodes>>
  <1>1. /\ owners' = [owners EXCEPT ![h] = OwnerOf(h)'] /\ owners[h] = OwnerOf(h)
        /\ nodes' = nodes /\ nodes[h] = NoMachine
    BY DEF owners, nodes
  <1>2. CASE OwnerOf(h)' = OwnerOf(h)
    BY <1>1, <1>2 DEF owners
  <1>3. CASE OwnerOf(h) = NoMachine /\ OwnerOf(h)' \in Machines
    <2>1. Pooled!Claim(h, OwnerOf(h)')
      BY <1>1, <1>3 DEF Pooled!Claim, owners, nodes
    <2> QED BY <1>3, <2>1 DEF Pooled!Next
  <1>4. CASE OwnerOf(h) # NoMachine /\ OwnerOf(h)' = NoMachine
    <2>1. Pooled!Release(h)
      BY <1>1, <1>4 DEF Pooled!Release, owners, nodes
    <2> QED BY <2>1 DEF Pooled!Next
  <1> QED BY <1>2, <1>3, <1>4

(* Every action hands one host over, takes one back, or changes no owner.        *)
LEMMA PoolStep ==
    ASSUME "stall" \notin FaultKinds, TypeOK, LeaseInv, TypeOK', LeaseInv', [Next]_vars
    PROVE  [Pooled!Next]_<<owners, nodes>>
  <1>0. /\ attached \in [Machines -> SUBSET Hosts] /\ work \in [Managers -> WorkRec]
        /\ ControlOK
        /\ \A w \in Managers, h \in Hosts : HolderKnows(w, h)
    BY DEF TypeOK, LeaseInv
  <1>1. CASE UNCHANGED attached
    <2>1. \A h \in Hosts : OwnerOf(h)' = OwnerOf(h)
      BY <1>1, OwnerIs
    <2> QED BY <2>1 DEF owners, nodes
  <1>2. ASSUME NEW w \in Managers, ReleaseLease(w), ~UNCHANGED attached
        PROVE  [Pooled!Next]_<<owners, nodes>>
    <2>1. PICK h \in Hosts, m \in Machines :
            Holds(w, h) /\ attached' = [attached EXCEPT ![m] = @ \cup {h}]
      BY <1>0, <1>2 DEF ReleaseLease, ControlOK, Holds, Holding, WorkRec
    <2>2. \A n \in Machines : h \notin attached[n]
      BY <1>0, <2>1 DEF HolderKnows
    <2>3. Having(h, attached) = {} /\ Having(h, attached') = {m}
      BY <1>0, <2>1, <2>2 DEF Having
    <2>4. OwnerOf(h) = NoMachine /\ OwnerOf(h)' = m
      BY <2>1, <2>3, OwnerIs
    <2>5. ASSUME NEW k \in Hosts, k # h PROVE OwnerOf(k)' = OwnerOf(k)
      <3>1. Having(k, attached') = Having(k, attached)
        BY <1>0, <2>1, <2>5 DEF Having
      <3> QED BY <3>1, OwnerIs
    <2> QED
      <3>1. \A k \in Hosts : k # h => OwnerOf(k)' = OwnerOf(k)
        BY <2>5
      <3> QED BY <2>1, <2>4, <3>1, HandOverStep
  <1>3. ASSUME NEW h \in Hosts, HostReleased(h)
        PROVE  [Pooled!Next]_<<owners, nodes>>
    <2>1. attached' = [m \in Machines |-> attached[m] \ {h}]
      BY <1>3 DEF HostReleased
    <2>2. Having(h, attached') = {}
      BY <2>1 DEF Having
    <2>3. OwnerOf(h)' = NoMachine
      BY <2>2, OwnerIs
    <2>4. ASSUME NEW k \in Hosts, k # h PROVE OwnerOf(k)' = OwnerOf(k)
      <3>1. Having(k, attached') = Having(k, attached)
        BY <1>0, <2>1, <2>4 DEF Having
      <3> QED BY <3>1, OwnerIs
    <2> QED
      <3>1. \A k \in Hosts : k # h => OwnerOf(k)' = OwnerOf(k)
        BY <2>4
      <3> QED BY <2>3, <3>1, HandOverStep
  <1> QED
    BY <1>1, <1>2, <1>3
       DEF Next, Step, vars, List, Acquire, Refused, GiveUp, Refetch, ClaimLabels, ClaimRef,
           ClaimCall, CacheSync, LeaseExpires, Restart

(* Several managers with stale caches hand out hosts as HostPool promises, if no *)
(* claim outlasts its lease.                                                    *)
THEOREM AttachRefinement ==
    ASSUME "stall" \notin FaultKinds
    PROVE  Spec => AttachImplementsPool
  <1>1. Init => Pooled!Init
    <2> SUFFICES ASSUME Init PROVE Pooled!Init
      OBVIOUS
    <2>1. \A h \in Hosts : Having(h, attached) = {}
      BY DEF Init, Having
    <2>2. \A h \in Hosts : OwnerOf(h) = NoMachine
      BY <2>1, OwnerIs
    <2> QED BY <2>2 DEF Pooled!Init
  <1>2. TypeOK /\ LeaseInv /\ TypeOK' /\ LeaseInv' /\ [Next]_vars
           => [Pooled!Next]_<<owners, nodes>>
    BY PoolStep
  <1>3. Spec => Pooled!Spec
    BY <1>1, <1>2, LeaseInvariant, PTL DEF Spec, Pooled!Spec, owners, nodes
  <1> QED BY <1>3 DEF AttachImplementsPool
==============================================================================
