---------------------------- MODULE HostSelection ----------------------------
(***************************************************************************)
(* How attachByoHost chooses a host: selectHostForClaim filters the listed *)
(* hosts by capacity, keeps those of the highest priority and picks one by *)
(* a round-robin index kept in memory per cluster.  The list comes from    *)
(* the informer cache, in no particular order, and is the same for all     *)
(* tries of one attachByoHost.  An index beyond the list is a run-time     *)
(* panic, which ends the manager process; its restart forgets the indexes. *)
(***************************************************************************)
EXTENDS Integers, SequencesExt

CONSTANTS Hosts, Machines, Clusters, None,
          Cluster,       \* the cluster of each machine
          Need,          \* Spec.CapacityRequirements of each machine (one resource)
          Capacity,      \* Spec.Capacity of each host
          Priority,      \* Spec.Priority of each host (an int32)
          MaxRetries,    \* tries of the claim loop (5 in the code)
          MaxMisses,     \* bound: tries that fail after the selection
          MaxArrivals    \* bound: machines that come to need a host

ASSUME SelectionAssumption ==
    /\ Hosts # {} /\ IsFiniteSet(Hosts) /\ None \notin Hosts \cup Machines
    /\ Cluster \in [Machines -> Clusters]
    /\ Need \in [Machines -> Int] /\ Capacity \in [Hosts -> Int] /\ Priority \in [Hosts -> Int]
    /\ MaxRetries \in Nat \ {0} /\ MaxMisses \in Nat /\ MaxArrivals \in Nat

VARIABLES holder,    \* the machine each host is claimed by
          waiting,   \* machines that need a host
          up,        \* the manager runs
          index,     \* roundRobinIndex
          cur,       \* the machine whose attachByoHost runs
          list,      \* hostsList of that attachByoHost
          pick,      \* the host selected in the current try
          tries, misses, arrivals

vars == <<holder, waiting, up, index, cur, list, pick, tries, misses, arrivals>>

Free == {h \in Hosts : holder[h] = None}

(* The indexes that can have been within a list of hosts of one priority. *)
Indexes == UNION {0..Cardinality({g \in Hosts : Priority[g] = Priority[h]}) - 1 : h \in Hosts}

(* The state is of its type; an index was within some list when it was set. *)
TypeOK ==
    /\ holder \in [Hosts -> Machines \cup {None}]
    /\ waiting \subseteq Machines
    /\ up \in BOOLEAN
    /\ index \in [Clusters -> Indexes]
    /\ cur \in Machines \cup {None}
    /\ list \in Seq(Hosts)
    /\ pick \in Hosts \cup {None}
    /\ tries \in 0..MaxRetries /\ misses \in 0..MaxMisses /\ arrivals \in 0..MaxArrivals

Init ==
    /\ holder = [h \in Hosts |-> None]
    /\ waiting = {}
    /\ up = TRUE
    /\ index = [c \in Clusters |-> 0]
    /\ cur = None /\ list = <<>> /\ pick = None
    /\ tries = 0 /\ misses = 0 /\ arrivals = 0

-----------------------------------------------------------------------------
MatchesRequirements(m, h) == Capacity[h] >= Need[m]

(* The candidates of selectHostForClaim, by their positions in the list. *)
Available(m, s) == {i \in DOMAIN s : MatchesRequirements(m, s[i])}

(* The maximum is sought from 0 on. *)
MaxPriority(s, I) == Max({0} \cup {Priority[s[i]] : i \in I})

(* Faulty variant: the capacity is not looked at. *)
HighPriorityOfAll(m, s) == {i \in DOMAIN s : Priority[s[i]] = MaxPriority(s, DOMAIN s)}

HighPriority(m, s) ==
    {i \in Available(m, s) : Priority[s[i]] = MaxPriority(s, Available(m, s))}

(* The index in highPriorityHosts, from 0 on, of the host at position i. *)
Rank(i, I) == Cardinality({j \in I : j < i})

(* A machine needs a host. *)
Arrive(m) ==
    /\ arrivals < MaxArrivals /\ m \notin waiting /\ \A h \in Hosts : holder[h] # m
    /\ waiting' = waiting \cup {m}
    /\ arrivals' = arrivals + 1
    /\ UNCHANGED <<holder, up, index, cur, list, pick, tries, misses>>

(* attachByoHost lists the hosts without a cluster label. *)
List(m) ==
    /\ up /\ cur = None
    /\ m \in waiting /\ Free # {}
    /\ cur' = m /\ list' \in SetToSeqs(Free) /\ tries' = 0
    /\ UNCHANGED <<holder, waiting, up, index, pick, misses, arrivals>>

Return == cur' = None /\ list' = <<>> /\ pick' = None /\ tries' = 0

(* selectHostForClaim finds no host that fits. *)
SelectNone ==
    /\ cur # None /\ pick = None /\ tries < MaxRetries
    /\ Available(cur, list) = {}
    /\ Return
    /\ UNCHANGED <<holder, waiting, up, index, misses, arrivals>>

(* Faulty variant: the index does not wrap around. *)
SelectUnwrapped ==
    /\ cur # None /\ pick = None /\ tries < MaxRetries
    /\ LET I == HighPriority(cur, list)
       IN \E i \in I : /\ Rank(i, I) = index[Cluster[cur]] /\ pick' = list[i]
                       /\ index' = [index EXCEPT ![Cluster[cur]] = @ + 1]
    /\ UNCHANGED <<holder, waiting, up, cur, list, tries, misses, arrivals>>

(* selectHostForClaim returns a host. *)
Select ==
    /\ cur # None /\ pick = None /\ tries < MaxRetries
    /\ LET I == HighPriority(cur, list)
       IN \E i \in I : /\ Rank(i, I) = index[Cluster[cur]] /\ pick' = list[i]
                       /\ index' = [index EXCEPT ![Cluster[cur]] = (@ + 1) % Cardinality(I)]
    /\ UNCHANGED <<holder, waiting, up, cur, list, tries, misses, arrivals>>

(* selectHostForClaim indexes beyond the candidates. *)
Panics(m, s) == Available(m, s) # {} /\ index[Cluster[m]] >= Cardinality(HighPriority(m, s))

(* Faulty variant: the index outlives the process. *)
PanicKeepsIndex ==
    /\ cur # None /\ pick = None /\ tries < MaxRetries
    /\ Panics(cur, list)
    /\ Return /\ up' = FALSE
    /\ UNCHANGED <<holder, waiting, index, misses, arrivals>>

Panic ==
    /\ cur # None /\ pick = None /\ tries < MaxRetries
    /\ Panics(cur, list)
    /\ Return
    /\ up' = FALSE /\ index' = [c \in Clusters |-> 0]
    /\ UNCHANGED <<holder, waiting, misses, arrivals>>

(* The rest of a try: the claim succeeds, or it fails and the loop goes on. *)
Claim ==
    /\ pick # None
    /\ holder' = [holder EXCEPT ![pick] = cur]
    /\ waiting' = waiting \ {cur}
    /\ Return
    /\ UNCHANGED <<up, index, misses, arrivals>>

Miss ==
    /\ pick # None /\ misses < MaxMisses
    /\ misses' = misses + 1
    /\ tries' = tries + 1 /\ pick' = None
    /\ UNCHANGED <<holder, waiting, up, index, cur, list, arrivals>>

GiveUp ==
    /\ tries = MaxRetries
    /\ Return
    /\ UNCHANGED <<holder, waiting, up, index, misses, arrivals>>

(* A machine is deleted and its host, cleaned up, is back in the pool. *)
Release(h) ==
    /\ holder[h] # None
    /\ holder' = [holder EXCEPT ![h] = None]
    /\ UNCHANGED <<waiting, up, index, cur, list, pick, tries, misses, arrivals>>

Restart ==
    /\ ~up
    /\ up' = TRUE
    /\ UNCHANGED <<holder, waiting, index, cur, list, pick, tries, misses, arrivals>>

Attach == SelectNone \/ Select \/ Panic \/ Claim \/ Miss \/ GiveUp

Next ==
    \/ Attach \/ Restart
    \/ \E m \in Machines : Arrive(m) \/ List(m)
    \/ \E h \in Hosts : Release(h)

Spec == Init /\ [][Next]_vars

(* A started reconcile runs on, the deployment restarts the manager, and a   *)
(* machine without a host is queued again (RequeueForbyohost).               *)
FairSpec ==
    /\ Spec
    /\ WF_vars(Attach) /\ WF_vars(Restart)
    /\ \A m \in Machines : SF_vars(List(m))

-----------------------------------------------------------------------------
(* The host that is selected is one the machine fits on, and no listed host    *)
(* that would fit has a higher priority, whatever the round-robin index has     *)
(* become in other reconciles (selectHostForClaim 1810-1863).                   *)
PicksBest ==
    pick # None =>
        /\ MatchesRequirements(cur, pick)
        /\ \A h \in Range(list) : MatchesRequirements(cur, h) => Priority[h] <= Priority[pick]

(* A machine that needs a host gets one, or none is left that it fits on: the   *)
(* retries, a panic of selectHostForClaim and the loss of the index with it      *)
(* only delay the claim.                                                         *)
MachineServed ==
    \A m \in Machines :
        m \in waiting ~> (m \notin waiting \/ \A h \in Free : ~MatchesRequirements(m, h))

(* "priority-based selection with round-robin for hosts with the same priority"  *)
(* (byomachine_controller.go 1804), "wrap around" (1859): the index stays within  *)
(* the hosts to choose from.                                                     *)
NoPanic == up
==============================================================================
