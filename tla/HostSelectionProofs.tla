------------------------ MODULE HostSelectionProofs ------------------------
(***************************************************************************)
(* Proofs about HostSelection, for any finite set of hosts, any            *)
(* priorities (negative ones too), capacities and clusters: the host that  *)
(* is selected is a best one, and a round-robin index was always within    *)
(* the candidates of the time at which it was set.                         *)
(***************************************************************************)
EXTENDS HostSelection, FiniteSetTheorems, WellFoundedInduction, TLAPS

(* What a try keeps: a host is only selected while a machine is being served    *)
(* and a try is left, and the list names no host twice.                         *)
TryInv ==
    /\ pick # None => cur # None /\ tries < MaxRetries
    /\ \A i, j \in DOMAIN list : list[i] = list[j] => i = j

SelectInv == TypeOK /\ TryInv /\ PicksBest

-----------------------------------------------------------------------------
(* A finite set of integers has a maximum: a least subset without one would     *)
(* still lack it with one element less.                                         *)
LEMMA FiniteMax ==
    ASSUME NEW S \in SUBSET Int, IsFiniteSet(S), S # {}
    PROVE  Max(S) \in S /\ \A y \in S : Max(S) >= y
<1> DEFINE Tops(U) == {x \in U : \A y \in U : x >= y}
           T == {U \in SUBSET S : U # {} /\ Tops(U) = {}}
           R == StrictSubsetOrdering(S)
<1>1. T = {}
  <2> SUFFICES ASSUME T # {} PROVE FALSE
    OBVIOUS
  <2>1. T \subseteq FiniteSubsetsOf(S)
    BY FS_Subset DEF FiniteSubsetsOf
  <2>2. IsWellFoundedOn(R, FiniteSubsetsOf(S))
    BY FS_StrictSubsetOrderingWellFounded
  <2>3. PICK U \in T : \A V \in T : ~(<<V, U>> \in R)
    <3> HIDE DEF T, R
    <3> QED BY <2>1, <2>2, WFMin
  <2>4. PICK x \in U : TRUE
    OBVIOUS
  <2> DEFINE V == U \ {x}
  <2>5. V \in SUBSET S /\ <<V, U>> \in R
    BY <2>4 DEF StrictSubsetOrdering
  <2>6. V = {} \/ Tops(V) # {}
    BY <2>3, <2>5
  <2>7. CASE V = {}
    <3>1. U = {x} /\ x \in Int
      BY <2>4, <2>7
    <3> QED BY <3>1
  <2>8. CASE Tops(V) # {}
    <3>1. PICK y \in V : \A z \in V : y >= z
      BY <2>8
    <3>2. x \in Int /\ y \in Int /\ U \subseteq Int /\ y \in U
      BY <2>4, <3>1
    <3>3. CASE x >= y
      <4>1. \A z \in U : x >= z
        BY <3>1, <3>2, <3>3
      <4> QED BY <2>4, <4>1
    <3>4. CASE ~(x >= y)
      <4>1. \A z \in U : y >= z
        BY <3>1, <3>2, <3>4
      <4> QED BY <3>2, <4>1
    <3> QED BY <3>3, <3>4
  <2> QED BY <2>6, <2>7, <2>8
<1>2. \E x \in S : \A y \in S : x >= y
  BY <1>1
<1> QED BY <1>2 DEF Max

(* The maximum of selectHostForClaim is at least the priority of every host it  *)
(* ranges over.                                                                 *)
LEMMA MaxPriorityIsMax ==
    ASSUME SelectionAssumption, NEW s \in Seq(Hosts), NEW I \in SUBSET DOMAIN s
    PROVE  /\ MaxPriority(s, I) \in {0} \cup {Priority[s[i]] : i \in I}
           /\ \A y \in {0} \cup {Priority[s[i]] : i \in I} : MaxPriority(s, I) >= y
<1> DEFINE P == {Priority[s[i]] : i \in I}
           f == [i \in I |-> Priority[s[i]]]
<1>1. IsFiniteSet(I)
  <2>1. DOMAIN s = 1..Len(s) /\ Len(s) \in Nat
    OBVIOUS
  <2>2. IsFiniteSet(1..Len(s))
    BY <2>1, FS_Interval
  <2> QED BY <2>1, <2>2, FS_Subset
<1>2. f \in Surjection(I, P)
  BY DEF Surjection
<1>3. IsFiniteSet(P)
  <2> HIDE DEF P, f
  <2> QED BY <1>1, <1>2, FS_Surjection
<1>4. P \subseteq Int
  BY DEF SelectionAssumption
<1>5. IsFiniteSet({0} \cup P)
  <2> HIDE DEF P
  <2>1. IsFiniteSet(P \cup {0}) /\ P \cup {0} = {0} \cup P
    BY <1>3, FS_AddElement
  <2> QED BY <2>1
<1>6. {0} \cup P \in SUBSET Int /\ {0} \cup P # {}
  BY <1>4
<1> DEFINE S == {0} \cup P
<1>7. Max(S) \in S /\ \A y \in S : Max(S) >= y
  <2> HIDE DEF S
  <2> QED BY <1>5, <1>6, FiniteMax DEF S
<1> QED BY <1>7 DEF MaxPriority

LEMMA MaxPriorityBounds ==
    ASSUME SelectionAssumption, NEW s \in Seq(Hosts), NEW I \in SUBSET DOMAIN s
    PROVE  \A i \in I : Priority[s[i]] <= MaxPriority(s, I)
<1> DEFINE P == {Priority[s[i]] : i \in I}
<1>1. P \subseteq Int
  BY DEF SelectionAssumption
<1>2. MaxPriority(s, I) \in {0} \cup P /\ \A y \in P : MaxPriority(s, I) >= y
  BY MaxPriorityIsMax
<1> QED BY <1>1, <1>2

(* It is the priority of one of them when none is negative.                     *)
LEMMA MaxPriorityAttained ==
    ASSUME SelectionAssumption, NEW s \in Seq(Hosts), NEW I \in SUBSET DOMAIN s, I # {},
           \A h \in Hosts : Priority[h] >= 0
    PROVE  \E i \in I : Priority[s[i]] = MaxPriority(s, I)
<1> DEFINE P == {Priority[s[i]] : i \in I}
           M == MaxPriority(s, I)
<1>1. PICK i \in I : TRUE
  OBVIOUS
<1>2. s[i] \in Hosts /\ Priority[s[i]] \in Int /\ Priority[s[i]] >= 0
  BY DEF SelectionAssumption
<1>3. M \in {0} \cup P /\ M >= Priority[s[i]]
  <2> HIDE DEF M
  <2> QED BY MaxPriorityIsMax DEF M
<1> HIDE DEF M
<1>4. CASE M = 0
  BY <1>2, <1>3, <1>4 DEF M
<1>5. CASE M \in P
  BY <1>5 DEF M
<1> QED BY <1>3, <1>4, <1>5

(* An index is one into the hosts of some priority.                             *)
LEMMA IndexOfPriority ==
    ASSUME NEW h \in Hosts,
           NEW k \in 0..Cardinality({g \in Hosts : Priority[g] = Priority[h]}) - 1
    PROVE  k \in Indexes
BY DEF Indexes

(* The candidates of highest priority are no more than the hosts of that        *)
(* priority, since the list names each host once.                               *)
LEMMA CandidatesBounded ==
    ASSUME SelectionAssumption, NEW m, NEW s \in Seq(Hosts), NEW i \in HighPriority(m, s),
           \A j, k \in DOMAIN s : s[j] = s[k] => j = k
    PROVE  /\ Cardinality(HighPriority(m, s)) \in Nat \ {0}
           /\ \A k \in 0..Cardinality(HighPriority(m, s)) - 1 : k \in Indexes
<1> DEFINE I == HighPriority(m, s)
           G == {g \in Hosts : Priority[g] = Priority[s[i]]}
           f == [j \in I |-> s[j]]
<1>1. s[i] \in Hosts /\ I \subseteq DOMAIN s
  BY DEF HighPriority, Available
<1>2. IsFiniteSet(G)
  BY FS_Subset DEF SelectionAssumption
<1>3. f \in Injection(I, G)
  <2>1. \A j \in I : s[j] \in G
    BY DEF HighPriority, Available
  <2> HIDE DEF I, G
  <2> QED BY <1>1, <2>1 DEF Injection, IsInjective
<1>4. IsFiniteSet(I) /\ Cardinality(I) <= Cardinality(G)
  <2> HIDE DEF I, G, f
  <2> QED BY <1>2, <1>3, FS_Injection
<1>5. Cardinality(I) \in Nat /\ Cardinality(G) \in Nat /\ Cardinality(I) # 0
  <2>1. I # {}
    OBVIOUS
  <2> HIDE DEF I, G
  <2> QED BY <1>2, <1>4, <2>1, FS_CardinalityType, FS_EmptySet
<1>6. \A k \in 0..Cardinality(G) - 1 : k \in Indexes
  BY <1>1, IndexOfPriority
<1> HIDE DEF I, G
<1>7. \A k \in 0..Cardinality(I) - 1 : k \in 0..Cardinality(G) - 1
  BY <1>4, <1>5
<1> QED BY <1>5, <1>6, <1>7 DEF I

(* The index every cluster starts with is one of a candidate: there are hosts.  *)
LEMMA ZeroIndex ==
    ASSUME SelectionAssumption
    PROVE  0 \in Indexes
<1>1. PICK h \in Hosts : TRUE
  BY DEF SelectionAssumption
<1> DEFINE G == {g \in Hosts : Priority[g] = Priority[h]}
<1>2. IsFiniteSet(G) /\ G # {}
  BY <1>1, FS_Subset DEF SelectionAssumption
<1>3. Cardinality(G) \in Nat \ {0}
  <2> HIDE DEF G
  <2> QED BY <1>2, FS_CardinalityType, FS_EmptySet
<1>4. 0 \in 0..Cardinality(G) - 1
  <2> HIDE DEF G
  <2> QED BY <1>3
<1> QED BY <1>1, <1>4, IndexOfPriority

(* A remainder is below the modulus.                                            *)
LEMMA Remainder ==
    ASSUME NEW a \in Nat, NEW n \in Nat \ {0}
    PROVE  a % n \in 0..n - 1
OBVIOUS

(* Indexes are natural numbers.                                                 *)
LEMMA IndexesNat ==
    ASSUME SelectionAssumption
    PROVE  Indexes \subseteq Nat
<1> SUFFICES ASSUME NEW h \in Hosts,
                    NEW k \in 0..Cardinality({g \in Hosts : Priority[g] = Priority[h]}) - 1
             PROVE  k \in Nat
  BY DEF Indexes
<1> DEFINE G == {g \in Hosts : Priority[g] = Priority[h]}
<1>1. Cardinality(G) \in Nat
  BY FS_Subset, FS_CardinalityType DEF SelectionAssumption
<1> QED BY <1>1

(* attachByoHost's list holds hosts, each once.                                  *)
LEMMA ListsOnce ==
    ASSUME SelectionAssumption, NEW s \in SetToSeqs(Free)
    PROVE  s \in Seq(Hosts) /\ \A i, j \in DOMAIN s : s[i] = s[j] => i = j
<1>1. IsFiniteSet(Free)
  BY FS_Subset DEF Free, SelectionAssumption
<1>2. Cardinality(Free) \in Nat
  BY <1>1, FS_CardinalityType
<1>3. s \in [1..Cardinality(Free) -> Free] /\ Free \subseteq Hosts
  BY DEF SetToSeqs, Free
<1>4. s \in Seq(Hosts)
  BY <1>2, <1>3
<1> QED BY <1>3, <1>4 DEF SetToSeqs, IsInjective

-----------------------------------------------------------------------------
(* The step that matters: the selected host satisfies PicksBest, and the index  *)
(* set with it is within the hosts of its priority.                             *)
LEMMA SelectKeeps ==
    ASSUME SelectionAssumption, SelectInv, Select
    PROVE  SelectInv'
<1> USE DEF SelectInv, TypeOK, TryInv
<1> DEFINE I == HighPriority(cur, list)
<1>1. PICK i \in I : /\ pick' = list[i]
                     /\ index' = [index EXCEPT ![Cluster[cur]]
                                             = (index[Cluster[cur]] + 1) % Cardinality(I)]
  BY Zenon DEF Select
<1>2. /\ cur \in Machines /\ tries < MaxRetries /\ Cluster[cur] \in Clusters
      /\ UNCHANGED <<holder, waiting, up, cur, list, tries, misses, arrivals>>
  BY DEF Select, SelectionAssumption
<1>3. i \in DOMAIN list /\ list[i] \in Hosts /\ MatchesRequirements(cur, list[i])
      /\ Priority[list[i]] = MaxPriority(list, Available(cur, list))
  BY DEF HighPriority, Available
<1>4. TypeOK'
  <2>1. /\ Cardinality(I) \in Nat \ {0}
        /\ \A k \in 0..Cardinality(I) - 1 : k \in Indexes
    BY CandidatesBounded
  <2>2. index[Cluster[cur]] \in Nat
    <3>1. Indexes \subseteq Nat
      BY IndexesNat
    <3> QED BY <1>2, <3>1
  <2>3. (index[Cluster[cur]] + 1) % Cardinality(I) \in 0..Cardinality(I) - 1
    <3> DEFINE k == index[Cluster[cur]]
               n == Cardinality(I)
    <3>1. k + 1 \in Nat /\ n \in Nat \ {0}
      BY <2>1, <2>2
    <3> HIDE DEF k, n
    <3> QED BY <3>1, Remainder DEF k, n
  <2>4. index' \in [Clusters -> Indexes]
    <3> HIDE DEF I
    <3> QED BY <1>1, <2>1, <2>3
  <2> QED BY <1>1, <1>2, <1>3, <2>4
<1>5. TryInv'
  BY <1>2, SelectionAssumption DEF SelectionAssumption
<1>6. PicksBest'
  <2>1. \A j \in Available(cur, list) : Priority[list[j]] <= Priority[list[i]]
    <3>1. Available(cur, list) \in SUBSET DOMAIN list
      BY DEF Available
    <3>2. \A j \in Available(cur, list) :
             Priority[list[j]] <= MaxPriority(list, Available(cur, list))
      <4> HIDE DEF I
      <4> QED BY <3>1, MaxPriorityBounds
    <3> QED BY <1>3, <3>2
  <2>2. \A h \in Range(list) : MatchesRequirements(cur, h) => Priority[h] <= Priority[list[i]]
    BY <2>1 DEF Available, Range
  <2> QED BY <1>1, <1>2, <1>3, <2>2 DEF PicksBest, MatchesRequirements
<1> QED BY <1>4, <1>5, <1>6

(* Every other step of the claim loop and of its surroundings.                  *)
LEMMA OthersKeep ==
    ASSUME SelectionAssumption, SelectInv, [Next]_vars, ~Select
    PROVE  SelectInv'
<1> USE DEF SelectInv, TypeOK, TryInv
<1>e. Return => /\ cur' \in Machines \cup {None} /\ list' \in Seq(Hosts)
                /\ pick' \in Hosts \cup {None} /\ tries' \in 0..MaxRetries
                /\ TryInv' /\ PicksBest'
  BY DEF Return, PicksBest, SelectionAssumption
<1>1. CASE SelectNone
  BY <1>1, <1>e DEF SelectNone
<1>2. CASE Panic
  BY <1>2, <1>e, ZeroIndex DEF Panic
<1>3. CASE Claim
  BY <1>3, <1>e DEF Claim
<1>4. CASE Miss
  BY <1>4 DEF Miss, PicksBest, SelectionAssumption
<1>5. CASE GiveUp
  BY <1>5, <1>e DEF GiveUp
<1>6. CASE Restart
  BY <1>6 DEF Restart, PicksBest, MatchesRequirements
<1>7. ASSUME NEW m \in Machines, Arrive(m) PROVE SelectInv'
  BY <1>7 DEF Arrive, PicksBest, MatchesRequirements, SelectionAssumption
<1>8. ASSUME NEW m \in Machines, List(m) PROVE SelectInv'
  <2>1. list' \in Seq(Hosts) /\ \A i, j \in DOMAIN list' : list'[i] = list'[j] => i = j
    BY <1>8, ListsOnce DEF List
  <2> QED BY <1>8, <2>1 DEF List, PicksBest, SelectionAssumption
<1>9. ASSUME NEW h \in Hosts, Release(h) PROVE SelectInv'
  BY <1>9 DEF Release, PicksBest, MatchesRequirements
<1>10. CASE UNCHANGED vars
  BY <1>10 DEF vars, PicksBest, MatchesRequirements
<1> QED BY <1>1, <1>2, <1>3, <1>4, <1>5, <1>6, <1>7, <1>8, <1>9, <1>10 DEF Next, Attach

(* The claim loop keeps SelectInv, for any hosts, priorities and interleaving    *)
(* of reconciles, panics and restarts.                                          *)
THEOREM SelectInvariant == Spec => []SelectInv
<1>1. Init => SelectInv
  BY SelectionAssumption, ZeroIndex
     DEF Init, SelectInv, TypeOK, TryInv, PicksBest, SelectionAssumption
<1>2. SelectInv /\ [Next]_vars => SelectInv'
  BY SelectionAssumption, SelectKeeps, OthersKeep
<1> QED BY <1>1, <1>2, PTL DEF Spec

(* roundRobinIndex only ever holds an index that was within the candidates when  *)
(* it was set ((currentIndex + 1) % len(highPriorityHosts)), whatever list the    *)
(* next reconcile applies it to.                                                 *)
THEOREM TypeCorrect == Spec => []TypeOK
BY SelectInvariant, PTL DEF SelectInv

(* selectHostForClaim never returns a host that does not fit, or one of lower     *)
(* priority than a listed host that fits.                                         *)
THEOREM PicksBestAlways == Spec => []PicksBest
BY SelectInvariant, PTL DEF SelectInv

-----------------------------------------------------------------------------
(* A position set has an element of every rank below its size: the largest       *)
(* element of a least counterexample has the highest rank and disturbs no other. *)
LEMMA RankOnto ==
    ASSUME NEW S \in SUBSET Nat, IsFiniteSet(S)
    PROVE  \A k \in 0..Cardinality(S) - 1 : \E i \in S : Rank(i, S) = k
<1> DEFINE Onto(U) == \A k \in 0..Cardinality(U) - 1 : \E i \in U : Rank(i, U) = k
           T == {U \in SUBSET S : ~Onto(U)}
           R == StrictSubsetOrdering(S)
<1>1. T = {}
  <2> SUFFICES ASSUME T # {} PROVE FALSE
    OBVIOUS
  <2>1. T \subseteq FiniteSubsetsOf(S)
    <3> HIDE DEF Onto
    <3> QED BY FS_Subset DEF FiniteSubsetsOf
  <2>2. IsWellFoundedOn(R, FiniteSubsetsOf(S))
    BY FS_StrictSubsetOrderingWellFounded
  <2>3. PICK U \in T : \A V \in T : ~(<<V, U>> \in R)
    <3> HIDE DEF T, R
    <3> QED BY <2>1, <2>2, WFMin
  <2>4. U \in SUBSET S /\ U \subseteq Int /\ IsFiniteSet(U) /\ ~Onto(U)
    <3> HIDE DEF Onto
    <3>1. U \in SUBSET S /\ ~Onto(U)
      BY <2>3
    <3>2. IsFiniteSet(U)
      BY <3>1, FS_Subset
    <3>3. U \subseteq Int
      BY <3>1
    <3> QED BY <3>1, <3>2, <3>3
  <2>5. U # {}
    <3>1. Onto({})
      BY FS_EmptySet
    <3> HIDE DEF Onto
    <3> QED BY <2>4, <3>1
  <2> DEFINE x == Max(U)
             V == U \ {x}
  <2>6. x \in U /\ \A y \in U : x >= y
    BY <2>4, <2>5, FiniteMax
  <2> HIDE DEF x
  <2>7. V \in SUBSET S /\ <<V, U>> \in R
    BY <2>4, <2>6 DEF StrictSubsetOrdering
  <2>8. Onto(V)
    <3> HIDE DEF Onto, R
    <3> QED BY <2>3, <2>7
  <2>9. IsFiniteSet(V) /\ Cardinality(V) = Cardinality(U) - 1
        /\ Cardinality(U) \in Nat /\ Cardinality(V) \in Nat
    BY <2>4, <2>6, FS_RemoveElement, FS_CardinalityType
  <2>10. Rank(x, U) = Cardinality(V)
    <3> HIDE DEF Onto
    <3>1. \A j \in U : j < x <=> j # x
      BY <2>4, <2>6
    <3>2. {j \in U : j < x} = V
      BY <3>1
    <3> QED BY <3>2 DEF Rank
  <2>11. \A i \in V : Rank(i, U) = Rank(i, V)
    <3> SUFFICES ASSUME NEW i \in V PROVE {j \in U : j < i} = {j \in V : j < i}
      BY DEF Rank
    <3> QED BY <2>4, <2>6
  <2>12. Onto(U)
    <3> SUFFICES ASSUME NEW k \in 0..Cardinality(U) - 1 PROVE \E i \in U : Rank(i, U) = k
      OBVIOUS
    <3>1. CASE k = Cardinality(V)
      BY <2>6, <2>10, <3>1
    <3>2. CASE k # Cardinality(V)
      <4>1. k \in 0..Cardinality(V) - 1
        BY <2>9, <3>2
      <4>2. PICK i \in V : Rank(i, V) = k
        BY <2>8, <4>1
      <4> QED BY <2>11, <4>2
    <3> QED BY <3>1, <3>2
  <2> QED
    <3> HIDE DEF Onto
    <3> QED BY <2>4, <2>12
<1>2. Onto(S)
  <2> HIDE DEF Onto
  <2> QED BY <1>1
<1> QED BY <1>2

(* The positions of the candidates are finitely many natural numbers.            *)
LEMMA CandidatesFinite ==
    ASSUME NEW m, NEW s \in Seq(Hosts)
    PROVE  HighPriority(m, s) \in SUBSET Nat /\ IsFiniteSet(HighPriority(m, s))
<1>1. DOMAIN s = 1..Len(s) /\ Len(s) \in Nat
  OBVIOUS
<1>2. HighPriority(m, s) \in SUBSET (1..Len(s))
  BY <1>1 DEF HighPriority, Available
<1>3. IsFiniteSet(1..Len(s))
  BY <1>1, FS_Interval
<1> QED BY <1>2, <1>3, FS_Subset

(* A try that has begun and has not selected yet. *)
Selecting == cur # None /\ pick = None /\ tries < MaxRetries

(* The candidate that Select takes. *)
Indexed == \E i \in HighPriority(cur, list) : Rank(i, HighPriority(cur, list)) = index[Cluster[cur]]

(* selectHostForClaim has no fourth outcome: it returns nothing, panics, or has  *)
(* a candidate at the index.                                                     *)
THEOREM SelectionDecides ==
    Spec => [](Selecting => Available(cur, list) = {} \/ Panics(cur, list) \/ Indexed)
<1>1. SelectInv => (Selecting => Available(cur, list) = {} \/ Panics(cur, list) \/ Indexed)
  <2> SUFFICES ASSUME SelectInv, Selecting, Available(cur, list) # {}, ~Panics(cur, list)
               PROVE  Indexed
    OBVIOUS
  <2> DEFINE I == HighPriority(cur, list)
             k == index[Cluster[cur]]
  <2>1. I \in SUBSET Nat /\ IsFiniteSet(I)
    BY CandidatesFinite DEF SelectInv, TypeOK
  <2>2. k \in Nat
    BY SelectionAssumption, IndexesNat DEF SelectInv, TypeOK, Selecting, SelectionAssumption
  <2>3. ~(k >= Cardinality(I))
    BY DEF Panics
  <2> HIDE DEF I, k
  <2>4. k \in 0..Cardinality(I) - 1
    BY <2>1, <2>2, <2>3, FS_CardinalityType
  <2>5. \E i \in I : Rank(i, I) = k
    BY <2>1, <2>4, RankOnto
  <2> QED BY <2>5 DEF I, k, Indexed
<1> QED BY <1>1, SelectInvariant, PTL

(* With no negative priority the maximum is the priority of a candidate, so an    *)
(* index of 0, which every restart of the manager brings back, is within them:    *)
(* a panic can only come from an index that was set for a longer list.            *)
THEOREM FreshIndexSelects ==
    ASSUME \A h \in Hosts : Priority[h] >= 0
    PROVE  Spec => [](Selecting /\ index[Cluster[cur]] = 0 => ~Panics(cur, list))
<1>1. SelectInv => (Selecting /\ index[Cluster[cur]] = 0 => ~Panics(cur, list))
  <2> SUFFICES ASSUME SelectInv, Selecting, index[Cluster[cur]] = 0, Available(cur, list) # {}
               PROVE  ~(0 >= Cardinality(HighPriority(cur, list)))
    BY DEF Panics
  <2> DEFINE A == Available(cur, list)
  <2>1. list \in Seq(Hosts) /\ A \in SUBSET DOMAIN list /\ A # {}
    BY DEF SelectInv, TypeOK, Available
  <2>2. PICK i \in A : Priority[list[i]] = MaxPriority(list, A)
    <3> HIDE DEF A
    <3> QED BY SelectionAssumption, <2>1, MaxPriorityAttained
  <2>3. HighPriority(cur, list) # {}
    BY <2>2 DEF HighPriority
  <2> QED BY <2>1, <2>3, CandidatesFinite, FS_CardinalityType, FS_EmptySet
<1> QED BY <1>1, SelectInvariant, PTL
=============================================================================
