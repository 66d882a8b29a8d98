---------------------------- MODULE CleanupTimeout ----------------------------
(***************************************************************************)
(* How long the ByoHost controller waits for the agent's clean-up before it  *)
(* forces it (getCleanupTimeout).  Times are in seconds, memory in GiB: both *)
(* quotients round down, and no capacity of a real host overflows the int64  *)
(* of a Duration.  HostLifecycle's action TimePasses stands for more than    *)
(* this time passing; what it needs of it is proved here.                    *)
(***************************************************************************)
EXTENDS Integers, TLAPS

MinTimeout == 120
DefaultTimeout == 300
MaxTimeout == 900

(* Spec.Capacity: 0 where there is no such entry. *)
Capacities == [cpu : Nat, memory : Nat]

(* 30 s for each CPU over 8, and 60 s for each 8 GiB over 16. *)
ForCPU(cpu) == IF cpu > 8 THEN (cpu - 8) * 30 ELSE 0
ForMemory(memory) == IF memory > 16 THEN ((memory - 16) \div 8) * 60 ELSE 0

Clamp(t) == IF t < MinTimeout THEN MinTimeout ELSE IF t > MaxTimeout THEN MaxTimeout ELSE t

(* BYOH_HOST_CLEANUP_TIMEOUT, where it is a duration; -1: it is not, or is not set. *)
Overrides(env) == env >= MinTimeout /\ env <= MaxTimeout

getCleanupTimeout(env, capacity) ==
    IF Overrides(env) THEN env
    ELSE Clamp(DefaultTimeout + ForCPU(capacity.cpu) + ForMemory(capacity.memory))

-----------------------------------------------------------------------------
(* The quotient of the memory by 8 GiB is a number, and grows with it. *)
LEMMA Quotient == \A m, n \in Nat : m <= n => m \div 8 \in Nat /\ m \div 8 <= n \div 8
  BY SMT

(* What a capacity adds is a number, and a larger one adds no less. *)
LEMMA ForCapacity ==
    ASSUME NEW a \in Nat, NEW b \in Nat, a <= b
    PROVE  /\ ForCPU(a) \in Nat /\ ForCPU(b) \in Nat /\ ForCPU(a) <= ForCPU(b)
           /\ ForMemory(a) \in Nat /\ ForMemory(b) \in Nat /\ ForMemory(a) <= ForMemory(b)
<1>1. ForCPU(a) \in Nat /\ ForCPU(b) \in Nat /\ ForCPU(a) <= ForCPU(b)
  BY SMT DEF ForCPU
<1>2. CASE a > 16
  <2>1. a - 16 \in Nat /\ b - 16 \in Nat /\ a - 16 <= b - 16
    BY <1>2
  <2>2. /\ (a - 16) \div 8 \in Nat /\ (b - 16) \div 8 \in Nat
        /\ (a - 16) \div 8 <= (b - 16) \div 8
    BY <2>1, Quotient
  <2> QED BY <1>1, <1>2, <2>2 DEF ForMemory
<1>3. CASE ~(a > 16) /\ b > 16
  <2>1. b - 16 \in Nat
    BY <1>3
  <2>2. (b - 16) \div 8 \in Nat
    BY <2>1, Quotient
  <2> QED BY <1>1, <1>3, <2>2 DEF ForMemory
<1>4. CASE ~(a > 16) /\ ~(b > 16)
  BY <1>1, <1>4 DEF ForMemory
<1> QED BY <1>2, <1>3, <1>4

(* The controller waits two minutes at least and fifteen at most, whatever the    *)
(* environment variable and the host's capacity are: a clean-up is neither forced  *)
(* at once nor waited for without end.                                             *)
THEOREM TimeoutIsBounded ==
    ASSUME NEW env \in Int, NEW capacity \in Capacities
    PROVE  /\ getCleanupTimeout(env, capacity) \in Int
           /\ getCleanupTimeout(env, capacity) >= MinTimeout
           /\ getCleanupTimeout(env, capacity) <= MaxTimeout
<1>1. capacity.cpu \in Nat /\ capacity.memory \in Nat
  BY DEF Capacities
<1>2. ForCPU(capacity.cpu) \in Nat /\ ForMemory(capacity.memory) \in Nat
  BY <1>1, ForCapacity
<1> QED BY <1>2 DEF getCleanupTimeout, Overrides, Clamp, MinTimeout, MaxTimeout, DefaultTimeout

(* A larger host is given no less time than a smaller one, also where the variable *)
(* overrides both, and never less than the default unless the variable says so.    *)
THEOREM LargerHostsWaitLonger ==
    ASSUME NEW env \in Int, NEW small \in Capacities, NEW large \in Capacities,
           small.cpu <= large.cpu, small.memory <= large.memory
    PROVE  /\ getCleanupTimeout(env, small) <= getCleanupTimeout(env, large)
           /\ ~Overrides(env) => getCleanupTimeout(env, small) >= DefaultTimeout
<1>1. small.cpu \in Nat /\ small.memory \in Nat /\ large.cpu \in Nat /\ large.memory \in Nat
  BY DEF Capacities
<1>2. /\ ForCPU(small.cpu) \in Nat /\ ForCPU(large.cpu) \in Nat
      /\ ForCPU(small.cpu) <= ForCPU(large.cpu)
  BY <1>1, ForCapacity
<1>3. /\ ForMemory(small.memory) \in Nat /\ ForMemory(large.memory) \in Nat
      /\ ForMemory(small.memory) <= ForMemory(large.memory)
  BY <1>1, ForCapacity
<1> QED BY <1>2, <1>3 DEF getCleanupTimeout, Overrides, Clamp, MinTimeout, MaxTimeout, DefaultTimeout
==============================================================================
