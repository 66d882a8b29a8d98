------------------------------ MODULE HostPool ------------------------------
(***************************************************************************)
(* What the provider promises of the hosts in its capacity pool, with no    *)
(* mention of the API objects, processes and calls that keep the promise:  *)
(* a host has at most one owner; it changes hands only by being released    *)
(* and claimed again; a node is joined only for the owner; and a host is    *)
(* released, and so can be claimed, only when no node is left on it.        *)
(***************************************************************************)
CONSTANTS Hosts, Machines, NoMachine

VARIABLES owner,   \* the machine each host belongs to
          node     \* the machine whose node each host carries

Init ==
    /\ owner = [h \in Hosts |-> NoMachine]
    /\ node = [h \in Hosts |-> NoMachine]

Claim(h, m) ==
    /\ owner[h] = NoMachine /\ node[h] = NoMachine
    /\ owner' = [owner EXCEPT ![h] = m]
    /\ UNCHANGED node

Join(h) ==
    /\ owner[h] # NoMachine /\ node[h] \in {NoMachine, owner[h]}
    /\ node' = [node EXCEPT ![h] = owner[h]]
    /\ UNCHANGED owner

Reset(h) ==
    /\ node' = [node EXCEPT ![h] = NoMachine]
    /\ UNCHANGED owner

Release(h) ==
    /\ owner[h] # NoMachine /\ node[h] = NoMachine
    /\ owner' = [owner EXCEPT ![h] = NoMachine]
    /\ UNCHANGED node

Next == \E h \in Hosts : Join(h) \/ Reset(h) \/ Release(h) \/ \E m \in Machines : Claim(h, m)

Spec == Init /\ [][Next]_<<owner, node>>
=============================================================================
