----------------------------- MODULE MCLifecycle -----------------------------
EXTENDS HostLifecycle, TLC
Sym == Permutations(Machines) \cup Permutations(Hosts)
==============================================================================
