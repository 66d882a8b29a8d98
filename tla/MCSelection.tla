----------------------------- MODULE MCSelection -----------------------------
(* Three hosts, one of them too small for m2, one preferred. *)
EXTENDS HostSelection, TLC

CONSTANTS h1, h2, h3, m1, m2, m3, c1, c2

MCCluster  == m1 :> c1 @@ m2 :> c1 @@ m3 :> c2
MCNeed     == m1 :> 1 @@ m2 :> 2 @@ m3 :> 1
MCCapacity == h1 :> 1 @@ h2 :> 2 @@ h3 :> 2

(* Priority is nil (0), or any int32. *)
Mixed      == h1 :> 0 @@ h2 :> 5 @@ h3 :> 0
Negative   == h1 :> -1 @@ h2 :> -1 @@ h3 :> -1
Default    == h1 :> 0 @@ h2 :> 0 @@ h3 :> 0
==============================================================================
