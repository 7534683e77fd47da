----------------------------- MODULE MCThreadPool -----------------------------
(***************************************************************************)
(* Instances of ThreadPool for TLC: which worker is in which group.        *)
(***************************************************************************)
EXTENDS ThreadPool, TLC

CONSTANTS w1, w2, g1, g2

OnePerGroup == (w1 :> g1) @@ (w2 :> g2)

(* Publishers differ in nothing but their names, and so do the workers     *)
(* together with their groups.                                             *)
Swapped == (w1 :> w2) @@ (w2 :> w1) @@ (g1 :> g2) @@ (g2 :> g1)
Alike == Permutations(Publishers) \cup {Swapped}
=============================================================================
