------------------------------ MODULE MCFibers -------------------------------
(***************************************************************************)
(* An instance of Fibers for TLC: which fiber waits for what.              *)
(***************************************************************************)
EXTENDS Fibers, TLC

CONSTANTS f1, f2

Op(kind, timed, target) == [kind |-> kind, timed |-> timed, target |-> target]
Unit(timed) == Op("unit", timed, None)

(* Workers differ in nothing but their names.                              *)
Alike == Permutations(Workers)

(* A waiter with a deadline, or one that steps aside, and one that waits   *)
(* for a unit too, or joins the first.                                     *)
MixedWaits ==
    (f1 :> {Unit(TRUE), Op("yield", FALSE, None)})
    @@ (f2 :> {Unit(FALSE), Op("join", FALSE, f1)})

(* Both wait for a unit, without a deadline.                               *)
BothForUnits == [f \in Fibers |-> {Unit(FALSE)}]
=============================================================================
