------------------------------ MODULE MCActors ------------------------------
(***************************************************************************)
(* Instances of Actors for TLC: who calls what.                            *)
(***************************************************************************)
EXTENDS Actors, TLC

CONSTANTS Creators, Senders, Wakers, Retirers, Wavers, Pumps

(* Who retires an actor reclaims it; who flushes also runs payloads.       *)
Roles == [t \in Threads |->
    {op \in Operations : t \in CASE op = "create" -> Creators
                                 [] op = "send" -> Senders
                                 [] op = "wake" -> Wakers
                                 [] op \in {"retire", "reclaim"} -> Retirers
                                 [] op = "wave" -> Wavers
                                 [] op \in {"flush", "work"} -> Pumps}]

(* Threads that call the same operations, and nodes, differ in their names *)
(* only.                                                                   *)
Alike == Permutations(Nodes)
         \cup UNION {Permutations({u \in Threads : May[u] = May[t]}) : t \in Threads}
=============================================================================
