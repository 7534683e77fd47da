---------------------------- MODULE ChildGroup -----------------------------
(***************************************************************************)
(* The process groups a measurement tool starts benchmarks in.  Each part  *)
(* of a sample is a session of its own: a leader and, when it forks, a     *)
(* child that inherits the leader's pipes.  `alive[p]` is who of part p    *)
(* lives; `known[p]` says that the tool holds the leader's Popen object,   *)
(* so that a signal handler or a finally clause reaches it.                *)
(***************************************************************************)
EXTENDS Integers, Sequences, FiniteSets

CONSTANT Parts

(* Every sample has a first part.                                          *)
ASSUME PartsAssumption == 1 \in Parts

VARIABLES alive, known

childVars == <<alive, known>>

Members == {"leader", "kid"}

NoChildren == alive = [p \in Parts |-> {}] /\ known = [p \in Parts |-> FALSE]

Quiet == \A p \in Parts : alive[p] = {}

(* Popen returned; the object is not yet where a handler looks for it.  A  *)
(* group that a signal left unknown is followed to the end of its          *)
(* invocation; the next one starts over with a group of its own.           *)
Spawn(p) ==
    /\ alive' = [alive EXCEPT ![p] = {"leader"}]
    /\ known' = [known EXCEPT ![p] = FALSE]

Register(p) == known' = [known EXCEPT ![p] = TRUE] /\ UNCHANGED alive

(* A benchmark may fork a child, and its processes end in any order.       *)
Fork(p) ==
    /\ "leader" \in alive[p]
    /\ alive' = [alive EXCEPT ![p] = Members]
    /\ UNCHANGED known

Leave(p) ==
    /\ \E m \in alive[p] : alive' = [alive EXCEPT ![p] = @ \ {m}]
    /\ UNCHANGED known

(* communicate: the pipes reach their end when nobody holds them.          *)
Drained(p) == alive[p] = {}

(* kill_process_group, its two rounds.  TERM and up to two seconds for the *)
(* leader: any member may resist.  Then KILL, whoever is left.             *)
TermGroup(p) ==
    /\ \E left \in SUBSET alive[p] : alive' = [alive EXCEPT ![p] = left]
    /\ UNCHANGED known

(* Mutant: nothing is sent to the group once the leader is gone.          *)
SurvivorsOfLeader(group) == IF "leader" \in group THEN {} ELSE group

Survivors(group) == {}

KillGroup(p) ==
    /\ alive' = [alive EXCEPT ![p] = Survivors(@)]
    /\ UNCHANGED known
=============================================================================
