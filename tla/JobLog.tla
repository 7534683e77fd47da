------------------------------- MODULE JobLog -------------------------------
(***************************************************************************)
(* What a Farm promises, without segments, tallies or consumers: a log of  *)
(* tables written at a tail.  A table is reserved, then published, then    *)
(* each of its runs is handed out once and finishes once; only then may    *)
(* its space be written again.  Nothing else ever removes a table.         *)
(***************************************************************************)
EXTENDS Integers

CONSTANTS Space,      (* units of the ring                                  *)
          RunsOfTable (* runs of a table                                    *)

VARIABLES tail,   (* where the next table goes                              *)
          jobs    (* the tables that are not complete                       *)

Job == [start : Nat, state : {"reserved", "published"},
        handedOut : 0 .. RunsOfTable, finished : 0 .. RunsOfTable]

Reserved(s) == [start |-> s, state |-> "reserved", handedOut |-> 0, finished |-> 0]

LogInit == tail = 0 /\ jobs = {}

(* No word of an incomplete table is given away.                           *)
Reserve == \E n \in 1 .. Space :
    /\ \A j \in jobs : tail + n <= j.start + Space
    /\ tail' = tail + n
    /\ jobs' = jobs \cup {Reserved(tail)}

Publish(j) ==
    /\ j.state = "reserved"
    /\ jobs' = (jobs \ {j}) \cup {[j EXCEPT !.state = "published"]}
    /\ UNCHANGED tail

HandOut(j) ==
    /\ j.state = "published"
    /\ j.handedOut < RunsOfTable
    /\ jobs' = (jobs \ {j}) \cup {[j EXCEPT !.handedOut = @ + 1]}
    /\ UNCHANGED tail

(* The last run to finish completes the table.                             *)
Finish(j) ==
    /\ j.finished < j.handedOut
    /\ jobs' = (jobs \ {j}) \cup
         (IF j.finished + 1 = RunsOfTable THEN {} ELSE {[j EXCEPT !.finished = @ + 1]})
    /\ UNCHANGED tail

LogNext == Reserve \/ \E j \in jobs : Publish(j) \/ HandOut(j) \/ Finish(j)

LogSpec == LogInit /\ [][LogNext]_<<tail, jobs>>
=============================================================================
