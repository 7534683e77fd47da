----------------------------- MODULE FiberTasks -----------------------------
(***************************************************************************)
(* Tasks of a FiberDomain: the control word on which parking and waking    *)
(* meet, the wait word that one waker claims, and the workers that resume  *)
(* tasks.  A ready lane, its Farm included, is a bag of activations.       *)
(***************************************************************************)
EXTENDS Integers, SequencesExt

CONSTANTS
    Fibers, Workers,
    Posters     (* threads that post to the semaphore or set the event      *)

VARIABLES
    ctrl,       (* control words: phase, park, wake, enter, cancel          *)
    word,       (* wait words: a count and the cause that ended the wait    *)
    buffered,   (* fibers whose armed word is still in their store buffer   *)
    accepted,   (* fibers whose cancellation is on record                   *)
    code,       (* where the body is, its operation, what follows, turns    *)
    lane,       (* activations pushed and not yet taken                     *)
    worker,     (* what a worker does, with which task                      *)
    waker,      (* how many a thread is to wake, and whom it owes a wake    *)
    heap,       (* TimerSet: the wait count an entry names, or 0            *)
    joiners,    (* the managed joiners linked to a target                   *)
    roots       (* the tasks admitted, in that order                        *)

taskVars == <<ctrl, word, buffered, accepted, code, lane, worker, waker, heap, joiners>>

None == "none"
NoOp == [kind |-> "none", timed |-> FALSE, target |-> None]
Threads == Workers \cup Posters \cup {"director", "timers"}
Terminal == {"terminating", "terminated"}

(* A body at its start, a task that no admission has published yet, and a thread with nothing   *)
(* to wake.                                                                *)
Fresh == [at |-> "body", op |-> NoOp, next |-> None, turns |-> 0]
Unborn == [phase |-> "ready", park |-> 0, wake |-> 0, enter |-> 0, cancel |-> 0]
Quiet == [limit |-> 0, owed |-> <<>>]

TaskInit ==
    /\ ctrl = [f \in Fibers |-> Unborn]
    /\ word = [f \in Fibers |-> [n |-> 0, cause |-> "none"]]
    /\ buffered = {} /\ accepted = {}
    /\ code = [f \in Fibers |-> Fresh]
    /\ worker = [w \in Workers |-> [at |-> "idle", task |-> None]]
    /\ waker = [t \in Threads |-> Quiet]
    /\ heap = [f \in Fibers |-> 0]
    /\ joiners = [f \in Fibers |-> {}]

Armed(f) == word[f].cause = "armed"

(* Claims of the waits of the fibers in fs, each by one CAS.               *)
Claimed(fs, cause) ==
    [f \in Fibers |-> IF f \in fs THEN [word[f] EXCEPT !.cause = cause] ELSE word[f]]

(* cancellationRequested, asked while the phase is not terminal.           *)
Cancelled(f) == ctrl[f].cancel > 0 \/ f \in accepted

Runs(w, f) == worker[w].at = "run" /\ worker[w].task = f /\ waker[w] = Quiet
At(f, place) == code[f].at = place
Goto(f, place) ==
    code' = [code EXCEPT ![f] = [@ EXCEPT !.at = place, !.next = None,
                  !.op = IF place \in {"body", "throw", "done"} THEN NoOp ELSE code[f].op]]
Rooted == {roots[i] : i \in DOMAIN roots}

(* The body switches to the worker that resumed it.                        *)
Leave(w) == worker' = [worker EXCEPT ![w] = [at |-> "idle", task |-> None]]
Suspend(w) == worker' = [worker EXCEPT ![w].at = "suspend"]

-----------------------------------------------------------------------------
(* publishParkedWaiter, by whoever adds the second of PARK and WAKE; nobody *)
(* else changes the word or the lane meanwhile.                            *)
Meets(c, other) == c[other] > 0

Publish(f) ==
    /\ ctrl' = [ctrl EXCEPT ![f].phase = "ready", ![f].park = 0, ![f].wake = 0]
    /\ lane' = [lane EXCEPT ![f] = @ + 1]

(* makeWaiterReady for the next waiter owed.                               *)
Deliver(t) ==
    /\ waker[t].owed # <<>>
    /\ LET f == Head(waker[t].owed)
       IN  IF Meets(ctrl[f], "park") THEN Publish(f)
           ELSE ctrl' = [ctrl EXCEPT ![f].wake = @ + 1] /\ UNCHANGED lane
    /\ waker' = [waker EXCEPT ![t].owed = Tail(@)]
    /\ UNCHANGED <<word, buffered, accepted, code, worker, heap, joiners>>

-----------------------------------------------------------------------------
(* A worker takes an activation and resumes the task, unless the task is   *)
(* not ready; one cancelled before its first entry never runs.             *)
PreEmpted(c) == c.enter = 0 /\ c.cancel > 0

Resume(w) ==
    /\ worker[w].at = "idle" /\ waker[w] = Quiet
    /\ \E f \in Fibers :
          LET Become(phase, place) ==
                 /\ ctrl' = [ctrl EXCEPT ![f].phase = phase, ![f].enter = 1]
                 /\ worker' = [worker EXCEPT ![w] = [at |-> place, task |-> f]]
          IN  /\ lane[f] > 0
              /\ lane' = [lane EXCEPT ![f] = @ - 1]
              /\ IF ctrl[f].phase # "ready" THEN UNCHANGED <<ctrl, worker>>
                 ELSE IF PreEmpted(ctrl[f]) THEN Become("terminating", "record")
                 ELSE Become("running", "run")
    /\ UNCHANGED <<word, buffered, accepted, code, waker, heap, joiners>>

(* What resume does once the stack is switched back: yieldReady is pushed, *)
(* a waiter gets PARK, an ended body terminates.                           *)
Suspended(w) ==
    /\ worker[w].at = "suspend"
    /\ LET f == worker[w].task
           c == ctrl[f]
       IN  \/ /\ c.phase = "ready" /\ Leave(w)
              /\ lane' = [lane EXCEPT ![f] = @ + 1] /\ UNCHANGED ctrl
           \/ /\ c.phase = "waiting" /\ Leave(w)
              /\ IF Meets(c, "wake") THEN Publish(f)
                 ELSE ctrl' = [ctrl EXCEPT ![f].park = @ + 1] /\ UNCHANGED lane
           \/ /\ c.phase = "running"
              /\ ctrl' = [ctrl EXCEPT ![f].phase = "terminating"]
              /\ worker' = [worker EXCEPT ![w].at = IF c.cancel > 0 THEN "record" ELSE "terminate"]
              /\ UNCHANGED lane
    /\ UNCHANGED <<word, buffered, accepted, code, waker, heap, joiners>>

(* finishTerminal: a cancellation that won is waited for until it is on    *)
(* record.                                                                 *)
Terminate(w) ==
    /\ worker[w].at \in {"record", "terminate"}
    /\ LET f == worker[w].task
       IN  /\ worker[w].at = "record" => f \in accepted
           /\ ctrl' = [ctrl EXCEPT ![f].phase = "terminated"]
    /\ worker' = [worker EXCEPT ![w].at = "joiners"]
    /\ UNCHANGED <<word, buffered, accepted, code, lane, waker, heap, joiners>>

(* wakeManagedJoiners: all are unlinked, those whose claim wins are owed a *)
(* wake, which the worker delivers before it goes on.                      *)
WakeJoiners(w) ==
    /\ worker[w].at = "joiners"
    /\ LET f == worker[w].task
           won == {j \in joiners[f] : Armed(j)}
       IN  /\ word' = Claimed(won, "signalled")
           /\ waker' = [waker EXCEPT ![w].owed = SetToSeq(won)]
           /\ joiners' = [joiners EXCEPT ![f] = {}]
    /\ Leave(w)
    /\ UNCHANGED <<ctrl, buffered, accepted, code, lane, heap>>
=============================================================================
