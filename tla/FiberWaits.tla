----------------------------- MODULE FiberWaits ------------------------------
(***************************************************************************)
(* What the body of a fiber does to wait: FiberSemaphore and auto-reset    *)
(* FiberEvent (waitForUnit), joinFiber and yieldReady, and who posts.      *)
(* An action is one access to a word or a locked list that others change.  *)
(***************************************************************************)
EXTENDS FiberTasks, FiniteSets

CONSTANTS
    Kinds,      (* the owners of units to try: "semaphore", "event"         *)
    Does,       (* the operations a fiber's body may choose from            *)
    MaxTurns,   (* bound on the operations of a body                        *)
    MaxPosts    (* bound on the posts and sets                              *)

VARIABLES
    unit        (* the owner: kind, units, waiter queue, and as history the *)
                (* permits given, those waits returned, and whether a wake  *)
                (* was spent on a waiter that had found a unit by itself    *)

WaitInit ==
    unit \in {[kind |-> k, units |-> 0, queue |-> <<>>, given |-> 0, granted |-> 0,
               spent |-> FALSE, posts |-> 0] : k \in Kinds}

(* A running body takes a step that leaves the words named here alone.     *)
Keeps == UNCHANGED <<accepted, lane>>
OnlyCode == Keeps /\ UNCHANGED <<ctrl, word, buffered, worker, waker, heap, joiners, unit>>

(* tryTake of the two owners, and what post and set leave.                 *)
Available == unit.units > 0
UnitsAfterTake == unit.units - 1
UnitsAfterPost(n) == IF unit.kind = "semaphore" THEN unit.units + n ELSE 1

(* All members of the queue, without asking whether their wait is over.    *)
Members == DOMAIN unit.queue

(* The members whose claim succeeds, and the k-th of them.                 *)
Claimable == {i \in Members : Armed(unit.queue[i])}
Nth(k) == CHOOSE i \in Claimable : Cardinality({j \in Claimable : j < i}) = k - 1

(* claimFront under the owner's lock: members are unlinked oldest first    *)
(* until limit claims succeed; one another waker claimed is dropped.       *)
Winners(limit) ==
    LET n == Cardinality(Claimable)
    IN  [k \in 1 .. (IF n < limit THEN n ELSE limit) |-> unit.queue[Nth(k)]]
Behind(limit) ==
    IF Cardinality(Claimable) < limit THEN <<>>
    ELSE SubSeq(unit.queue, Nth(limit) + 1, Len(unit.queue))

ClaimFront(t) ==
    /\ waker[t].limit > 0
    /\ LET limit == waker[t].limit
           won == Winners(limit)
       IN  /\ word' = Claimed({won[i] : i \in DOMAIN won}, "signalled")
           /\ unit' = [unit EXCEPT !.queue = Behind(limit)]
           /\ waker' = [waker EXCEPT ![t].limit = 0, ![t].owed = won]
    /\ UNCHANGED <<ctrl, buffered, accepted, code, lane, worker, heap, joiners>>

(* post(n) and set: the units first, then as many wakes.                   *)
Post(p) ==
    /\ unit.posts < MaxPosts /\ waker[p] = Quiet
    /\ \E n \in 1 .. 2 :
          /\ unit.kind = "event" => n = 1
          /\ unit' = [unit EXCEPT !.units = UnitsAfterPost(n), !.given = @ + n, !.posts = @ + 1]
          /\ waker' = [waker EXCEPT ![p].limit = n]
    /\ UNCHANGED <<ctrl, word, buffered, accepted, code, lane, worker, heap, joiners>>

Reset(p) ==
    /\ waker[p] = Quiet /\ unit.kind = "event" /\ Available
    /\ unit' = [unit EXCEPT !.units = 0]
    /\ UNCHANGED taskVars

-----------------------------------------------------------------------------
(* The body chooses what to do next, or ends.                              *)
First == [unit |-> "take", join |-> "poll", yield |-> "yield"]

Body(w, f) ==
    /\ Runs(w, f) /\ At(f, "body")
    /\ \/ /\ code[f].turns < MaxTurns
          /\ \E o \in Does[f] :
                /\ o.kind = "join" => o.target \in Rooted
                /\ code' = [code EXCEPT ![f] = [@ EXCEPT !.at = First[o.kind], !.op = o,
                                                         !.turns = code[f].turns + 1]]
          /\ UNCHANGED worker
       \/ Goto(f, "done") /\ Suspend(w)
    /\ Keeps /\ UNCHANGED <<ctrl, word, buffered, waker, heap, joiners, unit>>

(* An exception leaves the body.                                           *)
Fail(w, f) == Goto(f, "done") /\ Suspend(w)

Throw(w, f) ==
    /\ Runs(w, f) /\ At(f, "throw") /\ Fail(w, f)
    /\ Keeps /\ UNCHANGED <<ctrl, word, buffered, waker, heap, joiners, unit>>

YieldReady(w, f) ==
    /\ Runs(w, f) /\ At(f, "yield")
    /\ \/ Cancelled(f) /\ Fail(w, f) /\ UNCHANGED ctrl
       \/ /\ ~Cancelled(f)
          /\ ctrl' = [ctrl EXCEPT ![f].phase = "ready"]
          /\ Goto(f, "parked") /\ Suspend(w)
    /\ Keeps /\ UNCHANGED <<word, buffered, waker, heap, joiners, unit>>

-----------------------------------------------------------------------------
(* tryTake at the head of the loop, after linking, and after a timeout.    *)
Take1(w, f, place, taken, missed) ==
    /\ Runs(w, f) /\ At(f, place)
    /\ \/ /\ Available
          /\ Goto(f, taken)
          /\ unit' = [unit EXCEPT !.units = UnitsAfterTake,
                                  !.granted = IF taken = "body" THEN @ + 1 ELSE @]
       \/ ~Available /\ Goto(f, missed) /\ UNCHANGED unit
    /\ Keeps /\ UNCHANGED <<ctrl, word, buffered, worker, waker, heap, joiners>>

TryTake(w, f) ==
    \/ Take1(w, f, "take", "body", "check")
    \/ Take1(w, f, "last", "body", "body")

(* poll: a join returns once its target is terminated.                     *)
Ended(t) == ctrl[t].phase = "terminated"

Poll(w, f) ==
    /\ Runs(w, f) /\ At(f, "poll")
    /\ Goto(f, IF Ended(code[f].op.target) THEN "body" ELSE "check")
    /\ OnlyCode

(* Cancelled, past the deadline (which a join looks at first), or to wait: *)
(* armWait sets the phase, then the word, a plain store that its fence     *)
(* orders before the next look at the control word.                        *)
Arm(w, f) ==
    /\ Runs(w, f) /\ At(f, "check")
    /\ \/ Cancelled(f) /\ Fail(w, f) /\ UNCHANGED <<ctrl, buffered>>
       \/ /\ code[f].op.timed
          /\ code[f].op.kind = "unit" => ~Cancelled(f)
          /\ Goto(f, "body") /\ UNCHANGED <<ctrl, buffered, worker>>
       \/ /\ ~Cancelled(f) /\ Goto(f, "armed")
          /\ ctrl' = [ctrl EXCEPT ![f].phase = "waiting"]
          /\ buffered' = buffered \cup {f}
          /\ UNCHANGED worker
    /\ Keeps /\ UNCHANGED <<word, waker, heap, joiners, unit>>

Drain(f) ==
    /\ f \in buffered
    /\ buffered' = buffered \ {f}
    /\ word' = [word EXCEPT ![f] = [n |-> @.n + 1, cause |-> "armed"]]
    /\ UNCHANGED <<ctrl, accepted, code, lane, worker, waker, heap, joiners, unit>>

Stored(f) == f \notin buffered
(* armWait without its fence.                                              *)
FencedNever(f) == TRUE

Fenced(f) == Stored(f)

Backout(f, why) == code' = [code EXCEPT ![f].at = "withdraw", ![f].next = why]

(* The look after arming: whoever cancels sees the wait, or is seen here.  *)
Armable(w, f) ==
    /\ Runs(w, f) /\ At(f, "armed") /\ Fenced(f)
    /\ IF Cancelled(f)
       THEN Backout(f, "throw")
       ELSE Goto(f, IF code[f].op.kind = "unit" THEN "link" ELSE "register")
    /\ OnlyCode

(* Linked with nothing to take: arm the timer of a timed wait, or park.    *)
GoOn(w, f) ==
    IF code[f].op.timed THEN Goto(f, "timer") /\ UNCHANGED worker
    ELSE Goto(f, "parked") /\ Suspend(w)

Link(w, f) ==
    /\ Runs(w, f) /\ At(f, "link") /\ Stored(f)
    /\ unit' = [unit EXCEPT !.queue = Append(@, f)]
    /\ Goto(f, "retake")
    /\ Keeps /\ UNCHANGED <<ctrl, word, buffered, worker, waker, heap, joiners>>

(* A unit that came before the link: the wait is withdrawn.                *)
Retake(w, f) ==
    /\ Runs(w, f) /\ At(f, "retake")
    /\ \/ /\ Available /\ Backout(f, "taken")
          /\ unit' = [unit EXCEPT !.units = UnitsAfterTake]
          /\ UNCHANGED worker
       \/ ~Available /\ GoOn(w, f) /\ UNCHANGED unit
    /\ Keeps /\ UNCHANGED <<ctrl, word, buffered, waker, heap, joiners>>

(* registerManagedJoinWaiter: the terminal recheck and the link are one    *)
(* transaction of the target's list.                                       *)
Register(w, f) ==
    LET t == code[f].op.target
    IN  /\ Runs(w, f) /\ At(f, "register") /\ Stored(f)
        /\ IF Ended(t)
           THEN Backout(f, "poll") /\ UNCHANGED <<joiners, worker>>
           ELSE joiners' = [joiners EXCEPT ![t] = @ \cup {f}] /\ GoOn(w, f)
        /\ Keeps /\ UNCHANGED <<ctrl, word, buffered, waker, heap, unit>>

(* armTimer, whose heap may fail to grow.                                  *)
ArmTimer(w, f) ==
    /\ Runs(w, f) /\ At(f, "timer") /\ Stored(f)
    /\ \/ /\ heap' = [heap EXCEPT ![f] = word[f].n]
          /\ Goto(f, "parked") /\ Suspend(w)
       \/ Backout(f, "failed") /\ UNCHANGED <<heap, worker>>
    /\ Keeps /\ UNCHANGED <<ctrl, word, buffered, waker, joiners, unit>>

(* withdrawWait: claim the own wait, or consume the wake of who was first. *)
Withdraw(w, f) ==
    /\ Runs(w, f) /\ At(f, "withdraw") /\ Stored(f)
    /\ Goto(f, code[f].next)
    /\ \/ /\ Armed(f)
          /\ word' = Claimed({f}, "withdrawn")
          /\ ctrl' = [ctrl EXCEPT ![f].phase = "running"]
          /\ UNCHANGED worker
       \/ ~Armed(f) /\ Suspend(w) /\ UNCHANGED <<word, ctrl>>
    /\ unit' = [unit EXCEPT !.spent = @ \/ (code[f].next = "taken" /\ word[f].cause = "signalled")]
    /\ Keeps /\ UNCHANGED <<buffered, waker, heap, joiners>>

-----------------------------------------------------------------------------
(* After every wait the waiter leaves the queue or list it was linked to,  *)
(* and a timer that has not fired leaves the heap; both concern a wait     *)
(* that is over.                                                           *)
Position(f) == CHOOSE i \in DOMAIN unit.queue : unit.queue[i] = f
Without(f) ==
    IF f \in Range(unit.queue) THEN RemoveAt(unit.queue, Position(f)) ELSE unit.queue

Unlink(f) ==
    /\ unit' = [unit EXCEPT !.queue = Without(f)]
    /\ joiners' = [t \in Fibers |-> joiners[t] \ {f}]
Disarm(f) == heap' = IF word[f].cause = "timedOut" THEN heap ELSE [heap EXCEPT ![f] = 0]

(* Every wake is taken to be used up.                                      *)
OwesNothing(f) == FALSE

(* A wait whose timer fired is past its deadline, which a join finds when  *)
(* it polls again; a signalled waiter that leaves without a unit owes its  *)
(* wake to another.                                                        *)
Owes(f) == code[f].op.kind = "unit" /\ word[f].cause = "signalled"

Woke(w, f) ==
    /\ Runs(w, f) /\ At(f, "parked")
    /\ Unlink(f) /\ Disarm(f)
    /\ IF Cancelled(f)
       THEN IF Owes(f) THEN Goto(f, "passOn") /\ UNCHANGED worker ELSE Fail(w, f)
       ELSE /\ UNCHANGED worker
            /\ Goto(f, CASE word[f].cause = "timedOut" /\ code[f].op.kind = "unit" -> "last"
                           [] word[f].cause # "timedOut" /\ code[f].op.kind = "unit" -> "take"
                           [] word[f].cause # "timedOut" /\ code[f].op.kind = "join" -> "poll"
                           [] OTHER -> "body")
    /\ Keeps /\ UNCHANGED <<ctrl, word, buffered, waker>>

TimerFailed(w, f) ==
    /\ Runs(w, f) /\ At(f, "failed")
    /\ Unlink(f)
    /\ IF Owes(f) THEN Goto(f, "passOn") /\ UNCHANGED worker ELSE Fail(w, f)
    /\ Keeps /\ UNCHANGED <<ctrl, word, buffered, waker, heap>>

PassOn(w, f) ==
    /\ Runs(w, f) /\ At(f, "passOn")
    /\ Goto(f, "throw")
    /\ waker' = IF Available THEN [waker EXCEPT ![w].limit = 1] ELSE waker
    /\ Keeps /\ UNCHANGED <<ctrl, word, buffered, worker, heap, joiners, unit>>

(* The exception leaves with the unit.                                     *)
GivesNothing == "throw"

GivesBack == "refund"

(* A unit was taken: it is returned when the wait was cancelled.           *)
Keep(w, f) ==
    /\ Runs(w, f) /\ At(f, "taken")
    /\ Goto(f, IF Cancelled(f) THEN GivesBack ELSE "body")
    /\ unit' = [unit EXCEPT !.queue = Without(f),
                            !.granted = IF Cancelled(f) THEN @ ELSE @ + 1]
    /\ Keeps /\ UNCHANGED <<ctrl, word, buffered, worker, waker, heap, joiners>>

Refund(w, f) ==
    /\ Runs(w, f) /\ At(f, "refund")
    /\ Goto(f, "throw")
    /\ unit' = [unit EXCEPT !.units = UnitsAfterPost(1)]
    /\ waker' = [waker EXCEPT ![w].limit = 1]
    /\ Keeps /\ UNCHANGED <<ctrl, word, buffered, worker, heap, joiners>>

FiberStep(w, f) ==
    \/ Body(w, f) \/ Throw(w, f) \/ YieldReady(w, f)
    \/ TryTake(w, f) \/ Poll(w, f) \/ Arm(w, f) \/ Armable(w, f)
    \/ Link(w, f) \/ Retake(w, f) \/ Register(w, f) \/ ArmTimer(w, f) \/ Withdraw(w, f)
    \/ Woke(w, f) \/ TimerFailed(w, f) \/ PassOn(w, f) \/ Keep(w, f) \/ Refund(w, f)
=============================================================================
