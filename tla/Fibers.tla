------------------------------- MODULE Fibers --------------------------------
(***************************************************************************)
(* A FiberDomain: admission, timers, cancellation and shutdown around the  *)
(* waits of its fibers, and what must hold of them.                        *)
(***************************************************************************)
EXTENDS FiberWaits

CONSTANTS
    CancelActive,   (* what beginShutdown is called with                        *)
    Early,          (* the fibers spawned before the workers start          *)
    MaxOrders       (* bound on cancellations of a fiber and shutdowns          *)

ASSUME FiberArgs ==
    /\ MaxTurns \in Nat /\ MaxPosts \in Nat /\ MaxOrders \in Nat
    /\ Early \subseteq Fibers /\ CancelActive \subseteq BOOLEAN /\ Workers # {}
    /\ IsFiniteSet(Fibers) /\ None \notin Fibers
    /\ Workers \cap Posters = {} /\ {"director", "timers"} \cap (Workers \cup Posters) = {}
    /\ \A f \in Fibers : \A o \in Does[f] : o.kind \in DOMAIN First

VARIABLES
    accepting,  (* FiberDomainControl.accepting                             *)
    pump,       (* the timer entry a pump has taken off the heap, or none   *)
    cancel      (* the cancellation being applied: step, task, the wait     *)
                (* word read, tasks to go, whether shutdown cancels, orders  *)

domainVars == <<roots, accepting, pump, cancel>>
vars == <<taskVars, unit, domainVars>>

NoEntry == [task |-> None, n |-> 0]

DomainInit ==
    /\ accepting = TRUE /\ pump = NoEntry
    /\ cancel = [at |-> "idle", task |-> None, n |-> 0, todo |-> <<>>, all |-> FALSE,
                 orders |-> 0]
    /\ roots = SetToSeq(Early)
    /\ lane = [f \in Fibers |-> IF f \in Rooted THEN 1 ELSE 0]

(* Nobody applies a cancellation or shuts down: admissionMutex is free.    *)
AdmissionFree == cancel.at \in {"idle", "next"} /\ waker["director"] = Quiet

(* admit: rooted and published in one transaction.                         *)
Admits == accepting

Spawn(f) ==
    /\ f \notin Rooted /\ Admits /\ AdmissionFree
    /\ roots' = Append(roots, f)
    /\ lane' = [lane EXCEPT ![f] = @ + 1]
    /\ UNCHANGED <<ctrl, word, buffered, accepted, code, worker, waker, heap, joiners, unit,
                   accepting, pump, cancel>>

-----------------------------------------------------------------------------
(* takeExpired, then the claim of the very wait the entry names.           *)
Expire ==
    /\ pump = NoEntry /\ waker["timers"] = Quiet
    /\ \E f \in Fibers :
          /\ heap[f] # 0
          /\ heap' = [heap EXCEPT ![f] = 0]
          /\ pump' = [task |-> f, n |-> heap[f]]
    /\ UNCHANGED <<ctrl, word, buffered, accepted, code, lane, worker, waker, joiners, unit,
                   roots, accepting, cancel>>

Names(f, n) == word[f] = [n |-> n, cause |-> "armed"]

(* claimWait: t owes the wake if the wait n of f is still armed.           *)
ClaimWait(t, f, n, cause) ==
    /\ IF Names(f, n)
       THEN word' = Claimed({f}, cause) /\ waker' = [waker EXCEPT ![t].owed = <<f>>]
       ELSE UNCHANGED <<word, waker>>
    /\ UNCHANGED <<ctrl, buffered, accepted, code, lane, worker, heap, joiners, unit,
                   roots, accepting>>

TimeOut ==
    /\ pump # NoEntry /\ pump' = NoEntry
    /\ ClaimWait("timers", pump.task, pump.n, "timedOut")
    /\ UNCHANGED cancel

-----------------------------------------------------------------------------
(* The applier: the director, or a drain of the requests others queued.    *)
OnlyCancel == UNCHANGED <<word, buffered, code, lane, worker, waker, heap, joiners, unit,
                          roots, accepting, pump>>

Applied == [cancel EXCEPT !.at = "next", !.task = None, !.n = 0]

(* applyCancellation: nothing for a task that has ended or was told.       *)
Refuses(f) == ctrl[f].phase \in Terminal \/ f \in accepted
Apply(f, rest) ==
    IF Refuses(f) THEN [Applied EXCEPT !.todo = rest]
    ELSE [cancel EXCEPT !.at = "add", !.task = f, !.todo = rest]

Request(f) ==
    /\ cancel.at = "idle" /\ AdmissionFree
    /\ cancel.orders < MaxOrders /\ f \in Rooted
    /\ cancel' = [Apply(f, <<>>) EXCEPT !.orders = @ + 1]
    /\ OnlyCancel /\ UNCHANGED <<ctrl, accepted>>

(* beginShutdown: admission ends; the roots, which cannot grow any more,   *)
(* are cancelled one by one.                                               *)
BeginShutdown ==
    /\ cancel.at = "idle" /\ AdmissionFree
    /\ cancel.orders < MaxOrders
    /\ accepting' = FALSE
    /\ \E all \in CancelActive :
          cancel' = [cancel EXCEPT !.all = all, !.at = "next", !.orders = @ + 1,
                                   !.todo = IF all THEN roots ELSE <<>>]
    /\ UNCHANGED <<taskVars, unit, roots, pump>>

NextTask ==
    /\ cancel.at = "next" /\ waker["director"] = Quiet
    /\ cancel' = IF cancel.todo = <<>> THEN [cancel EXCEPT !.at = "idle"]
                 ELSE Apply(Head(cancel.todo), Tail(cancel.todo))
    /\ OnlyCancel /\ UNCHANGED <<ctrl, accepted>>

(* The phase the add finds decides against the terminal cutoff.            *)
AddCancel ==
    /\ cancel.at = "add"
    /\ ctrl' = [ctrl EXCEPT ![cancel.task].cancel = @ + 1]
    /\ cancel' = IF ctrl[cancel.task].phase \in Terminal
                 THEN Applied ELSE [cancel EXCEPT !.at = "accept"]
    /\ OnlyCancel /\ UNCHANGED accepted

(* The record; then claimCurrentWait reads the word and claims it as read. *)
Accept ==
    /\ cancel.at = "accept"
    /\ accepted' = accepted \cup {cancel.task}
    /\ cancel' = IF Armed(cancel.task)
                 THEN [cancel EXCEPT !.at = "claim", !.n = word[cancel.task].n] ELSE Applied
    /\ OnlyCancel /\ UNCHANGED ctrl

CancelWait ==
    /\ cancel.at = "claim" /\ cancel' = Applied
    /\ ClaimWait("director", cancel.task, cancel.n, "cancelled")
    /\ UNCHANGED pump

-----------------------------------------------------------------------------
ApplierStep ==
    \/ BeginShutdown \/ NextTask \/ AddCancel \/ Accept \/ CancelWait
    \/ \E f \in Fibers : Request(f)

TimerStep == Expire \/ TimeOut

TaskStep ==
    \/ \E t \in Threads : Deliver(t)
    \/ \E w \in Workers :
          \/ Resume(w) \/ Suspended(w) \/ Terminate(w) \/ WakeJoiners(w)

WaitStep ==
    \/ \E w \in Workers, f \in Fibers : FiberStep(w, f)
    \/ \E f \in Fibers : Drain(f)
    \/ \E t \in Threads : ClaimFront(t)
    \/ \E p \in Posters : Post(p) \/ Reset(p)

Init == TaskInit /\ WaitInit /\ DomainInit

Next ==
    \/ TaskStep /\ UNCHANGED <<unit, domainVars>>
    \/ WaitStep /\ UNCHANGED domainVars
    \/ TimerStep \/ ApplierStep
    \/ \E f \in Fibers : Spawn(f)

Spec == Init /\ [][Next]_vars

-----------------------------------------------------------------------------
Live == {f \in Rooted : ctrl[f].phase # "terminated" \/ \E w \in Workers : worker[w].task = f}

(* How often f is owed a wake, and in how many places it is: an activation *)
(* in a lane, with a worker, or parked.                                    *)
Debts(f) == Cardinality({d \in Threads \X (1 .. Cardinality(Fibers)) :
                            LET owed == waker[d[1]].owed
                            IN  d[2] \in DOMAIN owed /\ owed[d[2]] = f})
Places(f) ==
    lane[f] + Cardinality({w \in Workers : worker[w].task = f})
            + ctrl[f].park

(* A live task is in exactly one place, so it is neither resumed twice nor *)
(* lost (publishParkedWaiter, resume).                                     *)
OnePlace == \A f \in Live : Places(f) = 1

(* It is in one place, and whoever claimed its wait, whether signal, timer *)
(* or cancellation, owes it exactly one WAKE until that is added           *)
(* (armWait, claimWait, makeWaiterReady, publishParkedWaiter, resume).     *)
WokenOnce ==
    /\ OnePlace
    /\ \A f \in Live :
          Debts(f) + ctrl[f].wake =
             IF /\ ctrl[f].phase = "waiting" /\ Stored(f)
                /\ word[f].cause \in {"signalled", "timedOut", "cancelled"}
             THEN 1 ELSE 0

(* Nothing is on its way: what waits now waits until somebody from outside *)
(* posts, cancels or spawns.                                               *)
Settled ==
    /\ \A w \in Workers : worker[w].at = "idle"
    /\ \A t \in Threads : waker[t] = Quiet
    /\ \A f \in Fibers : lane[f] = 0 /\ heap[f] = 0
    /\ pump = NoEntry /\ cancel.at = "idle"

(* Fibers with a permit in hand that their wait has not returned yet.      *)
InHand(f) == \/ code[f].at \in {"taken", "refund"}
             \/ code[f].at = "withdraw" /\ code[f].next = "taken"
Holding == {f \in Fibers : InHand(f)}

Unheard == Available /\ \E f \in Live : code[f].op.kind = "unit"

(* A permit posted to a FiberSemaphore is available, in a hand or returned *)
(* by one wait, however waits are cancelled, time out or fail to arm their *)
(* timer (waitForUnit: the takes, withdrawal, refund).                     *)
PermitsKept ==
    unit.kind = "semaphore" =>
        unit.given = unit.units + unit.granted + Cardinality(Holding)

(* Every unit is heard of: when nothing is on its way, none lies there     *)
(* while a fiber stays parked for one.  The comment in waitForUnit says so *)
(* of a waiter that finds a unit on its recheck; FiberUnits refutes it.    *)
EveryUnitHeard == Settled => ~Unheard

(* A wake that reaches a waiter who leaves without a unit, cancelled or    *)
(* without its timer, is passed on: a unit lies unheard only after a wake  *)
(* was spent on a waiter that had found a unit by itself, where the code   *)
(* owes nothing onward (waitForUnit: passOn, refund, recheck).             *)
WakesPassedOn == Settled /\ Unheard => unit.spent

(* When nothing is on its way, a fiber that still waits was not cancelled, *)
(* set no deadline, and joins no task that has ended; and after a shutdown *)
(* that cancels, every task ever admitted is complete (armWait's fence,    *)
(* registerManagedJoinWaiter, beginShutdown).                              *)
WaitsEnd ==
    Settled =>
       /\ cancel.all => Live = {}
       /\ \A f \in Live :
             /\ ~Cancelled(f) /\ ~code[f].op.timed
             /\ code[f].op.kind = "join" => ~Ended(code[f].op.target)
=============================================================================
