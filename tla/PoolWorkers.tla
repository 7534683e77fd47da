----------------------------- MODULE PoolWorkers ------------------------------
(***************************************************************************)
(* A worker thread of the pool: pinning, the gate, the two worker loops    *)
(* with their hooks, arming, parking, and requestStop, which a worker that *)
(* failed runs as well as the thread that shuts the pool down.             *)
(***************************************************************************)
EXTENDS Naturals, FiniteSets

CONSTANTS
    Workers,     (* the workers of a pool                                   *)
    Publishers,  (* threads that publish work and wake                      *)
    Control,     (* the thread that starts and stops pools and directs them *)
    Groups,      (* cache groups                                            *)
    GroupOf,     (* the group of a worker                                   *)
    Lanes,       (* subset of {"raw", "managed"}: which loop a pool may run *)
    Faulty       (* workers that may not be pinned, or whose hooks throw    *)

ASSUME PoolThreads ==
    /\ IsFiniteSet(Workers) /\ IsFiniteSet(Publishers)
    /\ Workers \cap Publishers = {} /\ Control \notin Workers \cup Publishers
    /\ GroupOf \in [Workers -> Groups] /\ "any" \notin Groups
    /\ Faulty \subseteq Workers

Threads == Workers \cup Publishers \cup {Control}

(* Who can see a piece of work: the workers of one group, or all.          *)
Scopes == Groups \cup {"any"}
Sees(w) == {GroupOf[w], "any"}

VARIABLES
    pc,
    then,    (* where a thread goes after a loop or a scope(exit)           *)
    left,    (* slots a loop over all of them has still to wake             *)
    run,     (* gRunFlag                                                    *)
    go,      (* gWorkersGo                                                  *)
    pin,     (* gPinOutcome, with gPinOk and gPinDone                       *)
    slots,   (* gWait, gArmedBits and gWorkers are allocated                *)
    lane,    (* which loop: gManagedWorkerHooks.pump is set                 *)
    hooks,   (* how far the hooks of a worker have come                     *)
    word,    (* WaitSlot.wakeWord: the worker is armed                      *)
    bits,    (* gArmedBits                                                  *)
    kind,    (* WorkerRec.kind: the policy its Director chose               *)
    took,    (* the policy the worker follows while it parks                *)
    timed,   (* its park has a deadline                                     *)
    work     (* published and not yet taken, by who sees it (application's) *)

flagVars == <<run, go, pin, slots, lane>>
parkVars == <<word, bits>>
idleVars == <<kind, took, timed>>

At(t, l) == pc[t] = l
Set(f, x, v) == [f EXCEPT ![x] = v]
Goto(t, l) == pc' = Set(pc, t, l)

-----------------------------------------------------------------------------
(* workerMain up to the loop.                                              *)

Pin(w) ==
    /\ At(w, "pin")
    /\ \/ pin' = Set(pin, w, "pinned") /\ Goto(w, "gate")
       \/ w \in Faulty /\ pin' = Set(pin, w, "failed") /\ Goto(w, "ended")
    /\ UNCHANGED <<then, left, run, go, slots, lane, hooks, parkVars, idleVars, work>>

PassGate(w) ==
    /\ At(w, "gate") /\ (go \/ ~run)
    /\ Goto(w, "enter")
    /\ UNCHANGED <<then, left, flagVars, hooks, parkVars, idleVars, work>>

(* Nobody starts in a pool that was stopped before it was released.        *)
Enter(w) ==
    /\ At(w, "enter")
    /\ Goto(w, IF run THEN "start" ELSE "ended")
    /\ UNCHANGED <<then, left, flagVars, hooks, parkVars, idleVars, work>>

(* Only managed hooks may throw.                                           *)
Throws(w) == lane = "managed" /\ w \in Faulty

Start(w) ==
    /\ At(w, "start")
    /\ \/ hooks' = Set(hooks, w, "started") /\ Goto(w, "loop")
       \/ Throws(w) /\ Goto(w, "request") /\ UNCHANGED hooks
    /\ UNCHANGED <<then, left, flagVars, parkVars, idleVars, work>>

-----------------------------------------------------------------------------
(* workerLoop and managedWorkerLoop.                                       *)

Loop(w) ==
    /\ At(w, "loop")
    /\ Goto(w, IF run THEN "pump" ELSE "stop")
    /\ UNCHANGED <<then, left, flagVars, hooks, parkVars, idleVars, work>>

(* The body, or pump, takes a piece of work that w sees.                   *)
TakeWork(w) == \E s \in Sees(w) : work[s] > 0 /\ work' = [work EXCEPT ![s] = @ - 1]
NoWork(w) == \A s \in Sees(w) : work[s] = 0

Pump(w) ==
    /\ At(w, "pump")
    /\ \/ TakeWork(w) /\ Goto(w, "loop")
       \/ NoWork(w) /\ Goto(w, "arm") /\ UNCHANGED work
       \/ Throws(w) /\ Goto(w, "request") /\ UNCHANGED work
    /\ UNCHANGED <<then, left, flagVars, hooks, parkVars, idleVars>>

Arm(w) ==
    /\ At(w, "arm")
    /\ word' = Set(word, w, TRUE)
    /\ Goto(w, "armBit")
    /\ UNCHANGED <<then, left, flagVars, hooks, bits, idleVars, work>>

ArmBit(w) ==
    /\ At(w, "armBit")
    /\ bits' = bits \cup {w}
    /\ Goto(w, "check")
    /\ UNCHANGED <<then, left, flagVars, hooks, word, idleVars, work>>

(* scope(exit): what was armed is taken back, then the thread is at l.     *)
Leave(w, l) ==
    /\ Goto(w, "disarmBit") /\ then' = Set(then, w, l)
    /\ took' = Set(took, w, "wait") /\ timed' = Set(timed, w, FALSE)

(* It goes on to l instead.                                                *)
Stay(w, l) == Goto(w, l) /\ UNCHANGED then

Check(w) ==
    /\ At(w, "check")
    /\ IF run THEN Stay(w, "recheck") /\ UNCHANGED <<took, timed>> ELSE Leave(w, "stop")
    /\ UNCHANGED <<left, flagVars, hooks, parkVars, kind, work>>

Recheck(w) ==
    /\ At(w, "recheck")
    /\ \/ TakeWork(w) /\ Leave(w, "loop")
       \/ NoWork(w) /\ Stay(w, "idle") /\ UNCHANGED <<took, timed, work>>
       \/ Throws(w) /\ Leave(w, "request") /\ UNCHANGED work
    /\ UNCHANGED <<left, flagVars, hooks, parkVars, kind>>

-----------------------------------------------------------------------------
(* applyIdlePolicy and parkWorker.                                         *)

ApplyIdlePolicy(w) ==
    /\ At(w, "idle")
    /\ IF kind[w] = "spin"
       THEN Leave(w, "loop")
       ELSE Stay(w, "park") /\ took' = Set(took, w, kind[w]) /\ UNCHANGED timed
    /\ UNCHANGED <<left, flagVars, hooks, parkVars, kind, work>>

ParkWorker(w) ==
    /\ At(w, "park")
    /\ IF run THEN Stay(w, "futex") /\ UNCHANGED <<took, timed>> ELSE Leave(w, "loop")
    /\ UNCHANGED <<left, flagVars, hooks, parkVars, kind, work>>

(* A park has the deadline of its policy, or one that the last pump gave.  *)
Deadlines(w) ==
    IF took[w] = "sleep" THEN {TRUE} ELSE IF lane = "managed" THEN BOOLEAN ELSE {FALSE}

(* The kernel compares the word and sleeps in one step.                    *)
Sleep(w) ==
    /\ At(w, "futex")
    /\ IF word[w]
       THEN /\ Stay(w, "asleep") /\ UNCHANGED took
            /\ \E d \in Deadlines(w) : timed' = Set(timed, w, d)
       ELSE Leave(w, "loop")
    /\ UNCHANGED <<left, flagVars, hooks, parkVars, kind, work>>

WakeUp(w) ==
    /\ At(w, "asleep") /\ (~word[w] \/ timed[w])
    /\ Leave(w, "loop")
    /\ UNCHANGED <<left, flagVars, hooks, parkVars, kind, work>>

DisarmBit(w) ==
    /\ At(w, "disarmBit")
    /\ bits' = bits \ {w}
    /\ Goto(w, "disarm")
    /\ UNCHANGED <<then, left, flagVars, hooks, word, idleVars, work>>

Disarm(w) ==
    /\ At(w, "disarm")
    /\ word' = Set(word, w, FALSE)
    /\ Goto(w, then[w])
    /\ then' = Set(then, w, "loop")
    /\ UNCHANGED <<left, flagVars, hooks, bits, idleVars, work>>

-----------------------------------------------------------------------------
(* requestStop, by a worker that failed or by the control thread.          *)

(* Variant of StopWakes: who failed leaves the waking to shutdown.         *)
StopWakesNone(t) == IF t = Control THEN Workers ELSE {}

StopWakes(t) == Workers

Request(t) ==
    /\ At(t, "request")
    /\ run' = FALSE
    /\ left' = Set(left, t, StopWakes(t))
    /\ then' = Set(then, t, "openGate")
    /\ Goto(t, "waking")
    /\ UNCHANGED <<go, pin, slots, lane, hooks, parkVars, idleVars, work>>

(* wakeAllForStop and wakeAll: every slot, armed or not.                   *)
WakeEach(t) ==
    /\ At(t, "waking")
    /\ IF left[t] = {}
       THEN Goto(t, then[t]) /\ then' = Set(then, t, "loop") /\ UNCHANGED <<left, word>>
       ELSE \E w \in left[t] :
              /\ word' = Set(word, w, FALSE)
              /\ left' = [left EXCEPT ![t] = @ \ {w}]
              /\ UNCHANGED <<pc, then>>
    /\ UNCHANGED <<flagVars, hooks, bits, idleVars, work>>

OpenGate(t) ==
    /\ At(t, "openGate")
    /\ go' = TRUE
    /\ Goto(t, IF t = Control THEN "join"
               ELSE IF hooks[t] = "started" THEN "stop" ELSE "ended")
    /\ UNCHANGED <<then, left, run, pin, slots, lane, hooks, parkVars, idleVars, work>>

(* The stop hook of a worker whose start hook has returned.                *)
Stop(w) ==
    /\ At(w, "stop")
    /\ hooks' = Set(hooks, w, "stopped")
    /\ Goto(w, "ended") \/ (Throws(w) /\ Goto(w, "request"))
    /\ UNCHANGED <<then, left, flagVars, parkVars, idleVars, work>>

StopNext(t) == Request(t) \/ WakeEach(t) \/ OpenGate(t)
WorkerNext(w) ==
    \/ Pin(w) \/ PassGate(w) \/ Enter(w) \/ Start(w) \/ Loop(w) \/ Pump(w)
    \/ Arm(w) \/ ArmBit(w) \/ Check(w) \/ Recheck(w)
    \/ ApplyIdlePolicy(w) \/ ParkWorker(w) \/ Sleep(w) \/ WakeUp(w)
    \/ DisarmBit(w) \/ Disarm(w) \/ Stop(w) \/ StopNext(w)
=============================================================================
