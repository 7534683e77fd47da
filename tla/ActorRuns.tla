------------------------------ MODULE ActorRuns ------------------------------
(***************************************************************************)
(* The ready queue of an ActorRuntime, flush, the activations that Farm    *)
(* consumers run (enter), and an actor's part in a wave.                   *)
(*                                                                         *)
(* A wave here is a thread that reserves one idle actor at a time, then    *)
(* cancels or runs its payload and releases it; the credits that decide    *)
(* when a wave has finished belong to ActorWave.                           *)
(***************************************************************************)
EXTENDS ActorSlots, SequencesExt

CONSTANT MaxFlush   (* the maximum a flush is called with                   *)

ASSUME FlushAssumption == MaxFlush \in Nat \ {0}

QueueInit ==
    /\ ready = <<>> /\ readyCarry = <<>> /\ readyCount = 0 /\ draining = FALSE
    /\ farm = [s \in Slots |-> [g \in 0 .. MaxGen |-> 0]]
    /\ stale = 0

ThreadInit ==
    /\ pc = [t \in Threads |-> "idle"]
    /\ ret = [t \in Threads |-> "idle"]
    /\ h = [t \in Threads |-> NoHandle]
    /\ seen = [t \in Threads |-> NoWord]
    /\ quiet = [t \in Threads |-> FALSE]
    /\ node = [t \in Threads |-> None]
    /\ mode = [t \in Threads |-> {}]
    /\ local = [t \in Threads |-> <<>>]
    /\ again = [t \in Threads |-> FALSE]
    /\ snap = [t \in Threads |-> <<>>]

-----------------------------------------------------------------------------
(* pushReady: the count, then the link.                                    *)

CountReady(t) ==
    /\ At(t, "count")
    /\ readyCount' = readyCount + 1
    /\ Goto(t, "link")
    /\ UNCHANGED <<slotVars, ready, readyCarry, draining, farm, stale,
                   ret, h, seen, quiet, argVars>>

LinkReady(t) ==
    /\ At(t, "link")
    /\ ready' = <<slot(t)>> \o ready
    /\ Resume(t)
    /\ UNCHANGED <<slotVars, readyCarry, readyCount, draining, farm, stale>>

-----------------------------------------------------------------------------
(* flush: takeReady, the write, and the rest goes back.                    *)

(* The drain gate; a flush that finds it taken returns 0.                  *)
Flush(t) ==
    /\ Starts(t, "flush")
    /\ ~draining
    /\ draining' = TRUE
    /\ Goto(t, "take")
    /\ UNCHANGED <<slotVars, ready, readyCarry, readyCount, farm, stale,
                   ret, h, seen, quiet, argVars>>

(* The exchange, when the carried batch is used up.                        *)
Detach(t) ==
    /\ At(t, "take")
    /\ Len(snap[t]) < MaxFlush /\ readyCarry = <<>> /\ ready # <<>>
    /\ readyCarry' = ready
    /\ ready' = <<>>
    /\ UNCHANGED <<slotVars, readyCount, draining, farm, stale, threadVars>>

TakeOne(t) ==
    /\ At(t, "take")
    /\ Len(snap[t]) < MaxFlush /\ readyCarry # <<>>
    /\ snap' = Set(snap, t, Append(snap[t], Head(readyCarry)))
    /\ readyCarry' = Tail(readyCarry)
    /\ UNCHANGED <<slotVars, ready, readyCount, draining, farm, stale, pc,
                   ret, h, seen, quiet, node, mode, local, again>>

(* Variant of Taken: the count follows the requested maximum.              *)
TakenAtMost(t) == MaxFlush

(* How many a snapshot takes off the count.                                *)
Taken(t) == Len(snap[t])

Uncount(t) ==
    /\ At(t, "take")
    /\ Len(snap[t]) = MaxFlush \/ (readyCarry = <<>> /\ ready = <<>>)
    /\ readyCount' = readyCount - Taken(t)
    /\ Goto(t, "ungate")
    /\ UNCHANGED <<slotVars, ready, readyCarry, draining, farm, stale,
                   ret, h, seen, quiet, argVars>>

Ungate(t) ==
    /\ At(t, "ungate")
    /\ draining' = FALSE
    /\ Goto(t, IF snap[t] = <<>> THEN "idle" ELSE "write")
    /\ UNCHANGED <<slotVars, ready, readyCarry, readyCount, farm, stale,
                   ret, h, seen, quiet, argVars>>

(* What of a snapshot goes back when the Farm has accepted n.              *)
Unwritten(q, n) == SubSeq(q, n + 1, Len(q))

(* The Farm accepts a prefix; it reads the bodies from the slots.          *)
WriteBodies(t) ==
    /\ At(t, "write")
    /\ \E n \in 0 .. Len(snap[t]) :
        /\ farm' = [s \in Slots |-> [g \in 0 .. MaxGen |-> farm[s][g] +
              Cardinality({i \in 1 .. n : snap[t][i] = s /\ payload[s] = g})]]
        /\ snap' = Set(snap, t, Unwritten(snap[t], n))
    /\ Goto(t, "pushBack")
    /\ UNCHANGED <<slotVars, ready, readyCarry, readyCount, draining, stale,
                   ret, h, seen, quiet, node, mode, local, again>>

PushBack(t) ==
    /\ At(t, "pushBack")
    /\ IF snap[t] = <<>>
       THEN Return(t)
       ELSE /\ h' = Set(h, t, [slot |-> Head(snap[t]), gen |-> 0])
            /\ snap' = Set(snap, t, Tail(snap[t]))
            /\ PushReady(t, "pushBack")
            /\ UNCHANGED <<seen, quiet, node, mode, local, again>>
    /\ UNCHANGED <<slotVars, queueVars>>

-----------------------------------------------------------------------------
(* enter, called by a Farm consumer for one payload.                       *)

Stale(t) == stale' = stale + 1 /\ Return(t)

(* The entry loop on the word w of slot s.                                 *)
EnterOn(t, s, g, w) ==
    IF w.gen # g \/ w.phase # "scheduled"
    THEN Stale(t)
    ELSE /\ h' = Set(h, t, [slot |-> s, gen |-> g])
         /\ seen' = Set(seen, t, w)
         /\ Goto(t, IF "retire" \in w.flags THEN "entryGate" ELSE "run")
         /\ UNCHANGED <<stale, ret, quiet, argVars>>

Enter(t) ==
    /\ Starts(t, "work")
    /\ \E s \in Slots, g \in 0 .. MaxGen :
        /\ farm[s][g] > 0
        /\ farm' = [farm EXCEPT ![s][g] = @ - 1]
        /\ EnterOn(t, s, g, life[s])
    /\ UNCHANGED <<slotVars, ready, readyCarry, readyCount, draining>>

(* Nodes that wait for an activation.                                      *)
HasInbox(s) == carry[s] # <<>> \/ inbox[s] # <<>>

(* Gate before inbox.                                                      *)
EntryGate(t) ==
    /\ At(t, "entryGate")
    /\ quiet' = Set(quiet, t, Joined(gate[slot(t)]))
    /\ Goto(t, "entryInbox")
    /\ UNCHANGED <<slotVars, queueVars, ret, h, seen, argVars>>

EntryInbox(t) ==
    /\ At(t, "entryInbox")
    /\ Goto(t, IF HasInbox(slot(t)) THEN "run"
               ELSE IF quiet[t] THEN "retireNow" ELSE "requeue")
    /\ UNCHANGED <<slotVars, queueVars, ret, h, seen, quiet, argVars>>

(* A CAS of the entry loop from seen to w: then onward holds, or the loop  *)
(* goes on with the reloaded word.                                         *)
EntryCas(t, w, onward) ==
    IF life[slot(t)] = seen[t]
    THEN life' = Set(life, slot(t), w) /\ onward /\ UNCHANGED stale
    ELSE /\ UNCHANGED <<life, carry>>
         /\ EnterOn(t, slot(t), gen(t), life[slot(t)])

(* The rest of the inbox the last activation left is now the callback's.   *)
Run(t) ==
    /\ At(t, "run")
    /\ EntryCas(t, Word(gen(t), "running", seen[t].flags \cap retainedMask),
          /\ Goto(t, "callback")
          /\ local' = Set(local, t, carry[slot(t)])
          /\ carry' = Set(carry, slot(t), <<>>)
          /\ seen' = Set(seen, t, NoWord)
          /\ quiet' = Set(quiet, t, FALSE)
          /\ UNCHANGED <<ret, h, node, mode, again, snap>>)
    /\ UNCHANGED <<gate, inbox, waveOwner, state, payload, free, nodeState,
                   ready, readyCarry, readyCount, draining, farm>>

RetireNow(t) ==
    /\ At(t, "retireNow")
    /\ EntryCas(t, Word(gen(t), "retired", seen[t].flags \cap {"op"}),
          Return(t) /\ UNCHANGED carry)
    /\ UNCHANGED <<gate, inbox, waveOwner, state, payload, free, nodeState,
                   ready, readyCarry, readyCount, draining, farm>>

Requeue(t) ==
    /\ At(t, "requeue")
    /\ EntryCas(t, Scheduled(seen[t]),
          PushReady(t, "idle") /\ Forget(t) /\ UNCHANGED <<carry, h>>)
    /\ UNCHANGED <<gate, inbox, waveOwner, state, payload, free, nodeState,
                   ready, readyCarry, readyCount, draining, farm>>

(* Variant of Detached: the nodes stay as they were pushed.                *)
DetachedAsPushed(q) == q

(* popInboxNode turns the detached nodes around.                           *)
Detached(q) == Reverse(q)

(* popInbox: detach what senders pushed once the local nodes are used up,  *)
(* oldest first.  The node must be queued.                                 *)
Pop(t) ==
    /\ At(t, "callback")
    /\ LET nodes == IF local[t] = <<>> THEN Detached(inbox[slot(t)]) ELSE local[t] IN
        /\ nodes # <<>>
        /\ nodeState[Head(nodes)] = "queued"
        /\ nodeState' = Set(nodeState, Head(nodes), "processing")
        /\ node' = Set(node, t, Head(nodes))
        /\ local' = Set(local, t, Tail(nodes))
    /\ inbox' = Set(inbox, slot(t), IF local[t] = <<>> THEN <<>> ELSE inbox[slot(t)])
    /\ Goto(t, "process")
    /\ UNCHANGED <<life, gate, carry, waveOwner, state, payload, free, queueVars,
                   ret, h, seen, quiet, mode, again, snap>>

(* complete, fail or cancel.                                               *)
CompleteNode(t) ==
    /\ At(t, "process")
    /\ nodeState' = Set(nodeState, node[t], "free")
    /\ node' = Set(node, t, None)
    /\ Goto(t, "callback")
    /\ UNCHANGED <<life, gate, inbox, carry, waveOwner, state, payload, free,
                   queueVars, ret, h, seen, quiet, mode, local, again, snap>>

(* The handler returns, whatever it left; it may have asked to be run      *)
(* again or to retire.                                                     *)
EndCallback(t) ==
    /\ At(t, "callback")
    /\ carry' = Set(carry, slot(t), local[t])
    /\ local' = Set(local, t, <<>>)
    /\ \E republish, retire \in BOOLEAN :
        /\ again' = Set(again, t, republish)
        /\ Goto(t, IF retire THEN "mark" ELSE "exit")
    /\ UNCHANGED <<life, gate, inbox, waveOwner, state, payload, free, nodeState,
                   queueVars, ret, h, seen, quiet, node, mode, snap>>

(* markActorRetiring for the callback; fatal if the generation is lost.    *)
MarkRetiring(t) ==
    /\ At(t, "mark")
    /\ life[slot(t)].gen = gen(t) /\ life[slot(t)].phase = "running"
    /\ life' = [life EXCEPT ![slot(t)].flags = @ \cup {"retire"}]
    /\ Goto(t, "close")
    /\ ret' = Set(ret, t, "exit")
    /\ UNCHANGED <<gate, inbox, carry, waveOwner, state, payload, free, nodeState,
                   queueVars, h, seen, quiet, argVars>>

(* The exit loop on the word w.  Gate before inbox, as at entry.           *)
ExitOn(t, w) ==
    IF w.gen # gen(t) \/ w.phase # "running"
    THEN Stale(t)
    ELSE /\ seen' = Set(seen, t, w)
         /\ Goto(t, IF "retire" \in w.flags THEN "exitGate" ELSE "exitInbox")
         /\ UNCHANGED <<stale, ret, h, quiet, argVars>>

Exit(t) ==
    /\ At(t, "exit")
    /\ ExitOn(t, life[slot(t)])
    /\ UNCHANGED <<slotVars, ready, readyCarry, readyCount, draining, farm>>

ExitGate(t) ==
    /\ At(t, "exitGate")
    /\ quiet' = Set(quiet, t, Joined(gate[slot(t)]))
    /\ Goto(t, "exitInbox")
    /\ UNCHANGED <<slotVars, queueVars, ret, h, seen, argVars>>

(* hasInbox: it rules retiring out, or asks for another activation.  Once  *)
(* true it stays true, since only the activation empties the inbox.        *)
ExitInbox(t) ==
    /\ At(t, "exitInbox")
    /\ IF "retire" \in seen[t].flags
       THEN quiet' = Set(quiet, t, quiet[t] /\ ~HasInbox(slot(t))) /\ UNCHANGED again
       ELSE again' = Set(again, t, again[t] \/ HasInbox(slot(t))) /\ UNCHANGED quiet
    /\ Goto(t, "leave")
    /\ UNCHANGED <<slotVars, queueVars, ret, h, seen, node, mode, local, snap>>

(* Variant of NextPhase: a signal during the callback is not looked at.    *)
NextPhaseDeaf(t) ==
    IF "retire" \in seen[t].flags
    THEN IF quiet[t] THEN "retired" ELSE "scheduled"
    ELSE IF again[t] THEN "scheduled" ELSE "idle"

(* Variant of NextPhase: a retirement senders hold up is not run again.    *)
NextPhaseOnce(t) ==
    IF "retire" \in seen[t].flags /\ quiet[t] THEN "retired"
    ELSE IF again[t] \/ "pending" \in seen[t].flags THEN "scheduled" ELSE "idle"

(* The next phase of the activation.                                       *)
NextPhase(t) ==
    IF "retire" \in seen[t].flags
    THEN IF quiet[t] THEN "retired" ELSE "scheduled"
    ELSE IF again[t] \/ "pending" \in seen[t].flags THEN "scheduled" ELSE "idle"

(* The flags that survive into the next phase.                             *)
Kept(w, phase) == w.flags \cap IF phase = "retired" THEN {"op"} ELSE retainedMask

Leave(t) ==
    /\ At(t, "leave")
    /\ IF life[slot(t)] = seen[t]
       THEN /\ life' = Set(life, slot(t), Word(gen(t), NextPhase(t), Kept(seen[t], NextPhase(t))))
            /\ IF NextPhase(t) = "scheduled"
               THEN PushReady(t, "idle") /\ Forget(t) /\ UNCHANGED h
               ELSE Return(t)
            /\ UNCHANGED stale
       ELSE ExitOn(t, life[slot(t)]) /\ UNCHANGED life
    /\ UNCHANGED <<gate, inbox, carry, waveOwner, state, payload, free, nodeState,
                   ready, readyCarry, readyCount, draining, farm>>

-----------------------------------------------------------------------------
(* reserveActorWavePayload, cancelActorWavePayload,                        *)
(* dispatchActorWavePayload and releaseActorWaveMembership.                *)

(* Variant of Reservable: an actor already scheduled is reserved.          *)
ReservableScheduled(w) == w.phase \in {"idle", "scheduled"} /\ w.flags = {}

(* Only a bare idle word is reserved.                                      *)
Reservable(w) == w.phase = "idle" /\ w.flags = {}

ReserveWave(t) ==
    /\ Starts(t, "wave")
    /\ \E s \in Slots :
        /\ Reservable(life[s])
        /\ life' = [life EXCEPT ![s].phase = "scheduled"]
        /\ Open(t, s, "waveCheck")
    /\ UNCHANGED <<gate, inbox, carry, waveOwner, state, payload, free, nodeState,
                   queueVars, ret, seen, quiet, argVars>>

(* Nobody else stores an owner while the word is reserved.  A slot that    *)
(* has one, or state of another type, goes back.                           *)
JoinWave(t) ==
    /\ At(t, "waveCheck")
    /\ \/ /\ waveOwner[slot(t)] = None
          /\ waveOwner' = Set(waveOwner, slot(t), t)
          /\ Goto(t, "member")
       \/ Goto(t, "waveBack") /\ UNCHANGED waveOwner
    /\ UNCHANGED <<life, gate, inbox, carry, state, payload, free, nodeState,
                   queueVars, ret, h, seen, quiet, argVars>>

CancelMember(t) ==
    /\ At(t, "member")
    /\ waveOwner[slot(t)] = t
    /\ waveOwner' = Set(waveOwner, slot(t), None)
    /\ Goto(t, "waveBack")
    /\ UNCHANGED <<life, gate, inbox, carry, state, payload, free, nodeState,
                   queueVars, ret, h, seen, quiet, argVars>>

(* The payload's operation runs under the reservation.                     *)
RunMember(t) ==
    /\ At(t, "member")
    /\ life[slot(t)].gen = gen(t) /\ life[slot(t)].phase = "scheduled"
    /\ Goto(t, "operation")
    /\ UNCHANGED <<slotVars, queueVars, ret, h, seen, quiet, argVars>>

(* Variant of Interrupted: only a retirement is handed over.               *)
InterruptedByRetire(w) == "retire" \in w.flags

(* Somebody asked for the actor while the wave had it.                     *)
Interrupted(w) == w.flags \cap {"retire", "pending"} # {}

(* The word goes back to idle, or to the ready queue.                      *)
EndWaveWork(t) ==
    /\ pc[t] \in {"operation", "waveBack"}
    /\ LET w == life[slot(t)]
           onward == IF At(t, "operation") THEN "leaveWave" ELSE "idle"
       IN  /\ w.gen = gen(t) /\ w.phase = "scheduled"
           /\ IF Interrupted(w)
              THEN /\ life' = Set(life, slot(t), Scheduled(w))
                   /\ PushReady(t, onward)
                   /\ UNCHANGED <<h, seen, quiet, argVars>>
              ELSE /\ life' = Set(life, slot(t), Word(w.gen, "idle", w.flags \cap retainedMask))
                   /\ IF At(t, "operation")
                      THEN Goto(t, onward) /\ UNCHANGED <<ret, h, seen, quiet, argVars>>
                      ELSE Return(t)
    /\ UNCHANGED <<gate, inbox, carry, waveOwner, state, payload, free, nodeState,
                   queueVars>>

LeaveWave(t) ==
    /\ At(t, "leaveWave")
    /\ waveOwner[slot(t)] = t
    /\ waveOwner' = Set(waveOwner, slot(t), None)
    /\ Return(t)
    /\ UNCHANGED <<life, gate, inbox, carry, state, payload, free, nodeState, queueVars>>

RunnerNext(t) ==
    \/ CountReady(t) \/ LinkReady(t)
    \/ Flush(t) \/ Detach(t) \/ TakeOne(t) \/ Uncount(t) \/ Ungate(t)
    \/ WriteBodies(t) \/ PushBack(t)
    \/ Enter(t) \/ EntryGate(t) \/ EntryInbox(t) \/ Run(t) \/ RetireNow(t) \/ Requeue(t)
    \/ Pop(t) \/ CompleteNode(t) \/ EndCallback(t) \/ MarkRetiring(t)
    \/ Exit(t) \/ ExitGate(t) \/ ExitInbox(t) \/ Leave(t)
    \/ ReserveWave(t) \/ JoinWave(t) \/ CancelMember(t) \/ RunMember(t)
    \/ EndWaveWork(t) \/ LeaveWave(t)
=============================================================================
