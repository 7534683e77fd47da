----------------------------- MODULE ActorSlots -----------------------------
(***************************************************************************)
(* The slots of an ActorRuntime and what callers do to them: create,       *)
(* send, wake, retire and reclaim.  ActorRuns adds the ready queue, the    *)
(* activations and the waves.                                              *)
(*                                                                         *)
(* Threads are the callers and the consumers alike: a thread that is idle  *)
(* starts an operation it May do, and an action is one access to shared    *)
(* memory.  A failing CAS and the reload after it are one step, and a load *)
(* that sends the caller away changes nothing.  A fatal() is a guard.      *)
(***************************************************************************)
EXTENDS Sequences, Integers, FiniteSets

CONSTANTS
    Slots,    (* the runtime's actor slots                                  *)
    Nodes,    (* inbox nodes of the senders                                 *)
    Threads,  (* callers and consumers                                      *)
    May,      (* May[t]: the operations thread t calls                      *)
    MaxGen,   (* bound on the generations of a slot                         *)
    None      (* no wave owns the slot; no node at hand                     *)

Operations == {"create", "send", "wake", "retire", "reclaim", "flush",
               "work", "wave"}

ASSUME ActorAssumption ==
    /\ Slots # {} /\ IsFiniteSet(Threads)
    /\ MaxGen \in Nat
    /\ May \in [Threads -> SUBSET Operations]
    /\ None \notin Threads \cup Nodes

VARIABLES
    life,      (* lifecycle: generation, phase and the four flag bits       *)
    gate,      (* submissionGate: closed bit and reservations               *)
    inbox,     (* the pushed nodes, newest first (inboxHeadWord)            *)
    carry,     (* nodes detached but not popped (inboxCarryWord)            *)
    waveOwner, (* waveOwnerWord                                             *)
    state,     (* generation whose state is allocated in the slot, or 0     *)
    payload,   (* generation in payloadWords                                *)
    free,      (* slots on the free list                                    *)
    nodeState  (* ActorInboxNode.state_                                     *)

slotVars == <<life, gate, inbox, carry, waveOwner, state, payload, free, nodeState>>

VARIABLES
    ready, readyCarry, readyCount, draining,
               (* readyHeadWord, readyCarryWord, readyCount, readyDrainGate *)
    farm,      (* farm[s][g]: published payloads <<s, g>> not yet run       *)
    stale      (* staleActivations_                                         *)

queueVars == <<ready, readyCarry, readyCount, draining, farm, stale>>

VARIABLES
    pc,        (* what the thread does next                                 *)
    ret,       (* where a helper returns to                                 *)
    h,         (* handle, owner or payload at work: slot and generation     *)
    seen,      (* the lifecycle word loaded last                            *)
    quiet,     (* the gate was seen closed and without reservations         *)
    node,      (* the node being sent or processed                          *)
    mode,      (* flag bits requested                                       *)
    local,     (* ActorContext.inboxLocal_                                  *)
    again,     (* ActorContext.republish_, later: or the inbox has nodes    *)
    snap       (* slots taken for a flush                                   *)

threadVars == <<pc, ret, h, seen, quiet, node, mode, local, again, snap>>
vars == <<slotVars, queueVars, threadVars>>

Phases == {"vacant", "constructing", "idle", "scheduled", "running",
           "retired", "reclaiming"}
Flags == {"retire", "pending", "cancel", "op"}
Word(g, ph, fl) == [gen |-> g, phase |-> ph, flags |-> fl]
NoWord == Word(0, "vacant", {})
NoHandle == [slot |-> CHOOSE s \in Slots : TRUE, gen |-> 0]

retainedMask == {"retire", "cancel", "op"}
retireModeMask == {"retire", "cancel"}

(* Phases of a generation that is neither over nor still being made.       *)
Active == {"idle", "scheduled", "running"}

SlotInit ==
    /\ life = [s \in Slots |-> NoWord]
    /\ gate = [s \in Slots |-> [closed |-> FALSE, count |-> 0]]
    /\ inbox = [s \in Slots |-> <<>>]
    /\ carry = [s \in Slots |-> <<>>]
    /\ waveOwner = [s \in Slots |-> None]
    /\ state = [s \in Slots |-> 0]
    /\ payload = [s \in Slots |-> 0]
    /\ free = Slots
    /\ nodeState = [n \in Nodes |-> "free"]

Set(f, x, v) == [f EXCEPT ![x] = v]
Goto(t, l) == pc' = Set(pc, t, l)
At(t, l) == pc[t] = l
Starts(t, op) == pc[t] = "idle" /\ op \in May[t]
slot(t) == h[t].slot
gen(t) == h[t].gen

(* Take hold of generation g of slot s and continue at l.                  *)
Open(t, s, l) ==
    /\ h' = Set(h, t, [slot |-> s, gen |-> life[s].gen])
    /\ Goto(t, l)

(* Registers that a call does not need any more.                           *)
Forget(t) ==
    /\ seen' = Set(seen, t, NoWord)
    /\ quiet' = Set(quiet, t, FALSE)
    /\ node' = Set(node, t, None)
    /\ mode' = Set(mode, t, {})
    /\ local' = Set(local, t, <<>>)
    /\ again' = Set(again, t, FALSE)
    /\ UNCHANGED snap

(* The operation returns.                                                  *)
Return(t) ==
    /\ Goto(t, "idle")
    /\ ret' = Set(ret, t, "idle")
    /\ h' = Set(h, t, NoHandle)
    /\ Forget(t)
argVars == <<node, mode, local, again, snap>>

(* A helper returns to its caller, which may have nothing left to do.      *)
Resume(t) ==
    IF ret[t] = "idle"
    THEN Return(t)
    ELSE Goto(t, ret[t]) /\ UNCHANGED <<ret, h, seen, quiet, argVars>>

(* pushReady(slot), continuing at l; ActorRuns has its steps.              *)
PushReady(t, l) == Goto(t, "count") /\ ret' = Set(ret, t, l)

-----------------------------------------------------------------------------
(* createActorErased: reserveSlots, constructReserved, returnReservations. *)

(* The free list is changed under its gate, and read nowhere else.         *)
ReserveSlot(t) ==
    /\ Starts(t, "create")
    /\ \E s \in free :
        /\ life[s].gen < MaxGen
        /\ free' = free \ {s}
        /\ Open(t, s, "construct")
    /\ UNCHANGED <<life, gate, inbox, carry, waveOwner, state, payload, nodeState,
                   queueVars, ret, seen, quiet, argVars>>

Construct(t) ==
    /\ At(t, "construct")
    /\ life[slot(t)].phase = "vacant"
    /\ life' = Set(life, slot(t), Word(life[slot(t)].gen + 1, "constructing", {}))
    /\ h' = [h EXCEPT ![t].gen = @ + 1]
    /\ Goto(t, "build")
    /\ UNCHANGED <<gate, inbox, carry, waveOwner, state, payload, free, nodeState,
                   queueVars, ret, seen, quiet, argVars>>

(* Allocation or the initializer failed: the advanced generation stays.    *)
ConstructFails(t) ==
    /\ At(t, "build")
    /\ life' = Set(life, slot(t), Word(gen(t), "vacant", {}))
    /\ free' = free \cup {slot(t)}
    /\ Return(t)
    /\ UNCHANGED <<gate, inbox, carry, waveOwner, state, payload, nodeState, queueVars>>

(* A late sender that finds the gate open again meets the phase before     *)
(* anything else, so the stores before the last one are one step.          *)
Build(t) ==
    /\ At(t, "build")
    /\ inbox' = Set(inbox, slot(t), <<>>)
    /\ carry' = Set(carry, slot(t), <<>>)
    /\ gate' = Set(gate, slot(t), [closed |-> FALSE, count |-> 0])
    /\ waveOwner' = Set(waveOwner, slot(t), None)
    /\ state' = Set(state, slot(t), gen(t))
    /\ payload' = Set(payload, slot(t), gen(t))
    /\ Goto(t, "open")
    /\ UNCHANGED <<life, free, nodeState, queueVars, ret, h, seen, quiet, argVars>>

OpenActor(t) ==
    /\ At(t, "open")
    /\ life' = Set(life, slot(t), Word(gen(t), "idle", {}))
    /\ Return(t)
    /\ UNCHANGED <<gate, inbox, carry, waveOwner, state, payload, free, nodeState,
                   queueVars>>

-----------------------------------------------------------------------------
(* sendActor: reserveSubmission, the node, pushInbox, signalActor.         *)

Send(t) ==
    /\ Starts(t, "send")
    /\ \E s \in Slots, n \in Nodes :
        /\ life[s].phase \in Active /\ "retire" \notin life[s].flags
        /\ Open(t, s, "reserve")
        /\ node' = Set(node, t, n)
    /\ UNCHANGED <<slotVars, queueVars, ret, seen, quiet, mode, local, again, snap>>

ReserveSubmission(t) ==
    /\ At(t, "reserve")
    /\ IF gate[slot(t)].closed
       THEN Return(t) /\ UNCHANGED gate
       ELSE /\ gate' = [gate EXCEPT ![slot(t)].count = @ + 1]
            /\ Goto(t, "confirm")
            /\ UNCHANGED <<ret, h, seen, quiet, argVars>>
    /\ UNCHANGED <<life, inbox, carry, waveOwner, state, payload, free, nodeState,
                   queueVars>>

(* Variant of Confirms: the generation is taken to be what it was.         *)
ConfirmsBlindly(w, g) == TRUE

(* The reservation is for the generation it was asked for.                 *)
Confirms(w, g) == w.gen = g /\ w.phase \in Active

ConfirmSubmission(t) ==
    /\ At(t, "confirm")
    /\ Goto(t, IF Confirms(life[slot(t)], gen(t)) THEN "waveFree" ELSE "release")
    /\ UNCHANGED <<slotVars, queueVars, ret, h, seen, quiet, argVars>>

SendMeetsWave(t) ==
    /\ At(t, "waveFree")
    /\ Goto(t, IF waveOwner[slot(t)] = None THEN "claimNode" ELSE "release")
    /\ UNCHANGED <<slotVars, queueVars, ret, h, seen, quiet, argVars>>

ClaimNode(t) ==
    /\ At(t, "claimNode")
    /\ IF nodeState[node[t]] = "free"
       THEN nodeState' = Set(nodeState, node[t], "queued") /\ Goto(t, "push")
       ELSE UNCHANGED nodeState /\ Goto(t, "release")
    /\ UNCHANGED <<life, gate, inbox, carry, waveOwner, state, payload, free,
                   queueVars, ret, h, seen, quiet, argVars>>

PushInbox(t) ==
    /\ At(t, "push")
    /\ inbox' = [inbox EXCEPT ![slot(t)] = <<node[t]>> \o @]
    /\ Goto(t, "signal")
    /\ ret' = Set(ret, t, "release")
    /\ Forget(t)
    /\ UNCHANGED <<life, gate, carry, waveOwner, state, payload, free, nodeState,
                   queueVars, h>>

(* signalActor finds the generation, not yet over; a closing one only if   *)
(* the caller may signal it.                                               *)
Signals(t, allowClosing) ==
    /\ life[slot(t)].gen = gen(t)
    /\ life[slot(t)].phase \in Active
    /\ allowClosing \/ "retire" \notin life[slot(t)].flags

(* The bits a lifecycle keeps when an idle actor is scheduled.             *)
Scheduled(w) == Word(w.gen, "scheduled", w.flags \cap retainedMask)

(* Variant of Queues: a running actor is queued as well.                   *)
QueuesRunning(w) == w.phase \in {"idle", "running"}

(* Only an idle actor is put on the ready queue.                           *)
Queues(w) == w.phase = "idle"

(* signalActor, its successful CAS; it returns to ret.                     *)
Signal(t) ==
    /\ At(t, "signal") \/ At(t, "wake")
    /\ LET w == life[slot(t)] IN
       IF ~Signals(t, At(t, "signal"))
       THEN Resume(t) /\ UNCHANGED life
       ELSE IF Queues(w)
       THEN /\ life' = Set(life, slot(t), Scheduled(w))
            /\ PushReady(t, ret[t])
            /\ UNCHANGED <<h, seen, quiet, argVars>>
       ELSE life' = [life EXCEPT ![slot(t)].flags = @ \cup {"pending"}] /\ Resume(t)
    /\ UNCHANGED <<gate, inbox, carry, waveOwner, state, payload, free, nodeState,
                   queueVars>>

(* releaseSubmission: fatal if there is no reservation.                    *)
ReleaseSubmission(t) ==
    /\ At(t, "release")
    /\ gate[slot(t)].count > 0
    /\ gate' = [gate EXCEPT ![slot(t)].count = @ - 1]
    /\ Return(t)
    /\ UNCHANGED <<life, inbox, carry, waveOwner, state, payload, free, nodeState,
                   queueVars>>

(* wakeActor.                                                              *)
Wake(t) ==
    /\ Starts(t, "wake")
    /\ \E s \in Slots :
        /\ life[s].phase \in Active /\ "retire" \notin life[s].flags
        /\ Open(t, s, "wakeWave")
    /\ UNCHANGED <<slotVars, queueVars, ret, seen, quiet, argVars>>

WakeMeetsWave(t) ==
    /\ At(t, "wakeWave")
    /\ IF waveOwner[slot(t)] = None
       THEN Goto(t, "wake") /\ UNCHANGED <<ret, h, seen, quiet, argVars>>
       ELSE Return(t)
    /\ UNCHANGED <<slotVars, queueVars>>

-----------------------------------------------------------------------------
(* requestActorRetire, driveActorRetirement.                               *)

RetireOpens(w) == w.phase \in Active /\ "op" \notin w.flags

Retire(t) ==
    /\ Starts(t, "retire")
    /\ \E s \in Slots, m \in {{"retire"}, retireModeMask} :
        /\ RetireOpens(life[s])
        /\ seen' = Set(seen, t, life[s])
        /\ mode' = Set(mode, t, m)
        /\ Open(t, s, "retireWave")
    /\ UNCHANGED <<slotVars, queueVars, ret, quiet, node, local, again, snap>>

RetireMeetsWave(t) ==
    /\ At(t, "retireWave")
    /\ IF waveOwner[slot(t)] # None \/ mode[t] \subseteq seen[t].flags
       THEN Return(t)
       ELSE Goto(t, "pin") /\ UNCHANGED <<ret, h, seen, quiet, argVars>>
    /\ UNCHANGED <<slotVars, queueVars>>

(* Mark and pin in one CAS; a failure starts over with the reloaded word.  *)
PinRetire(t) ==
    /\ At(t, "pin")
    /\ LET w == life[slot(t)] IN
       IF w = seen[t]
       THEN /\ life' = [life EXCEPT ![slot(t)].flags = @ \cup mode[t] \cup {"op"}]
            /\ Goto(t, "close")
            /\ ret' = Set(ret, t, "drive")
            /\ Forget(t)
            /\ UNCHANGED h
       ELSE /\ UNCHANGED life
            /\ IF w.gen = gen(t) /\ RetireOpens(w)
               THEN /\ seen' = Set(seen, t, w)
                    /\ Goto(t, "retireWave")
                    /\ UNCHANGED <<ret, h, quiet, argVars>>
               ELSE Return(t)
    /\ UNCHANGED <<gate, inbox, carry, waveOwner, state, payload, free, nodeState,
                   queueVars>>

(* closeSubmissionGate.                                                    *)
CloseGate(t) ==
    /\ At(t, "close")
    /\ gate' = [gate EXCEPT ![slot(t)].closed = TRUE]
    /\ Resume(t)
    /\ UNCHANGED <<life, inbox, carry, waveOwner, state, payload, free, nodeState,
                   queueVars>>

(* driveActorRetirement on the word w: an idle actor is retired here or    *)
(* scheduled, another one is signalled.                                    *)
DriveOn(t, w) ==
    /\ IF w.gen # gen(t) \/ w.phase \notin Active \/ "retire" \notin w.flags
       THEN Goto(t, "unpin") /\ Forget(t) /\ UNCHANGED ret
       ELSE IF w.phase = "idle"
       THEN Goto(t, "driveGate") /\ seen' = Set(seen, t, w) /\ UNCHANGED <<ret, quiet, argVars>>
       ELSE Goto(t, "signal") /\ Forget(t) /\ ret' = Set(ret, t, "unpin")
    /\ UNCHANGED h

Drive(t) ==
    /\ At(t, "drive")
    /\ DriveOn(t, life[slot(t)])
    /\ UNCHANGED <<slotVars, queueVars>>

(* Variant of Joined: reservations under way are not counted.              *)
JoinedLoosely(g) == g.closed

(* The gate is closed and joins every accepted sender.                     *)
Joined(g) == g.closed /\ g.count = 0

DriveGate(t) ==
    /\ At(t, "driveGate")
    /\ Goto(t, IF Joined(gate[slot(t)]) THEN "driveJoin" ELSE "driveQueue")
    /\ UNCHANGED <<slotVars, queueVars, ret, h, seen, quiet, argVars>>

(* Variant of Unmoved: the word is not loaded again.                       *)
UnmovedUnread(t) == TRUE

(* The recheck after the gate.                                             *)
Unmoved(t) == life[slot(t)] = seen[t]

DriveJoin(t) ==
    /\ At(t, "driveJoin")
    /\ IF Unmoved(t)
       THEN Goto(t, "publish") /\ UNCHANGED <<ret, h, seen, quiet, argVars>>
       ELSE DriveOn(t, life[slot(t)])
    /\ UNCHANGED <<slotVars, queueVars>>

(* The plain store of RETIRED, which releases the pin.                     *)
PublishRetired(t) ==
    /\ At(t, "publish")
    /\ life' = Set(life, slot(t), Word(gen(t), "retired", {}))
    /\ Return(t)
    /\ UNCHANGED <<gate, inbox, carry, waveOwner, state, payload, free, nodeState,
                   queueVars>>

DriveQueue(t) ==
    /\ At(t, "driveQueue")
    /\ IF life[slot(t)] = seen[t]
       THEN /\ life' = Set(life, slot(t), Scheduled(seen[t]))
            /\ PushReady(t, "unpin")
            /\ Forget(t)
            /\ UNCHANGED h
       ELSE DriveOn(t, life[slot(t)]) /\ UNCHANGED life
    /\ UNCHANGED <<gate, inbox, carry, waveOwner, state, payload, free, nodeState,
                   queueVars>>

Unpin(t) ==
    /\ At(t, "unpin")
    /\ life' = [life EXCEPT ![slot(t)].flags = @ \ {"op"}]
    /\ Return(t)
    /\ UNCHANGED <<gate, inbox, carry, waveOwner, state, payload, free, nodeState,
                   queueVars>>

-----------------------------------------------------------------------------
(* reclaimActor.                                                           *)

(* Variant of Reclaimable: a pin does not keep the slot.                   *)
ReclaimableUnderPin(w) == w.phase = "retired"

Reclaimable(w) == w.phase = "retired" /\ "op" \notin w.flags

Reclaim(t) ==
    /\ Starts(t, "reclaim")
    /\ \E s \in Slots :
        /\ Reclaimable(life[s])
        /\ seen' = Set(seen, t, life[s])
        /\ Open(t, s, "reclaimWave")
    /\ UNCHANGED <<slotVars, queueVars, ret, quiet, argVars>>

ReclaimMeetsWave(t) ==
    /\ At(t, "reclaimWave")
    /\ IF waveOwner[slot(t)] = None
       THEN Goto(t, "claim") /\ UNCHANGED <<ret, h, seen, quiet, argVars>>
       ELSE Return(t)
    /\ UNCHANGED <<slotVars, queueVars>>

ClaimReclaim(t) ==
    /\ At(t, "claim")
    /\ IF life[slot(t)] = seen[t]
       THEN /\ life' = Set(life, slot(t), Word(gen(t), "reclaiming", {}))
            /\ Goto(t, "destroy")
            /\ Forget(t)
            /\ UNCHANGED <<ret, h>>
       ELSE Return(t) /\ UNCHANGED life
    /\ UNCHANGED <<gate, inbox, carry, waveOwner, state, payload, free, nodeState,
                   queueVars>>

(* What reclaimActor calls fatal otherwise.                                *)
Drained(s) == Joined(gate[s]) /\ inbox[s] = <<>> /\ carry[s] = <<>>

Destroy(t) ==
    /\ At(t, "destroy")
    /\ Drained(slot(t))
    /\ state' = Set(state, slot(t), 0)
    /\ payload' = Set(payload, slot(t), 0)
    /\ Goto(t, "freeSlot")
    /\ UNCHANGED <<life, gate, inbox, carry, waveOwner, free, nodeState, queueVars,
                   ret, h, seen, quiet, argVars>>

ReturnFreeSlot(t) ==
    /\ At(t, "freeSlot")
    /\ life' = Set(life, slot(t), Word(gen(t), "vacant", {}))
    /\ free' = free \cup {slot(t)}
    /\ Return(t)
    /\ UNCHANGED <<gate, inbox, carry, waveOwner, state, payload, nodeState, queueVars>>

CallerNext(t) ==
    \/ ReserveSlot(t) \/ Construct(t) \/ ConstructFails(t) \/ Build(t) \/ OpenActor(t)
    \/ Send(t) \/ ReserveSubmission(t) \/ ConfirmSubmission(t) \/ SendMeetsWave(t)
    \/ ClaimNode(t) \/ PushInbox(t) \/ Signal(t) \/ ReleaseSubmission(t)
    \/ Wake(t) \/ WakeMeetsWave(t)
    \/ Retire(t) \/ RetireMeetsWave(t) \/ PinRetire(t) \/ CloseGate(t)
    \/ Drive(t) \/ DriveGate(t) \/ DriveJoin(t) \/ PublishRetired(t)
    \/ DriveQueue(t) \/ Unpin(t)
    \/ Reclaim(t) \/ ReclaimMeetsWave(t) \/ ClaimReclaim(t) \/ Destroy(t)
    \/ ReturnFreeSlot(t)
=============================================================================
