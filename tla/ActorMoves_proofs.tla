---------------------------- MODULE ActorMoves_proofs ----------------------------
(***************************************************************************)
(* The invariant of the actors' lifecycle, and what every action of        *)
(* ActorSlots and ActorRuns does, for every number of slots, threads,      *)
(* nodes and generations: which edge of the lifecycle word it follows,     *)
(* what it leaves to other threads, and what its own thread relies on      *)
(* afterwards.  Actors_proofs draws the conclusions.                       *)
(***************************************************************************)
EXTENDS Actors, SequenceTheorems, FiniteSetTheorems, TLAPS

-----------------------------------------------------------------------------
(* Types.                                                                  *)

Words == [gen : 0 .. MaxGen, phase : Phases, flags : SUBSET Flags]

SlotTypes ==
    /\ life \in [Slots -> Words]
    /\ gate \in [Slots -> [closed : BOOLEAN, count : Nat]]
    /\ inbox \in [Slots -> Seq(Nodes)]
    /\ carry \in [Slots -> Seq(Nodes)]
    /\ waveOwner \in [Slots -> Threads \cup {None}]
    /\ state \in [Slots -> 0 .. MaxGen]
    /\ payload \in [Slots -> 0 .. MaxGen]
    /\ free \subseteq Slots
    /\ nodeState \in [Nodes -> {"free", "queued", "processing"}]

QueueTypes ==
    /\ ready \in Seq(Slots)
    /\ readyCarry \in Seq(Slots)
    /\ readyCount \in Int
    /\ draining \in BOOLEAN
    /\ farm \in [Slots -> [0 .. MaxGen -> Nat]]
    /\ stale \in Nat

(* The registers that Forget clears, and snap.                             *)
LocalTypes ==
    /\ seen \in [Threads -> Words]
    /\ quiet \in [Threads -> BOOLEAN]
    /\ node \in [Threads -> Nodes \cup {None}]
    /\ mode \in [Threads -> SUBSET Flags]
    /\ local \in [Threads -> Seq(Nodes)]
    /\ again \in [Threads -> BOOLEAN]
    /\ snap \in [Threads -> Seq(Slots)]

ThreadTypes ==
    /\ DOMAIN pc = Threads
    /\ DOMAIN ret = Threads
    /\ h \in [Threads -> [slot : Slots, gen : 0 .. MaxGen]]
    /\ LocalTypes

Types == SlotTypes /\ QueueTypes /\ ThreadTypes

(* Where a helper was called from.                                         *)
Returns(t) ==
    /\ Pushing(t) => ret[t] \in {"release", "unpin", "pushBack", "idle", "leaveWave"}
    /\ At(t, "signal") => ret[t] \in {"release", "unpin"}
    /\ At(t, "close") => ret[t] \in {"drive", "exit"}
    /\ pc[t] \in {"idle", "wakeWave", "wake", "take", "ungate", "write"} => ret[t] = "idle"
    /\ pc[t] \in {"reserve", "confirm", "waveFree", "claimNode", "push", "process"} =>
          node[t] \in Nodes
    /\ Len(snap[t]) <= MaxFlush
    /\ snap[t] # <<>> => \/ pc[t] \in {"take", "ungate", "write", "pushBack"}
                         \/ Pushing(t) /\ ret[t] = "pushBack"

-----------------------------------------------------------------------------
(* What a thread relies on, by where it is.                                *)

Making(t) == pc[t] \in {"construct", "build", "open", "destroy", "freeSlot"}

(* It has a reservation on the gate.                                       *)
Reserving(t) ==
    \/ pc[t] \in {"confirm", "waveFree", "claimNode", "push", "release"}
    \/ (Pushing(t) \/ At(t, "signal")) /\ ret[t] = "release"

Entering(t) == pc[t] \in {"entryGate", "entryInbox", "run", "retireNow", "requeue"}

(* It is the activation of its slot.                                       *)
Busy(t) == Pushing(t) \/ Activating(t) \/ InWave(t)

(* It is a wave that owns its slot.                                        *)
Owning(t) ==
    \/ pc[t] \in {"member", "operation", "leaveWave"}
    \/ Pushing(t) /\ ret[t] = "leaveWave"

(* Nobody has, or will get, a reservation on the gate of slot s.           *)
Untouched(s) ==
    /\ gate[s].count = 0
    /\ gate[s].closed \/ \A t \in Threads : At(t, "reserve") => slot(t) # s

(* Whoever pushed last to slot s is going to signal.                       *)
Heard(s) ==
    /\ carry[s] = <<>>
    /\ inbox[s] # <<>> =>
          \E t \in Threads : At(t, "signal") /\ ret[t] = "release" /\ slot(t) = s

Awaited(s) == Heard(s) \/ "pending" \in life[s].flags

MakerSound(t) ==
    /\ Making(t) => slot(t) \notin free /\ life[slot(t)].gen = gen(t)
    /\ At(t, "construct") => life[slot(t)].phase = "vacant" /\ gen(t) < MaxGen
    /\ pc[t] \in {"build", "open"} => life[slot(t)].phase = "constructing"
    /\ At(t, "build") => Untouched(slot(t))
    /\ At(t, "open") => state[slot(t)] = gen(t) /\ payload[slot(t)] = gen(t)
    /\ pc[t] \in {"destroy", "freeSlot"} => life[slot(t)].phase = "reclaiming"

SenderSound(t) ==
    Admitted(t) => life[slot(t)].gen = gen(t) /\ life[slot(t)].phase \in Active

OwnerSound(t) ==
    /\ Pinning(t) => life[slot(t)].gen = gen(t) /\ "op" \in life[slot(t)].flags
    /\ pc[t] \in {"retireWave", "pin"} =>
          /\ RetireOpens(seen[t]) /\ seen[t].gen = gen(t)
          /\ mode[t] \in {{"retire"}, retireModeMask}
    /\ pc[t] \in {"driveGate", "driveJoin", "driveQueue", "publish"} =>
          seen[t].gen = gen(t) /\ seen[t].phase = "idle" /\ "retire" \in seen[t].flags
    /\ pc[t] \in {"driveJoin", "publish"} => Joined(gate[slot(t)])
    /\ At(t, "publish") => life[slot(t)] = seen[t] /\ Drained(slot(t))

(* The generation seen retired is retired still, or over.                  *)
ReclaimerSound(t) ==
    /\ pc[t] \in {"reclaimWave", "claim"} =>
          /\ seen[t] = Word(gen(t), "retired", {})
          /\ \/ life[slot(t)].gen > gen(t)
             \/ life[slot(t)].gen = gen(t) /\ life[slot(t)].phase \in {"reclaiming", "vacant"}
             \/ life[slot(t)] = seen[t]
    /\ At(t, "claim") /\ life[slot(t)] = seen[t] => waveOwner[slot(t)] = None

ActivationSound(t) ==
    /\ Entering(t) =>
          /\ life[slot(t)].gen = gen(t) /\ life[slot(t)].phase = "scheduled"
          /\ seen[t].gen = gen(t)
    /\ At(t, "entryInbox") /\ quiet[t] => Joined(gate[slot(t)])
    /\ At(t, "retireNow") => Drained(slot(t))
    /\ Activating(t) /\ ~Entering(t) =>
          life[slot(t)].gen = gen(t) /\ life[slot(t)].phase = "running"
    /\ At(t, "exitInbox") /\ "retire" \in seen[t].flags /\ quiet[t] => Joined(gate[slot(t)])
    /\ At(t, "leave") /\ "retire" \in seen[t].flags /\ quiet[t] => Drained(slot(t))
    /\ At(t, "leave") /\ "retire" \notin seen[t].flags /\ ~again[t] => Awaited(slot(t))

WaveSound(t) ==
    /\ InWave(t) => /\ life[slot(t)].gen = gen(t) /\ life[slot(t)].phase = "scheduled"
                    /\ Awaited(slot(t))
    /\ Owning(t) => waveOwner[slot(t)] = t

ThreadSound(t) ==
    /\ Returns(t) /\ MakerSound(t) /\ SenderSound(t) /\ OwnerSound(t)
    /\ ReclaimerSound(t) /\ ActivationSound(t) /\ WaveSound(t)

-----------------------------------------------------------------------------
(* What holds of a slot in each phase, and that roles are taken once.      *)

SlotSound(s) ==
    /\ life[s].phase \in {"vacant", "constructing", "reclaiming"} =>
          life[s].flags = {} /\ waveOwner[s] = None
    /\ life[s].phase = "retired" => life[s].flags \subseteq {"op"}
    /\ life[s].phase = "idle" => "pending" \notin life[s].flags
    /\ life[s].phase \in Active => state[s] = life[s].gen /\ payload[s] = life[s].gen
    /\ s \in free => life[s].phase = "vacant"
    /\ life[s].phase \notin Active => inbox[s] = <<>> /\ carry[s] = <<>>
    /\ life[s].phase \in {"retired", "reclaiming"} => Joined(gate[s])
    /\ life[s].phase = "vacant" => Untouched(s)
    /\ life[s].phase = "idle" => Heard(s)

Alone ==
    \A t, u \in Threads : slot(t) = slot(u) =>
        /\ Making(t) /\ Making(u) => t = u
        /\ Pinning(t) /\ Pinning(u) => t = u

ReservationsCounted ==
    \A s \in Slots :
        gate[s].count = Cardinality({t \in Threads : Reserving(t) /\ slot(t) = s})

(* Where the activation of a slot is, if it has one.                       *)
Queued(s) == s \in Range(ready) \/ s \in Range(readyCarry)
Published(s) == \E g \in 0 .. MaxGen : farm[s][g] > 0
Has(t, s) == (s \in Range(snap[t])) \/ (Busy(t) /\ slot(t) = s)

TokenSound(s) ==
    /\ ~(s \in Range(ready) /\ s \in Range(readyCarry))
    /\ ~(Queued(s) /\ Published(s))
    /\ \A t \in Threads : Has(t, s) => ~Queued(s) /\ ~Published(s)
    /\ \A t, u \in Threads : Has(t, s) /\ Has(u, s) => t = u
    /\ \A t \in Threads : ~(s \in Range(snap[t]) /\ Busy(t) /\ slot(t) = s)
    /\ Queued(s) \/ Published(s) => life[s].phase = "scheduled"
    /\ \A t \in Threads : s \in Range(snap[t]) => life[s].phase = "scheduled"
    /\ \A t \in Threads : Pushing(t) /\ slot(t) = s => life[s].phase = "scheduled"
    /\ life[s].phase \in {"scheduled", "running"} =>
          Queued(s) \/ Published(s) \/ \E t \in Threads : Has(t, s)
    /\ \A g \in 0 .. MaxGen : farm[s][g] > 0 => farm[s][g] = 1 /\ g = life[s].gen

TokensOnce ==
    /\ IsInjective(ready) /\ IsInjective(readyCarry)
    /\ \A t \in Threads : IsInjective(snap[t])
    /\ stale = 0

Inv ==
    /\ Types
    /\ \A t \in Threads : ThreadSound(t)
    /\ \A s \in Slots : SlotSound(s)
    /\ Alone
    /\ ReservationsCounted
    /\ \A s \in Slots : TokenSound(s)
    /\ TokensOnce

(* What every step of a thread starts from.                                *)
Grounds(t) ==
    /\ Types /\ ThreadTypes /\ ThreadSound(t) /\ slot(t) \in Slots /\ SlotSound(slot(t))
    /\ life[slot(t)] \in Words /\ gate[slot(t)] \in [closed : BOOLEAN, count : Nat]
    /\ h[t] \in [slot : Slots, gen : 0 .. MaxGen] /\ gen(t) \in 0 .. MaxGen

(* What the lemmas on the actions assume follows from the invariant.       *)
LEMMA GroundsHold == ASSUME Inv, NEW t \in Threads PROVE Grounds(t)
  BY DEF Inv, Types, ThreadTypes, SlotTypes, slot, gen, Grounds

-----------------------------------------------------------------------------
(* What a step may do to a slot: the graph of the lifecycle word and who   *)
(* follows which edge, the gate, the inbox, and the rest.                  *)

(* The edges of the lifecycle word.                                        *)
Keep(s) == life'[s] = life[s]
Same(s) == life'[s].gen = life[s].gen
Step(s, from, to) == life[s].phase = from /\ life'[s].phase = to /\ life'[s].flags = {}

Begins(t, s) ==
    /\ slot(t) = s /\ At(t, "construct") /\ Step(s, "vacant", "constructing")
    /\ life'[s].gen = life[s].gen + 1
Fails(t, s) == slot(t) = s /\ At(t, "build") /\ Step(s, "constructing", "vacant") /\ Same(s)
Opens(t, s) == slot(t) = s /\ At(t, "open") /\ Step(s, "constructing", "idle") /\ Same(s)
Frees(t, s) == slot(t) = s /\ At(t, "freeSlot") /\ Step(s, "reclaiming", "vacant") /\ Same(s)
Claims(t, s) ==
    /\ slot(t) = s /\ At(t, "claim") /\ Step(s, "retired", "reclaiming") /\ Same(s)
    /\ life[s].flags = {} /\ waveOwner[s] = None
Ends(t, s) ==
    /\ slot(t) = s /\ At(t, "publish") /\ Step(s, "idle", "retired") /\ Same(s)
    /\ Drained(s)

(* The pin is released.                                                    *)
Unpins(t, s) ==
    /\ slot(t) = s /\ At(t, "unpin") /\ Same(s)
    /\ life[s].phase \in Active \cup {"retired"} /\ life'[s].phase = life[s].phase
    /\ life'[s].flags = life[s].flags \ {"op"}

(* A pin, a signal, or a retirement that the callback asks for.            *)
Marks(s) ==
    /\ life[s].phase \in Active /\ Same(s) /\ life'[s].phase = life[s].phase
    /\ life[s].flags \subseteq life'[s].flags
    /\ life[s].phase = "idle" => "op" \notin life[s].flags /\ "pending" \notin life'[s].flags

(* An idle actor is scheduled, by a signal, its retirement or a wave.      *)
Wakens(t, s) ==
    /\ life[s].phase = "idle" /\ life'[s].phase = "scheduled" /\ Same(s)
    /\ life'[s].flags = life[s].flags \cap retainedMask
    /\ "retire" \in life[s].flags => slot(t) = s /\ (Reserving(t) \/ Pinning(t))
    /\ Busy(t)' /\ slot(t)' = s

(* The activation runs, goes back to the queue, or is over.                *)
Advances(t, s) ==
    /\ slot(t) = s /\ Busy(t) /\ ~Pushing(t)
    /\ life[s].phase \in {"scheduled", "running"} /\ Same(s)
    /\ life'[s].phase \in {"scheduled", "running", "idle", "retired"}
    /\ "op" \in life[s].flags => "op" \in life'[s].flags
    /\ life'[s].phase = "idle" =>
          "pending" \notin life[s].flags /\ "pending" \notin life'[s].flags /\ Heard(s)
    /\ life'[s].phase = "retired" => life'[s].flags \subseteq {"op"} /\ Drained(s)

LifeMoves(t, s) ==
    \/ Keep(s)
    \/ Begins(t, s) \/ Fails(t, s) \/ Opens(t, s)
    \/ Marks(s) \/ Wakens(t, s) \/ Advances(t, s) \/ Unpins(t, s)
    \/ Ends(t, s) \/ Claims(t, s) \/ Frees(t, s)

(* The gate opens with the actor, closes, and counts.                      *)
Reopens(t, s) ==
    /\ slot(t) = s /\ At(t, "build") /\ Keep(s)
    /\ ~gate'[s].closed /\ gate'[s].count = 0
Closes(s) == gate'[s].closed /\ gate'[s].count = gate[s].count
Admits(t, s) ==
    /\ slot(t) = s /\ At(t, "reserve") /\ ~gate[s].closed
    /\ ~gate'[s].closed /\ gate'[s].count = gate[s].count + 1
    /\ pc'[t] = "confirm"
Releases(t, s) ==
    /\ slot(t) = s /\ At(t, "release")
    /\ gate'[s].closed = gate[s].closed /\ gate'[s].count = gate[s].count - 1

GateMoves(t, s) ==
    \/ gate'[s] = gate[s]
    \/ Reopens(t, s) \/ Closes(s) \/ Admits(t, s) \/ Releases(t, s)

(* The inbox is reset, pushed to, or worked on by the activation.          *)
Resets(t, s) == slot(t) = s /\ At(t, "build") /\ inbox'[s] = <<>> /\ carry'[s] = <<>>
Pushes(t, s) ==
    /\ slot(t) = s /\ At(t, "push") /\ carry'[s] = carry[s]
    /\ pc'[t] = "signal" /\ ret'[t] = "release" /\ h'[t] = h[t]
Works(t, s) == slot(t) = s /\ Activating(t) /\ life'[s].phase = "running"

InboxMoves(t, s) ==
    \/ inbox'[s] = inbox[s] /\ carry'[s] = carry[s]
    \/ Resets(t, s) \/ Pushes(t, s) \/ Works(t, s)

OwnerMoves(t, s) ==
    \/ waveOwner'[s] = waveOwner[s]
    \/ slot(t) = s /\ At(t, "build") /\ waveOwner'[s] = None
    \/ slot(t) = s /\ At(t, "waveCheck") /\ waveOwner[s] = None
    \/ slot(t) = s /\ Owning(t) /\ waveOwner'[s] = None
StateMoves(t, s) ==
    \/ state'[s] = state[s] /\ payload'[s] = payload[s]
    \/ slot(t) = s /\ pc[t] \in {"build", "destroy"}
FreeMoves(t, s) ==
    \/ s \in free' => s \in free
    \/ slot(t) = s /\ pc[t] \in {"build", "freeSlot"} /\ life'[s].phase = "vacant"

SlotMoves(t) ==
    \A s \in Slots :
        /\ LifeMoves(t, s) /\ GateMoves(t, s) /\ InboxMoves(t, s)
        /\ OwnerMoves(t, s) /\ StateMoves(t, s) /\ FreeMoves(t, s)

(* What a step does to the roles of its own thread.                        *)
RoleMoves(t) ==
    /\ Making(t)' => \/ Making(t) /\ slot(t)' = slot(t)
                     \/ slot(t)' \in free
                     \/ life[slot(t)'].phase = "retired"
    /\ Pinning(t)' => \/ Pinning(t) /\ slot(t)' = slot(t)
                      \/ "op" \notin life[slot(t)'].flags
    /\ Reserving(t) /\ ~At(t, "release") => Reserving(t)' /\ slot(t)' = slot(t)
    /\ Reserving(t)' /\ ~At(t, "reserve") => Reserving(t)
    /\ At(t, "reserve") /\ Reserving(t)' => ~gate[slot(t)].closed /\ slot(t)' = slot(t)
          /\ gate'[slot(t)].count = gate[slot(t)].count + 1
    /\ At(t, "release") => ~Reserving(t)' /\ gate'[slot(t)].count = gate[slot(t)].count - 1
    /\ At(t, "reserve")' => life[slot(t)'].phase \in Active
    /\ At(t, "signal") /\ ret[t] = "release" =>
          \/ life'[slot(t)].phase # "idle" /\ life[slot(t)].phase = "idle"
          \/ "pending" \in life'[slot(t)].flags

Others(t) ==
    \A u \in Threads \ {t} :
        /\ pc'[u] = pc[u] /\ ret'[u] = ret[u] /\ h'[u] = h[u]
        /\ seen'[u] = seen[u] /\ quiet'[u] = quiet[u] /\ node'[u] = node[u]
        /\ mode'[u] = mode[u] /\ local'[u] = local[u] /\ again'[u] = again[u]
        /\ snap'[u] = snap[u]

Moves(t) ==
    /\ Types' /\ Others(t) /\ ThreadSound(t)'
    /\ SlotMoves(t) /\ RoleMoves(t)

(* The activation stays where it is, or is the step's own thread.          *)
Carries(t) ==
    /\ UNCHANGED <<ready, readyCarry, farm, stale, snap>>
    /\ Busy(t) /\ Busy(t)' => slot(t)' = slot(t)
    /\ Busy(t) /\ ~Busy(t)' => life'[slot(t)].phase \notin {"scheduled", "running"}
    /\ ~Busy(t) /\ Busy(t)' => life[slot(t)'].phase = "idle" /\ life'[slot(t)'].phase = "scheduled"
    /\ Pushing(t)' => life'[slot(t)'].phase = "scheduled"

-----------------------------------------------------------------------------
(* What the helpers do to the registers.                                   *)

(* The cleared handle is a handle.                                         *)
LEMMA NoHandleTyped == NoHandle \in [slot : Slots, gen : 0 .. MaxGen]
  BY ActorAssumption DEF NoHandle

(* The cleared word is a word.                                             *)
LEMMA NoWordTyped == NoWord \in Words
  BY ActorAssumption DEF NoWord, Word, Words, Phases, Flags

(* Detaching an inbox keeps the type and the length.                       *)
LEMMA DetachedTyped ==
    ASSUME NEW q \in Seq(Nodes)
    PROVE  /\ Detached(q) \in Seq(Nodes) /\ Len(Detached(q)) = Len(q)
           /\ Detached(q) = <<>> <=> q = <<>>
<1>1. \A i \in 1 .. Len(q) : q[Len(q) - i + 1] \in Nodes
  OBVIOUS
<1>2. [i \in 1 .. Len(q) |-> q[Len(q) - i + 1]] \in Seq(Nodes)
  BY <1>1
<1>3. Detached(q) = [i \in 1 .. Len(q) |-> q[Len(q) - i + 1]]
  BY DEF Detached, Reverse
<1>4. QED
  BY <1>2, <1>3

(* The registers are typed still, and those of others as they were.        *)
Registers(t) == ThreadTypes' /\ Others(t)

OthersLocal(t) ==
    \A u \in Threads \ {t} :
        /\ seen'[u] = seen[u] /\ quiet'[u] = quiet[u] /\ node'[u] = node[u]
        /\ mode'[u] = mode[u] /\ local'[u] = local[u] /\ again'[u] = again[u]
        /\ snap'[u] = snap[u]

(* What clearing the registers leaves.                                     *)
LEMMA Forgets ==
    ASSUME LocalTypes, NEW t \in Threads, Forget(t)
    PROVE  LocalTypes' /\ OthersLocal(t) /\ snap' = snap
<1> USE DEF Forget, Set
<1>1. LocalTypes'
  BY NoWordTyped DEF LocalTypes
<1>2. OthersLocal(t)
  BY DEF LocalTypes, OthersLocal
<1>3. QED
  BY <1>1, <1>2

(* Where Return goes.                                                      *)
LEMMA ReturnGoes ==
    ASSUME ThreadTypes, NEW t \in Threads, Return(t)
    PROVE  Registers(t) /\ pc'[t] = "idle" /\ ret'[t] = "idle" /\ snap' = snap
<1>1. LocalTypes' /\ OthersLocal(t) /\ snap' = snap
  BY Forgets DEF ThreadTypes, Return
<1>2. /\ DOMAIN pc' = Threads /\ DOMAIN ret' = Threads
      /\ h' \in [Threads -> [slot : Slots, gen : 0 .. MaxGen]]
      /\ pc'[t] = "idle" /\ ret'[t] = "idle"
  BY NoHandleTyped DEF ThreadTypes, Return, Goto, Set
<1>3. \A u \in Threads \ {t} : pc'[u] = pc[u] /\ ret'[u] = ret[u] /\ h'[u] = h[u]
  BY DEF ThreadTypes, Return, Goto, Set
<1>4. QED
  BY <1>1, <1>2, <1>3 DEF ThreadTypes, Registers, Others, OthersLocal

(* The registers of the thread itself but for pc and ret.                  *)
Keeps(t) ==
    /\ h'[t] = h[t] /\ seen'[t] = seen[t] /\ quiet'[t] = quiet[t] /\ node'[t] = node[t]
    /\ mode'[t] = mode[t] /\ local'[t] = local[t] /\ again'[t] = again[t]

(* Where Resume goes.                                                      *)
LEMMA ResumeGoes ==
    ASSUME ThreadTypes, NEW t \in Threads, Resume(t)
    PROVE  /\ Registers(t) /\ snap' = snap /\ pc'[t] = ret[t] /\ ret'[t] = ret[t]
           /\ ret[t] # "idle" => Keeps(t)
<1>1. CASE ret[t] = "idle"
  BY <1>1, ReturnGoes DEF Resume
<1>2. CASE ret[t] # "idle"
  <2>1. Goto(t, ret[t]) /\ UNCHANGED <<ret, h, seen, quiet, node, mode, local, again, snap>>
    BY <1>2 DEF Resume, argVars
  <2>2. Registers(t)
    BY <2>1 DEF Goto, Set, ThreadTypes, LocalTypes, Others, Registers
  <2>3. QED
    BY <2>1, <2>2 DEF Goto, Set, ThreadTypes, Keeps
<1>3. QED
  BY <1>1, <1>2

(* Where pushReady's caller goes.                                          *)
LEMMA PushReadyGoes ==
    ASSUME ThreadTypes, NEW t \in Threads, NEW l, PushReady(t, l),
           LocalTypes', OthersLocal(t), h' = h
    PROVE  Registers(t) /\ pc'[t] = "count" /\ ret'[t] = l /\ h'[t] = h[t]
  BY DEF PushReady, Goto, Set, ThreadTypes, Others, OthersLocal, Registers

(* Where driveActorRetirement goes on, by the word it saw.                 *)
LEMMA DriveOnGoes ==
    ASSUME ThreadTypes, NEW t \in Threads, NEW w \in Words, DriveOn(t, w)
    PROVE  /\ Registers(t) /\ snap' = snap /\ h'[t] = h[t]
           /\ \/ pc'[t] = "unpin"
              \/ pc'[t] = "signal" /\ ret'[t] = "unpin"
              \/ /\ pc'[t] = "driveGate" /\ seen'[t] = w
                 /\ w.gen = gen(t) /\ w.phase = "idle" /\ "retire" \in w.flags
<1> DEFINE over == w.gen # gen(t) \/ w.phase \notin Active \/ "retire" \notin w.flags
<1>1. CASE over
  <2>1. Goto(t, "unpin") /\ Forget(t) /\ UNCHANGED <<ret, h>>
    BY <1>1 DEF DriveOn
  <2>2. LocalTypes' /\ OthersLocal(t) /\ snap' = snap
    BY <2>1, Forgets DEF ThreadTypes
  <2>3. QED
    BY <2>1, <2>2 DEF Goto, Set, ThreadTypes, Others, OthersLocal, Registers
<1>2. CASE ~over /\ w.phase = "idle"
  <2>1. /\ Goto(t, "driveGate") /\ seen' = Set(seen, t, w)
        /\ UNCHANGED <<ret, h, quiet, node, mode, local, again, snap>>
    BY <1>2 DEF DriveOn, argVars
  <2>2. Registers(t)
    BY <2>1 DEF Goto, Set, ThreadTypes, LocalTypes, Others, Registers
  <2>3. QED
    BY <1>2, <2>1, <2>2 DEF Goto, Set, ThreadTypes, LocalTypes
<1>3. CASE ~over /\ w.phase # "idle"
  <2>1. Goto(t, "signal") /\ Forget(t) /\ ret' = Set(ret, t, "unpin") /\ UNCHANGED h
    BY <1>3 DEF DriveOn
  <2>2. LocalTypes' /\ OthersLocal(t) /\ snap' = snap
    BY <2>1, Forgets DEF ThreadTypes
  <2>3. QED
    BY <2>1, <2>2 DEF Goto, Set, ThreadTypes, Others, OthersLocal, Registers
<1>4. QED
  BY <1>1, <1>2, <1>3

(* Where enterActor goes on, by the word it saw.                           *)
LEMMA EnterOnGoes ==
    ASSUME ThreadTypes, NEW t \in Threads, NEW s \in Slots, NEW w \in Words,
           EnterOn(t, s, w.gen, w), w.phase = "scheduled"
    PROVE  /\ Registers(t) /\ snap' = snap /\ stale' = stale /\ ret'[t] = ret[t]
           /\ h'[t] = [slot |-> s, gen |-> w.gen] /\ seen'[t] = w
           /\ pc'[t] \in {"entryGate", "run"}
<1>1. /\ Goto(t, IF "retire" \in w.flags THEN "entryGate" ELSE "run")
      /\ h' = Set(h, t, [slot |-> s, gen |-> w.gen]) /\ seen' = Set(seen, t, w)
      /\ UNCHANGED <<stale, ret, quiet, node, mode, local, again, snap>>
  BY DEF EnterOn, argVars
<1>2. Registers(t)
  BY <1>1 DEF Goto, Set, ThreadTypes, LocalTypes, Others, Registers, Words
<1>3. QED
  BY <1>1, <1>2 DEF Goto, Set, ThreadTypes, LocalTypes

(* Where the end of an activation goes on, by the word it saw.             *)
LEMMA ExitOnGoes ==
    ASSUME ThreadTypes, NEW t \in Threads, NEW w \in Words,
           ExitOn(t, w), w.gen = gen(t), w.phase = "running"
    PROVE  /\ Registers(t) /\ snap' = snap /\ stale' = stale /\ ret'[t] = ret[t]
           /\ h'[t] = h[t] /\ seen'[t] = w
           /\ pc'[t] = IF "retire" \in w.flags THEN "exitGate" ELSE "exitInbox"
<1>1. /\ Goto(t, IF "retire" \in w.flags THEN "exitGate" ELSE "exitInbox")
      /\ seen' = Set(seen, t, w)
      /\ UNCHANGED <<stale, h, ret, quiet, node, mode, local, again, snap>>
  BY DEF ExitOn, argVars
<1>2. Registers(t)
  BY <1>1 DEF Goto, Set, ThreadTypes, LocalTypes, Others, Registers
<1>3. QED
  BY <1>1, <1>2 DEF Goto, Set, ThreadTypes, LocalTypes

(* A step that leaves the slots alone moves nothing there.                 *)
LEMMA QuietMoves ==
    ASSUME SlotTypes, NEW t \in Threads, UNCHANGED slotVars
    PROVE  SlotTypes' /\ SlotMoves(t)
<1> USE DEF slotVars
<1>1. SlotTypes'
  BY DEF SlotTypes
<1>2. SlotMoves(t)
  BY DEF SlotMoves, LifeMoves, Keep, GateMoves, InboxMoves, OwnerMoves, StateMoves, FreeMoves
<1>3. QED
  BY <1>1, <1>2

(* A thread that has returned relies on nothing.                           *)
LEMMA IdleSound ==
    ASSUME NEW t \in Threads, pc'[t] = "idle", ret'[t] = "idle", Len(snap'[t]) <= MaxFlush,
           snap'[t] = <<>>
    PROVE  ThreadSound(t)'
  BY DEF ThreadSound, Returns, MakerSound, SenderSound, OwnerSound, ReclaimerSound,
    ActivationSound, WaveSound, Making, Admitted, Pinning, Entering, Activating, InWave, Owning,
    Pushing, At

(* Records with one field set.                                             *)
LEMMA FieldSet ==
    /\ \A w \in Words : \A x :
          /\ [w EXCEPT !.flags = x] = Word(w.gen, w.phase, x)
          /\ [w EXCEPT !.phase = x] = Word(w.gen, x, w.flags)
    /\ \A g \in [closed : BOOLEAN, count : Nat] : \A x :
          /\ [g EXCEPT !.count = x] = [closed |-> g.closed, count |-> x]
          /\ [g EXCEPT !.closed = x] = [closed |-> x, count |-> g.count]
    /\ \A k \in [slot : Slots, gen : 0 .. MaxGen] : \A x :
          [k EXCEPT !.gen = x] = [slot |-> k.slot, gen |-> x]
<1>1. ASSUME NEW w \in Words, NEW x
      PROVE  /\ [w EXCEPT !.flags = x] = Word(w.gen, w.phase, x)
             /\ [w EXCEPT !.phase = x] = Word(w.gen, x, w.flags)
  BY DEF Words, Word
<1>2. ASSUME NEW g \in [closed : BOOLEAN, count : Nat], NEW x
      PROVE  /\ [g EXCEPT !.count = x] = [closed |-> g.closed, count |-> x]
             /\ [g EXCEPT !.closed = x] = [closed |-> x, count |-> g.count]
  OBVIOUS
<1>3. ASSUME NEW k \in [slot : Slots, gen : 0 .. MaxGen], NEW x
      PROVE  [k EXCEPT !.gen = x] = [slot |-> k.slot, gen |-> x]
  OBVIOUS
<1>4. QED
  BY <1>1, <1>2, <1>3

(* What taking a slot from a handle does to the thread.                    *)
LEMMA OpenGoes ==
    ASSUME ThreadTypes, SlotTypes, NEW t \in Threads, NEW s \in Slots, NEW l, Open(t, s, l)
    PROVE  /\ DOMAIN pc' = Threads /\ h' \in [Threads -> [slot : Slots, gen : 0 .. MaxGen]]
           /\ pc'[t] = l /\ slot(t)' = s /\ gen(t)' = life[s].gen
           /\ \A u \in Threads \ {t} : pc'[u] = pc[u] /\ h'[u] = h[u]
<1>1. life[s].gen \in 0 .. MaxGen
  BY DEF SlotTypes, Words
<1>2. QED
  BY <1>1 DEF Open, Goto, Set, ThreadTypes, slot, gen

(* A gate without reservations has no sender behind it.                    *)
LEMMA NoneReserves ==
    ASSUME Inv, NEW s \in Slots, gate[s].count = 0, NEW u \in Threads
    PROVE  ~(Reserving(u) /\ slot(u) = s)
<1> DEFINE R == {t \in Threads : Reserving(t) /\ slot(t) = s}
<1>1. IsFiniteSet(R)
  BY ActorAssumption, FS_Subset
<1>2. Cardinality(R) = 0
  BY DEF Inv, ReservationsCounted
<1>3. R = {}
  BY <1>1, <1>2, FS_EmptySet
<1>4. QED
  BY <1>3

(* Who is heard stays heard while the inbox and the senders stay.          *)
LEMMA HeardStays ==
    ASSUME NEW t \in Threads, NEW s \in Slots, Others(t), ~At(t, "signal"), Heard(s),
           inbox'[s] = inbox[s], carry'[s] = carry[s]
    PROVE  Heard(s)'
  BY DEF Heard, Others, At, slot

(* A thread whose helper returns is where the call left off.               *)
LEMMA ResumedSound ==
    ASSUME NEW t \in Threads, Grounds(t), pc[t] \in {"signal", "wake", "link"},
           pc'[t] = ret[t], ret'[t] = ret[t], ret[t] # "idle" => h'[t] = h[t], snap' = snap,
           life'[slot(t)].gen = life[slot(t)].gen,
           "op" \in life[slot(t)].flags => "op" \in life'[slot(t)].flags,
           waveOwner'[slot(t)] = waveOwner[slot(t)]
    PROVE  /\ ThreadSound(t)'
           /\ ~Making(t)' /\ pc'[t] # "reserve"
           /\ Pinning(t)' => Pinning(t) /\ slot(t)' = slot(t)
           /\ Reserving(t) <=> Reserving(t)'
           /\ Reserving(t) => slot(t)' = slot(t)
<1>1. ThreadSound(t) /\ Returns(t)
  BY DEF Grounds, ThreadSound
<1>2. pc'[t] \in {"release", "unpin", "pushBack", "idle", "leaveWave"}
  BY <1>1 DEF Returns, Pushing, At
<1>3. Returns(t)'
  BY <1>1, <1>2 DEF Returns, Pushing, At
<1>4. pc'[t] = "unpin" => Pinning(t) /\ OwnerSound(t)
  BY <1>1 DEF Pinning, Pushing, At, ThreadSound, Returns
<1>5. OwnerSound(t)'
  BY <1>2, <1>4 DEF OwnerSound, Pinning, Pushing, At, slot, gen
<1>6. pc'[t] = "leaveWave" => Owning(t) /\ WaveSound(t)
  BY <1>1, <1>2 DEF Owning, Pushing, Returns, At, ThreadSound
<1>7. WaveSound(t)'
  BY <1>2, <1>6 DEF WaveSound, InWave, Owning, Pushing, At, slot
<1>8. ThreadSound(t)'
  BY <1>2, <1>3, <1>5, <1>7 DEF ThreadSound, MakerSound, SenderSound, ReclaimerSound,
    ActivationSound, Making, Admitted, Entering, Activating, Pushing, At
<1>9. Reserving(t) <=> Reserving(t)'
  BY <1>1, <1>2 DEF Reserving, Returns, Pushing, At
<1>10. Reserving(t) => ret[t] = "release"
  BY DEF Reserving, Pushing, At
<1>11. QED
  BY <1>2, <1>4, <1>8, <1>9, <1>10 DEF Making, Pinning, Pushing, At, slot

-----------------------------------------------------------------------------
(* createActor.                                                            *)

LEMMA ReserveSlotMoves ==
    ASSUME Inv, NEW t \in Threads, ReserveSlot(t)
    PROVE  Moves(t) /\ Carries(t)
<1>1. Grounds(t)
  BY GroundsHold
<1>2. /\ Registers(t) /\ slot(t)' \in Slots /\ pc[t] = "idle"
      /\ pc'[t] = "construct"
      /\ slot(t)' \in free /\ free' = free \ {slot(t)'}
      /\ gen(t)' = life[slot(t)'].gen
      /\ gen(t)' < MaxGen
      /\ ret'[t] = ret[t]
      /\ snap' = snap
  <2>1. PICK s \in Slots :
        /\ s \in free /\ life[s].gen < MaxGen /\ free' = free \ {s}
        /\ Open(t, s, "construct")
    BY <1>1 DEF ReserveSlot, Types, SlotTypes, Grounds
  <2>2. /\ DOMAIN pc' = Threads /\ h' \in [Threads -> [slot : Slots, gen : 0 .. MaxGen]]
        /\ pc'[t] = "construct" /\ slot(t)' = s /\ gen(t)' = life[s].gen
        /\ \A u \in Threads \ {t} : pc'[u] = pc[u] /\ h'[u] = h[u]
    BY <1>1, <2>1, OpenGoes DEF Types, Grounds
  <2>3. pc[t] = "idle" /\ UNCHANGED <<ret, seen, quiet, node, mode, local, again, snap>>
    BY DEF ReserveSlot, Starts, argVars
  <2>4. ThreadTypes'
    BY <1>1, <2>1, <2>2, <2>3 DEF Types, SlotTypes, Words, ThreadTypes, LocalTypes, Set, Grounds
  <2>5. Others(t)
    BY <1>1, <2>1, <2>2, <2>3 DEF ThreadTypes, LocalTypes, Others, Set, Grounds
  <2>6. QED
    BY <1>1, <2>1, <2>2, <2>3, <2>4, <2>5 DEF ThreadTypes, LocalTypes, Registers, Set, Grounds
<1>3. /\ UNCHANGED <<life, gate, inbox, carry, waveOwner, state, payload, nodeState>>
      /\ free' = free \ {slot(t)'}
  BY <1>2 DEF ReserveSlot
<1>4. free' \subseteq Slots
  BY ActorAssumption, <1>1, <1>3, <1>2 DEF Types, SlotTypes, Grounds
<1>5. SlotTypes'
  BY <1>1, <1>3, <1>4 DEF Types, SlotTypes, Grounds
<1>6. \A r \in Slots : LifeMoves(t, r)
  BY <1>3 DEF LifeMoves, Keep
<1>7. \A r \in Slots :
        /\ GateMoves(t, r) /\ InboxMoves(t, r)
        /\ OwnerMoves(t, r) /\ StateMoves(t, r)
  BY <1>3 DEF GateMoves, InboxMoves, OwnerMoves, StateMoves
<1>8. \A r \in Slots : FreeMoves(t, r)
  BY <1>1, <1>2, <1>3 DEF FreeMoves, ReserveSlot, At, slot, gen, Grounds
<1>9. SlotMoves(t)
  BY <1>6, <1>7, <1>8 DEF SlotMoves
<1>10. QueueTypes'
  BY <1>1 DEF ReserveSlot, queueVars, Types, QueueTypes, Grounds
<1>11. SlotSound(slot(t)') /\ life[slot(t)'] \in Words
  BY <1>1, <1>2 DEF Inv, Types, SlotTypes, Grounds
<1>12. ThreadSound(t)'
  BY <1>11, <1>1, <1>2, <1>3 DEF SlotSound, ThreadSound, Returns, MakerSound, SenderSound,
    OwnerSound, ReclaimerSound, ActivationSound, WaveSound, Admitted, Pinning, Entering,
    Activating, InWave, Owning, At, Grounds
<1>13. RoleMoves(t)
  BY <1>1, <1>2, <1>3 DEF slotVars, RoleMoves, Making, Pinning, Reserving, Pushing, At, slot, gen,
    Keeps, Grounds
<1>14. Carries(t)
  BY <1>1, <1>2, <1>3 DEF ReserveSlot, Carries, Busy, Pushing, Activating, InWave, At, queueVars
<1>15. QED
  BY <1>2, <1>5, <1>9, <1>10, <1>12, <1>13, <1>14 DEF Moves, Types, Registers

LEMMA ConstructMoves ==
    ASSUME Inv, NEW t \in Threads, Construct(t)
    PROVE  Moves(t) /\ Carries(t)
<1>1. Grounds(t)
  BY GroundsHold
<1>2. /\ At(t, "construct") /\ life[slot(t)].phase = "vacant" /\ life[slot(t)].gen = gen(t)
      /\ gen(t) + 1 \in 0 .. MaxGen /\ slot(t) \notin free /\ waveOwner[slot(t)] = None
  BY ActorAssumption, <1>1 DEF Construct, ThreadSound, MakerSound, SlotSound, Making, At, Grounds
<1>3. h' = [h EXCEPT ![t] = [slot |-> h[t].slot, gen |-> h[t].gen + 1]]
  <2>1. [h[t] EXCEPT !.gen = h[t].gen + 1] = [slot |-> h[t].slot, gen |-> h[t].gen + 1]
    BY <1>1, FieldSet DEF Grounds
  <2>2. QED
    BY <1>1, <2>1 DEF Construct, Grounds
<1>4. /\ Registers(t)
      /\ pc'[t] = "build"
      /\ h'[t] = [slot |-> slot(t), gen |-> gen(t) + 1]
      /\ snap' = snap
  <2>1. h' \in [Threads -> [slot : Slots, gen : 0 .. MaxGen]]
    BY <1>2, <1>1, <1>3 DEF ThreadTypes, slot, gen, Grounds
  <2>2. QED
    BY <1>1, <1>3, <2>1 DEF Construct, Goto, Set, argVars, gen, queueVars, slot, Types,
      ThreadTypes, LocalTypes, Registers, Others, Grounds
<1>5. /\ UNCHANGED <<gate, inbox, carry, waveOwner, state, payload, free, nodeState>>
      /\ life' = [r \in Slots |-> IF r = slot(t) THEN Word(gen(t) + 1, "constructing", {})
             ELSE life[r]]
  BY <1>2, <1>1 DEF Construct, Set, Types, SlotTypes, Grounds
<1>6. life' \in [Slots -> Words]
  BY <1>2, <1>1, <1>5 DEF Types, SlotTypes, Words, Word, Phases, Flags, Grounds
<1>7. SlotTypes'
  BY <1>1, <1>5, <1>6 DEF Types, SlotTypes, Grounds
<1>8. /\ \A r \in Slots : r # slot(t) => life'[r] = life[r]
      /\ life'[slot(t)] = Word(gen(t) + 1, "constructing", {})
  BY <1>1, <1>5 DEF Grounds
<1>9. Begins(t, slot(t))
  BY <1>2, <1>8 DEF Begins, Step, Word
<1>10. \A r \in Slots : LifeMoves(t, r)
  BY <1>9, <1>5, <1>8 DEF LifeMoves, Keep
<1>11. \A r \in Slots :
         /\ GateMoves(t, r) /\ InboxMoves(t, r) /\ OwnerMoves(t, r)
         /\ StateMoves(t, r) /\ FreeMoves(t, r)
  BY <1>5, <1>8 DEF GateMoves, InboxMoves, OwnerMoves, StateMoves, FreeMoves
<1>12. SlotMoves(t)
  BY <1>10, <1>11 DEF SlotMoves
<1>13. QueueTypes'
  BY <1>1 DEF Construct, queueVars, Types, QueueTypes, Grounds
<1>14. ThreadSound(t)'
  <2>1. Untouched(slot(t)) /\ slot(t)' = slot(t)
    BY <1>2, <1>1, <1>4 DEF SlotSound, slot, Grounds
  <2>2. Untouched(slot(t))'
    BY <1>1, <1>4, <1>5, <2>1 DEF Untouched, At, Registers, Others, slot, Grounds
  <2>3. slot(t)' \notin free' /\ life'[slot(t)'].gen = gen(t)' /\ life'[slot(t)'].phase
            = "constructing"
    BY <1>2, <1>4, <1>5, <1>8, <2>1 DEF Word, slot, gen
  <2>4. MakerSound(t)'
    BY <1>4, <2>2, <2>3 DEF MakerSound, Making, At
  <2>5. Len(snap'[t]) <= MaxFlush /\ snap'[t] = <<>>
    BY <1>2, <1>1, <1>4 DEF ThreadSound, Returns, At, Pushing, Grounds
  <2>6. QED
    BY <1>4, <2>4, <2>5 DEF ThreadSound, Returns, SenderSound, OwnerSound, ReclaimerSound,
      ActivationSound, WaveSound, Admitted, Pinning, Entering, Activating, InWave, Owning,
      Pushing, At
<1>15. RoleMoves(t)
  BY <1>1, <1>4, <1>5 DEF Construct, slotVars, RoleMoves, Making, Pinning, Reserving, Pushing, At,
    slot, gen, Keeps, Grounds
<1>16. Carries(t)
  BY <1>1, <1>4, <1>5 DEF Construct, Carries, Busy, Pushing, Activating, InWave, At, queueVars
<1>17. QED
  BY <1>4, <1>7, <1>12, <1>13, <1>14, <1>15, <1>16 DEF Moves, Types, Registers

LEMMA ConstructFailsMoves ==
    ASSUME Inv, NEW t \in Threads, ConstructFails(t)
    PROVE  Moves(t) /\ Carries(t)
<1>1. Grounds(t)
  BY GroundsHold
<1>2. /\ At(t, "build") /\ life[slot(t)].phase = "constructing" /\ life[slot(t)].gen = gen(t)
  BY <1>1 DEF ConstructFails, ThreadSound, MakerSound, Making, At, Grounds
<1>3. /\ Registers(t)
      /\ pc'[t] = "idle"
      /\ ret'[t] = "idle"
      /\ snap' = snap
  BY <1>1, ReturnGoes DEF ConstructFails, Set, ThreadTypes, LocalTypes, Registers, Others, Keeps,
    Grounds
<1>4. /\ UNCHANGED <<gate, inbox, carry, waveOwner, state, payload, nodeState>>
      /\ life' = [r \in Slots |-> IF r = slot(t) THEN Word(gen(t), "vacant", {}) ELSE life[r]]
      /\ free' = free \cup {slot(t)}
  BY <1>1 DEF ConstructFails, At, Set, slot, SlotTypes, Types, Grounds
<1>5. life' \in [Slots -> Words]
  BY ActorAssumption, <1>1, <1>4 DEF Types, SlotTypes, Words, Word, Phases, Flags, Grounds
<1>6. free' \subseteq Slots
  BY ActorAssumption, <1>1, <1>4, <1>3 DEF Types, SlotTypes, Grounds
<1>7. SlotTypes'
  BY <1>1, <1>4, <1>5, <1>6 DEF Types, SlotTypes, Grounds
<1>8. /\ \A r \in Slots : r # slot(t) => life'[r] = life[r]
      /\ life'[slot(t)] = Word(gen(t), "vacant", {})
  BY <1>1, <1>4 DEF Grounds
<1>9. Fails(t, slot(t))
  BY <1>2, <1>8 DEF Fails, Same, Step, Word
<1>10. \A r \in Slots : LifeMoves(t, r)
  BY <1>9, <1>4, <1>8 DEF LifeMoves, Keep
<1>11. \A r \in Slots :
         /\ GateMoves(t, r) /\ InboxMoves(t, r)
         /\ OwnerMoves(t, r) /\ StateMoves(t, r)
  BY <1>4, <1>8 DEF GateMoves, InboxMoves, OwnerMoves, StateMoves
<1>12. \A r \in Slots : FreeMoves(t, r)
  BY <1>2, <1>1, <1>4, <1>8 DEF FreeMoves, Word, At, Grounds
<1>13. SlotMoves(t)
  BY <1>10, <1>11, <1>12 DEF SlotMoves
<1>14. QueueTypes'
  BY <1>1 DEF ConstructFails, queueVars, Types, QueueTypes, Grounds
<1>15. ThreadSound(t)'
  BY <1>1, <1>3, IdleSound DEF ThreadSound, Returns, MakerSound, SenderSound, OwnerSound,
    ReclaimerSound, ActivationSound, WaveSound, ConstructFails, At, Pushing, Starts, Grounds
<1>16. RoleMoves(t)
  BY <1>1, <1>3, <1>4 DEF ConstructFails, slotVars, RoleMoves, Making, Pinning, Reserving,
    Pushing, At, slot, gen, Keeps, Grounds
<1>17. Carries(t)
  BY <1>1, <1>3, <1>4 DEF ConstructFails, Carries, Busy, Pushing, Activating, InWave, At,
    queueVars
<1>18. QED
  BY <1>3, <1>7, <1>13, <1>14, <1>15, <1>16, <1>17 DEF Moves, Types, Registers

LEMMA BuildMoves ==
    ASSUME Inv, NEW t \in Threads, Build(t)
    PROVE  Moves(t) /\ Carries(t)
<1>1. Grounds(t)
  BY GroundsHold
<1>2. /\ Registers(t)
      /\ pc'[t] = "open"
      /\ Keeps(t)
      /\ ret'[t] = ret[t]
      /\ snap' = snap
  BY <1>1 DEF Build, Goto, Set, argVars, ThreadTypes, LocalTypes, Registers, Others, Keeps,
    Grounds
<1>3. /\ UNCHANGED <<life, free, nodeState>>
      /\ inbox' = [r \in Slots |-> IF r = slot(t) THEN <<>> ELSE inbox[r]]
      /\ carry' = [r \in Slots |-> IF r = slot(t) THEN <<>> ELSE carry[r]]
      /\ gate' = [r \in Slots |-> IF r = slot(t) THEN [closed |-> FALSE, count |-> 0]
             ELSE gate[r]]
      /\ waveOwner' = [r \in Slots |-> IF r = slot(t) THEN None ELSE waveOwner[r]]
      /\ state' = [r \in Slots |-> IF r = slot(t) THEN gen(t) ELSE state[r]]
      /\ payload' = [r \in Slots |-> IF r = slot(t) THEN gen(t) ELSE payload[r]]
  BY <1>1 DEF Build, At, Set, slot, SlotTypes, Types, Grounds
<1>4. gate' \in [Slots -> [closed : BOOLEAN, count : Nat]]
  BY ActorAssumption, <1>1, <1>3 DEF Types, SlotTypes, Grounds
<1>5. inbox' \in [Slots -> Seq(Nodes)]
  BY ActorAssumption, <1>1, <1>3 DEF Types, SlotTypes, Grounds
<1>6. carry' \in [Slots -> Seq(Nodes)]
  BY ActorAssumption, <1>1, <1>3 DEF Types, SlotTypes, Grounds
<1>7. waveOwner' \in [Slots -> Threads \cup {None}]
  BY ActorAssumption, <1>1, <1>3 DEF Types, SlotTypes, Grounds
<1>8. state' \in [Slots -> 0 .. MaxGen]
  BY ActorAssumption, <1>1, <1>3 DEF Types, SlotTypes, Grounds
<1>9. payload' \in [Slots -> 0 .. MaxGen]
  BY ActorAssumption, <1>1, <1>3 DEF Types, SlotTypes, Grounds
<1>10. SlotTypes'
  BY <1>1, <1>3, <1>4, <1>5, <1>6, <1>7, <1>8, <1>9 DEF Types, SlotTypes, Grounds
<1>11. /\ \A r \in Slots : r # slot(t) =>
              /\ gate'[r] = gate[r] /\ inbox'[r] = inbox[r] /\ carry'[r] = carry[r]
              /\ waveOwner'[r] = waveOwner[r] /\ state'[r] = state[r] /\ payload'[r] = payload[r]
       /\ inbox'[slot(t)] = <<>>
       /\ carry'[slot(t)] = <<>>
       /\ gate'[slot(t)] = [closed |-> FALSE, count |-> 0]
       /\ waveOwner'[slot(t)] = None
       /\ state'[slot(t)] = gen(t)
       /\ payload'[slot(t)] = gen(t)
  BY <1>1, <1>3 DEF Grounds
<1>12. \A r \in Slots : LifeMoves(t, r)
  BY <1>3, <1>11 DEF LifeMoves, Keep
<1>13. Reopens(t, slot(t))
  BY <1>1, <1>2, <1>11 DEF Reopens, Keep, Build, ThreadSound, At, slot, gen, Grounds
<1>14. \A r \in Slots : GateMoves(t, r)
  BY <1>13, <1>3, <1>11 DEF GateMoves
<1>15. Resets(t, slot(t))
  BY <1>1, <1>2, <1>11 DEF Resets, Build, ThreadSound, At, slot, gen, Grounds
<1>16. \A r \in Slots : InboxMoves(t, r)
  BY <1>15, <1>3, <1>11 DEF InboxMoves
<1>17. \A r \in Slots : OwnerMoves(t, r)
  BY <1>1, <1>2, <1>3, <1>11 DEF OwnerMoves, Build, At, slot, gen, Grounds
<1>18. \A r \in Slots : StateMoves(t, r)
  BY <1>1, <1>2, <1>3, <1>11 DEF StateMoves, Build, At, slot, gen, Grounds
<1>19. \A r \in Slots : FreeMoves(t, r)
  BY <1>3, <1>11 DEF FreeMoves
<1>20. SlotMoves(t)
  BY <1>12, <1>14, <1>16, <1>17, <1>18, <1>19 DEF SlotMoves
<1>21. QueueTypes'
  BY <1>1 DEF Build, queueVars, Types, QueueTypes, Grounds
<1>22. ThreadSound(t)'
  BY <1>1, <1>2, <1>3 DEF Build, ThreadSound, Returns, MakerSound, SenderSound, OwnerSound,
    ReclaimerSound, ActivationSound, WaveSound, Making, Admitted, Pinning, Entering, Activating,
    InWave, Owning, Pushing, At, slot, gen, Grounds
<1>23. RoleMoves(t)
  BY <1>1, <1>2, <1>3 DEF Build, slotVars, RoleMoves, Making, Pinning, Reserving, Pushing, At,
    slot, gen, Keeps, Grounds
<1>24. Carries(t)
  BY <1>1, <1>2, <1>3 DEF Build, Carries, Busy, Pushing, Activating, InWave, At, queueVars
<1>25. QED
  BY <1>2, <1>10, <1>20, <1>21, <1>22, <1>23, <1>24 DEF Moves, Types, Registers

LEMMA OpenActorMoves ==
    ASSUME Inv, NEW t \in Threads, OpenActor(t)
    PROVE  Moves(t) /\ Carries(t)
<1>1. Grounds(t)
  BY GroundsHold
<1>2. /\ At(t, "open") /\ life[slot(t)].phase = "constructing" /\ life[slot(t)].gen = gen(t)
  BY <1>1 DEF OpenActor, ThreadSound, MakerSound, Making, At, Grounds
<1>3. /\ Registers(t)
      /\ pc'[t] = "idle"
      /\ ret'[t] = "idle"
      /\ snap' = snap
  BY <1>1, ReturnGoes DEF OpenActor, Set, ThreadTypes, LocalTypes, Registers, Others, Keeps,
    Grounds
<1>4. /\ UNCHANGED <<gate, inbox, carry, waveOwner, state, payload, free, nodeState>>
      /\ life' = [r \in Slots |-> IF r = slot(t) THEN Word(gen(t), "idle", {}) ELSE life[r]]
  BY <1>1 DEF OpenActor, At, Set, slot, SlotTypes, Types, Grounds
<1>5. life' \in [Slots -> Words]
  BY ActorAssumption, <1>1, <1>4 DEF Types, SlotTypes, Words, Word, Phases, Flags, Grounds
<1>6. SlotTypes'
  BY <1>1, <1>4, <1>5 DEF Types, SlotTypes, Grounds
<1>7. /\ \A r \in Slots : r # slot(t) => life'[r] = life[r]
      /\ life'[slot(t)] = Word(gen(t), "idle", {})
  BY <1>1, <1>4 DEF Grounds
<1>8. Opens(t, slot(t))
  BY <1>2, <1>7 DEF Opens, Same, Step, Word
<1>9. \A r \in Slots : LifeMoves(t, r)
  BY <1>8, <1>4, <1>7 DEF LifeMoves, Keep
<1>10. \A r \in Slots :
         /\ GateMoves(t, r) /\ InboxMoves(t, r) /\ OwnerMoves(t, r)
         /\ StateMoves(t, r) /\ FreeMoves(t, r)
  BY <1>4, <1>7 DEF GateMoves, InboxMoves, OwnerMoves, StateMoves, FreeMoves
<1>11. SlotMoves(t)
  BY <1>9, <1>10 DEF SlotMoves
<1>12. QueueTypes'
  BY <1>1 DEF OpenActor, queueVars, Types, QueueTypes, Grounds
<1>13. ThreadSound(t)'
  BY <1>1, <1>3, IdleSound DEF ThreadSound, Returns, MakerSound, SenderSound, OwnerSound,
    ReclaimerSound, ActivationSound, WaveSound, OpenActor, At, Pushing, Starts, Grounds
<1>14. RoleMoves(t)
  BY <1>1, <1>3, <1>4 DEF OpenActor, slotVars, RoleMoves, Making, Pinning, Reserving, Pushing, At,
    slot, gen, Keeps, Grounds
<1>15. Carries(t)
  BY <1>1, <1>3, <1>4 DEF OpenActor, Carries, Busy, Pushing, Activating, InWave, At, queueVars
<1>16. QED
  BY <1>3, <1>6, <1>11, <1>12, <1>13, <1>14, <1>15 DEF Moves, Types, Registers

-----------------------------------------------------------------------------
(* sendActor.                                                              *)

LEMMA SendMoves ==
    ASSUME Inv, NEW t \in Threads, Send(t)
    PROVE  Moves(t) /\ Carries(t)
<1>1. Grounds(t)
  BY GroundsHold
<1>2. /\ Registers(t) /\ slot(t)' \in Slots /\ pc[t] = "idle"
      /\ pc'[t] = "reserve"
      /\ ret'[t] = ret[t]
      /\ life[slot(t)'].phase \in Active
      /\ node'[t] \in Nodes
      /\ snap' = snap
  <2>1. PICK s \in Slots :
        /\ life[s].phase \in Active
        /\ Open(t, s, "reserve")
        /\ \E n \in Nodes : node' = Set(node, t, n)
    BY <1>1 DEF Send, Types, SlotTypes, Grounds
  <2>2. /\ DOMAIN pc' = Threads /\ h' \in [Threads -> [slot : Slots, gen : 0 .. MaxGen]]
        /\ pc'[t] = "reserve" /\ slot(t)' = s /\ gen(t)' = life[s].gen
        /\ \A u \in Threads \ {t} : pc'[u] = pc[u] /\ h'[u] = h[u]
    BY <1>1, <2>1, OpenGoes DEF Types, Grounds
  <2>3. pc[t] = "idle" /\ UNCHANGED <<ret, seen, quiet, mode, local, again, snap>>
    BY DEF Send, Starts, argVars
  <2>4. node' \in [Threads -> Nodes \cup {None}]
    BY <1>1, <2>1 DEF ThreadTypes, LocalTypes, Set, Grounds
  <2>5. ThreadTypes'
    BY <1>1, <2>4, <2>2, <2>3 DEF Types, SlotTypes, Words, ThreadTypes, LocalTypes, Set, Grounds
  <2>6. Others(t)
    BY <1>1, <2>1, <2>2, <2>3 DEF ThreadTypes, LocalTypes, Others, Set, Grounds
  <2>7. QED
    BY <1>1, <2>1, <2>2, <2>3, <2>5, <2>6 DEF ThreadTypes, LocalTypes, Registers, Set, Grounds
<1>3. UNCHANGED slotVars
  BY <1>1 DEF Send, slotVars, Grounds
<1>4. SlotTypes' /\ SlotMoves(t)
  BY <1>1, <1>3, QuietMoves DEF Types, Grounds
<1>5. QueueTypes'
  BY <1>1 DEF Send, queueVars, Types, QueueTypes, Grounds
<1>6. SlotSound(slot(t)') /\ life[slot(t)'] \in Words
  BY <1>1, <1>2 DEF Inv, Types, SlotTypes, Grounds
<1>7. ThreadSound(t)'
  BY <1>6, <1>1, <1>2, <1>3 DEF Send, ThreadSound, Returns, MakerSound, SenderSound, OwnerSound,
    ReclaimerSound, ActivationSound, WaveSound, Making, Admitted, Pinning, Entering, Activating,
    InWave, Owning, Pushing, At, slot, gen, Grounds
<1>8. RoleMoves(t)
  BY <1>1, <1>2, <1>3 DEF slotVars, RoleMoves, Making, Pinning, Reserving, Pushing, At, slot, gen,
    Keeps, Grounds
<1>9. Carries(t)
  BY <1>1, <1>2, <1>3 DEF Send, Carries, Busy, Pushing, Activating, InWave, At, queueVars
<1>10. QED
  BY <1>2, <1>4, <1>5, <1>7, <1>8, <1>9 DEF Moves, Types, Registers

LEMMA ReserveSubmissionMoves ==
    ASSUME Inv, NEW t \in Threads, ReserveSubmission(t)
    PROVE  Moves(t) /\ Carries(t)
<1>1. Grounds(t)
  BY GroundsHold
<1>2. CASE gate[slot(t)].closed
  <2>1. /\ Registers(t)
        /\ pc'[t] = "idle"
        /\ ret'[t] = "idle"
        /\ snap' = snap
    BY <1>2, <1>1, ReturnGoes DEF ReserveSubmission, Goto, argVars, Set, ThreadTypes, LocalTypes,
      Registers, Others, Keeps, Grounds
  <2>2. UNCHANGED slotVars
    BY <1>2, <1>1 DEF ReserveSubmission, At, Goto, argVars, queueVars, slot, Set, slotVars,
      Grounds
  <2>3. SlotTypes' /\ SlotMoves(t)
    BY <1>2, <1>1, <2>2, QuietMoves DEF Types, Grounds
  <2>4. QueueTypes'
    BY <1>2, <1>1 DEF ReserveSubmission, queueVars, Types, QueueTypes, Grounds
  <2>5. ThreadSound(t)'
    BY <1>2, <1>1, <2>1, IdleSound DEF ThreadSound, Returns, MakerSound, SenderSound, OwnerSound,
      ReclaimerSound, ActivationSound, WaveSound, ReserveSubmission, At, Pushing, Starts, Grounds
  <2>6. RoleMoves(t)
    BY <1>2, <1>1, <2>1, <2>2 DEF ReserveSubmission, slotVars, RoleMoves, Making, Pinning,
      Reserving, Pushing, At, slot, gen, Keeps, Grounds
  <2>7. Carries(t)
    BY <1>2, <1>1, <2>1, <2>2 DEF ReserveSubmission, Carries, Busy, Pushing, Activating, InWave,
      At, queueVars
  <2>8. QED
    BY <2>1, <2>3, <2>4, <2>5, <2>6, <2>7 DEF Moves, Types, Registers
<1>3. CASE ~gate[slot(t)].closed
  <2>1. gate' = [gate EXCEPT ![slot(t)]
            = [closed |-> gate[slot(t)].closed, count |-> gate[slot(t)].count + 1]]
    <3>1. [gate[slot(t)] EXCEPT !.count = gate[slot(t)].count + 1]
              = [closed |-> gate[slot(t)].closed, count |-> gate[slot(t)].count + 1]
      BY <1>1, FieldSet DEF Grounds
    <3>2. QED
      BY <1>3, <1>1, <3>1 DEF ReserveSubmission, Grounds
  <2>2. /\ Registers(t)
        /\ pc'[t] = "confirm"
        /\ Keeps(t)
        /\ ret'[t] = ret[t]
        /\ snap' = snap
    BY <1>3, <1>1 DEF ReserveSubmission, Goto, argVars, Set, ThreadTypes, LocalTypes, Registers,
      Others, Keeps, Grounds
  <2>3. /\ UNCHANGED <<life, inbox, carry, waveOwner, state, payload, free, nodeState>>
        /\ gate' = [r \in Slots |-> IF r = slot(t)
               THEN [closed |-> FALSE, count |-> gate[r].count + 1] ELSE gate[r]]
    BY <1>3, <1>1, <2>1 DEF ReserveSubmission, At, slot, Set, SlotTypes, Types, Grounds
  <2>4. gate' \in [Slots -> [closed : BOOLEAN, count : Nat]]
    <3>1. gate[slot(t)].count + 1 \in Nat
      BY <1>1 DEF Grounds
    <3>2. QED
      BY <3>1, <1>1, <2>3 DEF Types, SlotTypes, Grounds
  <2>5. SlotTypes'
    BY <1>3, <1>1, <2>3, <2>4 DEF Types, SlotTypes, Grounds
  <2>6. /\ \A r \in Slots : r # slot(t) => gate'[r] = gate[r]
        /\ gate'[slot(t)] = [closed |-> FALSE, count |-> gate[slot(t)].count + 1]
    BY <1>3, <1>1, <2>3 DEF Grounds
  <2>7. \A r \in Slots : LifeMoves(t, r)
    BY <1>3, <2>3, <2>6 DEF LifeMoves, Keep
  <2>8. Admits(t, slot(t))
    BY <1>3, <1>1, <2>2, <2>6 DEF Admits, ReserveSubmission, ThreadSound, At, slot, gen, Grounds
  <2>9. \A r \in Slots : GateMoves(t, r)
    BY <1>3, <2>8, <2>3, <2>6 DEF GateMoves
  <2>10. \A r \in Slots :
           /\ InboxMoves(t, r) /\ OwnerMoves(t, r)
           /\ StateMoves(t, r) /\ FreeMoves(t, r)
    BY <1>3, <2>3, <2>6 DEF InboxMoves, OwnerMoves, StateMoves, FreeMoves
  <2>11. SlotMoves(t)
    BY <1>3, <2>7, <2>9, <2>10 DEF SlotMoves
  <2>12. QueueTypes'
    BY <1>3, <1>1 DEF ReserveSubmission, queueVars, Types, QueueTypes, Grounds
  <2>13. ThreadSound(t)'
    BY <1>3, <1>1, <2>2, <2>3 DEF ReserveSubmission, slotVars, ThreadSound, Returns, MakerSound,
      SenderSound, OwnerSound, ReclaimerSound, ActivationSound, WaveSound, Making, Admitted,
      Pinning, Entering, Activating, InWave, Owning, Pushing, At, slot, gen, Keeps, Grounds
  <2>14. RoleMoves(t)
    BY <1>3, <1>1, <2>2, <2>3 DEF ReserveSubmission, slotVars, RoleMoves, Making, Pinning,
      Reserving, Pushing, At, slot, gen, Keeps, Grounds
  <2>15. Carries(t)
    BY <1>3, <1>1, <2>2, <2>3 DEF ReserveSubmission, Carries, Busy, Pushing, Activating, InWave,
      At, queueVars
  <2>16. QED
    BY <2>2, <2>5, <2>11, <2>12, <2>13, <2>14, <2>15 DEF Moves, Types, Registers
<1>4. QED
  BY <1>2, <1>3

LEMMA ConfirmSubmissionMoves ==
    ASSUME Inv, NEW t \in Threads, ConfirmSubmission(t)
    PROVE  Moves(t) /\ Carries(t)
<1>1. Grounds(t)
  BY GroundsHold
<1>2. CASE Confirms(life[slot(t)], gen(t))
  <2>1. /\ Registers(t)
        /\ pc'[t] = "waveFree"
        /\ Keeps(t)
        /\ ret'[t] = ret[t]
        /\ snap' = snap
    BY <1>2, <1>1 DEF ConfirmSubmission, Goto, argVars, Set, ThreadTypes, LocalTypes, Registers,
      Others, Keeps, Grounds
  <2>2. UNCHANGED slotVars
    BY <1>2, <1>1 DEF ConfirmSubmission, slotVars, Grounds
  <2>3. SlotTypes' /\ SlotMoves(t)
    BY <1>2, <1>1, <2>2, QuietMoves DEF Types, Grounds
  <2>4. QueueTypes'
    BY <1>2, <1>1 DEF ConfirmSubmission, queueVars, Types, QueueTypes, Grounds
  <2>5. ThreadSound(t)'
    BY <1>2, <1>1, <2>1, <2>2 DEF ConfirmSubmission, slotVars, ThreadSound, Returns, MakerSound,
      SenderSound, OwnerSound, ReclaimerSound, ActivationSound, WaveSound, Making, Pinning,
      Entering, Activating, InWave, Owning, Pushing, At, slot, gen, Keeps, Confirms, Grounds
  <2>6. RoleMoves(t)
    BY <1>2, <1>1, <2>1, <2>2 DEF ConfirmSubmission, slotVars, RoleMoves, Making, Pinning,
      Reserving, Pushing, At, slot, gen, Keeps, Grounds
  <2>7. Carries(t)
    BY <1>2, <1>1, <2>1, <2>2 DEF ConfirmSubmission, Carries, Busy, Pushing, Activating, InWave,
      At, queueVars
  <2>8. QED
    BY <2>1, <2>3, <2>4, <2>5, <2>6, <2>7 DEF Moves, Types, Registers
<1>3. CASE ~Confirms(life[slot(t)], gen(t))
  <2>1. /\ Registers(t)
        /\ pc'[t] = "release"
        /\ Keeps(t)
        /\ ret'[t] = ret[t]
        /\ snap' = snap
    BY <1>3, <1>1 DEF ConfirmSubmission, Goto, argVars, Set, ThreadTypes, LocalTypes, Registers,
      Others, Keeps, Grounds
  <2>2. UNCHANGED slotVars
    BY <1>3, <1>1 DEF ConfirmSubmission, slotVars, Grounds
  <2>3. SlotTypes' /\ SlotMoves(t)
    BY <1>3, <1>1, <2>2, QuietMoves DEF Types, Grounds
  <2>4. QueueTypes'
    BY <1>3, <1>1 DEF ConfirmSubmission, queueVars, Types, QueueTypes, Grounds
  <2>5. ThreadSound(t)'
    BY <1>3, <1>1, <2>1, <2>2 DEF ConfirmSubmission, ThreadSound, Returns, MakerSound,
      SenderSound, OwnerSound, ReclaimerSound, ActivationSound, WaveSound, Making, Admitted,
      Pinning, Entering, Activating, InWave, Owning, Pushing, At, slot, gen, Grounds
  <2>6. RoleMoves(t)
    BY <1>3, <1>1, <2>1, <2>2 DEF ConfirmSubmission, slotVars, RoleMoves, Making, Pinning,
      Reserving, Pushing, At, slot, gen, Keeps, Grounds
  <2>7. Carries(t)
    BY <1>3, <1>1, <2>1, <2>2 DEF ConfirmSubmission, Carries, Busy, Pushing, Activating, InWave,
      At, queueVars
  <2>8. QED
    BY <2>1, <2>3, <2>4, <2>5, <2>6, <2>7 DEF Moves, Types, Registers
<1>4. QED
  BY <1>2, <1>3

LEMMA SendMeetsWaveMoves ==
    ASSUME Inv, NEW t \in Threads, SendMeetsWave(t)
    PROVE  Moves(t) /\ Carries(t)
<1>1. Grounds(t)
  BY GroundsHold
<1>2. /\ Registers(t)
      /\ pc'[t] \in {"claimNode", "release"}
      /\ Keeps(t)
      /\ ret'[t] = ret[t]
      /\ snap' = snap
  BY <1>1 DEF SendMeetsWave, Goto, argVars, Set, ThreadTypes, LocalTypes, Registers, Others,
    Keeps, Grounds
<1>3. UNCHANGED slotVars
  BY <1>1 DEF SendMeetsWave, At, Goto, argVars, queueVars, slot, slotVars, Set, Grounds
<1>4. SlotTypes' /\ SlotMoves(t)
  BY <1>1, <1>3, QuietMoves DEF Types, Grounds
<1>5. QueueTypes'
  BY <1>1 DEF SendMeetsWave, queueVars, Types, QueueTypes, Grounds
<1>6. ThreadSound(t)'
  BY <1>1, <1>2, <1>3 DEF SendMeetsWave, slotVars, ThreadSound, Returns, MakerSound, SenderSound,
    OwnerSound, ReclaimerSound, ActivationSound, WaveSound, Making, Admitted, Pinning, Entering,
    Activating, InWave, Owning, Pushing, At, slot, gen, Keeps, Grounds
<1>7. RoleMoves(t)
  BY <1>1, <1>2, <1>3 DEF SendMeetsWave, slotVars, RoleMoves, Making, Pinning, Reserving, Pushing,
    At, slot, gen, Keeps, Grounds
<1>8. Carries(t)
  BY <1>1, <1>2, <1>3 DEF SendMeetsWave, Carries, Busy, Pushing, Activating, InWave, At, queueVars
<1>9. QED
  BY <1>2, <1>4, <1>5, <1>6, <1>7, <1>8 DEF Moves, Types, Registers

LEMMA ClaimNodeMoves ==
    ASSUME Inv, NEW t \in Threads, ClaimNode(t)
    PROVE  Moves(t) /\ Carries(t)
<1>1. Grounds(t)
  BY GroundsHold
<1>2. /\ Registers(t)
      /\ pc'[t] \in {"push", "release"}
      /\ Keeps(t)
      /\ ret'[t] = ret[t]
      /\ snap' = snap
  BY <1>1 DEF ClaimNode, Goto, Set, argVars, ThreadTypes, LocalTypes, Registers, Others, Keeps,
    Grounds
<1>3. /\ UNCHANGED <<life, gate, inbox, carry, waveOwner, state, payload, free>>
      /\ nodeState' \in [Nodes -> {"free", "queued", "processing"}]
  BY <1>1 DEF ClaimNode, At, Goto, Set, argVars, queueVars, Types, SlotTypes, QueueTypes,
    ThreadTypes, LocalTypes, Words, Returns, ThreadSound, Grounds
<1>4. SlotTypes' /\ SlotMoves(t)
  BY <1>1, <1>3 DEF Types, SlotTypes, SlotMoves, LifeMoves, Keep, GateMoves, InboxMoves, Works,
    OwnerMoves, StateMoves, FreeMoves, Grounds
<1>5. QueueTypes'
  BY <1>1 DEF ClaimNode, At, Goto, Set, argVars, queueVars, Types, QueueTypes, Grounds
<1>6. ThreadSound(t)'
  BY <1>1, <1>2, <1>3 DEF ClaimNode, slotVars, ThreadSound, Returns, MakerSound, SenderSound,
    OwnerSound, ReclaimerSound, ActivationSound, WaveSound, Making, Admitted, Pinning, Entering,
    Activating, InWave, Owning, Pushing, At, slot, gen, Keeps, Grounds
<1>7. RoleMoves(t)
  BY <1>1, <1>2, <1>3 DEF ClaimNode, slotVars, RoleMoves, Making, Pinning, Reserving, Pushing, At,
    slot, gen, Keeps, Grounds
<1>8. Carries(t)
  BY <1>1, <1>2, <1>3 DEF ClaimNode, Carries, Busy, Pushing, Activating, InWave, At, queueVars
<1>9. QED
  BY <1>2, <1>4, <1>5, <1>6, <1>7, <1>8 DEF Moves, Types, Registers

LEMMA PushInboxMoves ==
    ASSUME Inv, NEW t \in Threads, PushInbox(t)
    PROVE  Moves(t) /\ Carries(t)
<1>1. Grounds(t)
  BY GroundsHold
<1>2. /\ Registers(t)
      /\ pc'[t] = "signal"
      /\ ret'[t] = "release"
      /\ h'[t] = h[t]
      /\ snap' = snap
  BY <1>1, Forgets DEF PushInbox, At, Goto, Set, slot, Types, ThreadTypes, LocalTypes, Registers,
    Others, Keeps, OthersLocal, Grounds
<1>3. /\ UNCHANGED <<life, gate, carry, waveOwner, state, payload, free, nodeState>>
      /\ inbox' = [r \in Slots |-> IF r = slot(t) THEN <<node[t]>> \o inbox[r] ELSE inbox[r]]
  BY <1>1 DEF PushInbox, At, Goto, Set, queueVars, slot, SlotTypes, Types, Grounds
<1>4. inbox' \in [Slots -> Seq(Nodes)]
  BY ActorAssumption, <1>1, <1>3 DEF Types, SlotTypes, ThreadSound, Returns, PushInbox, At,
    Grounds
<1>5. SlotTypes'
  BY <1>1, <1>3, <1>4 DEF Types, SlotTypes, Grounds
<1>6. /\ \A r \in Slots : r # slot(t) => inbox'[r] = inbox[r]
      /\ inbox'[slot(t)] = <<node[t]>> \o inbox[slot(t)]
  BY <1>1, <1>3 DEF Grounds
<1>7. \A r \in Slots : LifeMoves(t, r)
  BY <1>3, <1>6 DEF LifeMoves, Keep
<1>8. Pushes(t, slot(t))
  BY <1>1, <1>2, <1>6 DEF Pushes, PushInbox, ThreadSound, At, slot, gen, Grounds
<1>9. \A r \in Slots : InboxMoves(t, r)
  BY <1>8, <1>3, <1>6 DEF InboxMoves
<1>10. \A r \in Slots :
         /\ GateMoves(t, r) /\ OwnerMoves(t, r)
         /\ StateMoves(t, r) /\ FreeMoves(t, r)
  BY <1>3, <1>6 DEF GateMoves, OwnerMoves, StateMoves, FreeMoves
<1>11. SlotMoves(t)
  BY <1>7, <1>10, <1>9 DEF SlotMoves
<1>12. QueueTypes'
  BY <1>1 DEF PushInbox, At, Goto, Set, queueVars, slot, Types, QueueTypes, Grounds
<1>13. ThreadSound(t)'
  BY <1>1, <1>2, <1>3 DEF PushInbox, ThreadSound, Returns, MakerSound, SenderSound, OwnerSound,
    ReclaimerSound, ActivationSound, WaveSound, Making, Admitted, Pinning, Entering, Activating,
    InWave, Owning, Pushing, At, slot, gen, Grounds
<1>14. RoleMoves(t)
  BY <1>1, <1>2, <1>3 DEF PushInbox, slotVars, RoleMoves, Making, Pinning, Reserving, Pushing, At,
    slot, gen, Keeps, Grounds
<1>15. Carries(t)
  BY <1>1, <1>2, <1>3 DEF PushInbox, Carries, Busy, Pushing, Activating, InWave, At, queueVars
<1>16. QED
  BY <1>2, <1>5, <1>11, <1>12, <1>13, <1>14, <1>15 DEF Moves, Types, Registers

LEMMA SignalMoves ==
    ASSUME Inv, NEW t \in Threads, Signal(t)
    PROVE  Moves(t) /\ Carries(t)
<1>1. Grounds(t)
  BY GroundsHold
<1>2. CASE ~Signals(t, At(t, "signal"))
  <2>1. /\ Registers(t)
        /\ pc'[t] = ret[t]
        /\ ret'[t] = ret[t]
        /\ ret[t] # "idle" => Keeps(t)
        /\ snap' = snap
    BY <1>2, <1>1, ResumeGoes DEF Signal, Set, argVars, Goto, ThreadTypes, LocalTypes, Registers,
      Others, Keeps, Grounds
  <2>2. UNCHANGED slotVars
    BY <1>2, <1>1 DEF Signal, slotVars, Grounds
  <2>3. SlotTypes' /\ SlotMoves(t)
    BY <1>2, <1>1, <2>2, QuietMoves DEF Types, Grounds
  <2>4. QueueTypes'
    BY <1>2, <1>1 DEF Signal, queueVars, Types, QueueTypes, Grounds
  <2>5. ThreadSound(t)'
    BY <1>1, <2>1, <2>2, ResumedSound DEF Signal, At, slotVars, Keeps, Grounds
  <2>6. RoleMoves(t)
    BY <1>2, <1>1, <2>1, <2>2 DEF Signal, slotVars, RoleMoves, ThreadSound, Returns, SenderSound,
      Making, Admitted, Pinning, Reserving, At, slot, Keeps, Signals, Grounds
  <2>7. Carries(t)
    BY <1>2, <1>1, <2>1, <2>2 DEF Signal, Carries, Busy, Pushing, Activating, InWave, At, slot,
      Keeps, queueVars, ThreadSound, Returns, Word, Scheduled, Grounds
  <2>8. QED
    BY <2>1, <2>3, <2>4, <2>5, <2>6, <2>7 DEF Moves, Types, Registers
<1>3. CASE Signals(t, At(t, "signal")) /\ Queues(life[slot(t)])
  <2>1. /\ Registers(t)
        /\ pc'[t] = "count"
        /\ Keeps(t)
        /\ ret'[t] = ret[t]
        /\ snap' = snap
    BY <1>3, <1>1 DEF Signal, PushReady, Set, argVars, Goto, ThreadTypes, LocalTypes, Registers,
      Others, Keeps, Grounds
  <2>2. /\ UNCHANGED <<gate, inbox, carry, waveOwner, state, payload, free, nodeState>>
        /\ life' = [r \in Slots |-> IF r = slot(t) THEN Scheduled(life[r]) ELSE life[r]]
    BY <1>3, <1>1 DEF Signal, At, Set, slot, SlotTypes, Types, Grounds
  <2>3. life' \in [Slots -> Words]
    BY <1>3, ActorAssumption, <1>1, <2>2 DEF Types, SlotTypes, Words, Word, Phases, Flags,
      Scheduled, retainedMask, Grounds
  <2>4. SlotTypes'
    BY <1>3, <1>1, <2>2, <2>3 DEF Types, SlotTypes, Grounds
  <2>5. /\ \A r \in Slots : r # slot(t) => life'[r] = life[r]
        /\ life'[slot(t)] = Scheduled(life[slot(t)])
    BY <1>3, <1>1, <2>2 DEF Grounds
  <2>6. Wakens(t, slot(t))
    BY <1>3, <1>1, <2>1, <2>5 DEF Wakens, Same, Step, Word, Signal, ThreadSound, At, slot, gen,
      Scheduled, retainedMask, Returns, Busy, Pushing, Reserving, Pinning, Signals, Queues,
      Active, Keeps, Grounds
  <2>7. \A r \in Slots : LifeMoves(t, r)
    BY <1>3, <2>6, <2>2, <2>5 DEF LifeMoves, Keep
  <2>8. \A r \in Slots :
          /\ GateMoves(t, r) /\ InboxMoves(t, r) /\ OwnerMoves(t, r)
          /\ StateMoves(t, r) /\ FreeMoves(t, r)
    BY <1>3, <2>2, <2>5 DEF GateMoves, InboxMoves, OwnerMoves, StateMoves, FreeMoves
  <2>9. SlotMoves(t)
    BY <1>3, <2>7, <2>8 DEF SlotMoves
  <2>10. QueueTypes'
    BY <1>3, <1>1 DEF Signal, queueVars, Types, QueueTypes, Grounds
  <2>11. ThreadSound(t)'
    <3>1. pc'[t] = "count" /\ Pushing(t)' /\ slot(t)' = slot(t) /\ gen(t)' = gen(t)
      BY <2>1 DEF Pushing, slot, gen, Keeps
    <3>2. /\ life[slot(t)].gen = gen(t) /\ life[slot(t)].phase = "idle"
          /\ ret[t] \in {"release", "unpin", "idle"} /\ snap[t] = <<>> /\ Len(snap[t]) <= MaxFlush
          /\ ret[t] = "unpin" => "op" \in life[slot(t)].flags
      BY <1>1, <1>3 DEF Signal, Signals, Queues, ThreadSound, Returns, OwnerSound, Pinning, At,
        Pushing, Grounds
    <3>3. /\ life'[slot(t)].gen = gen(t) /\ life'[slot(t)].phase = "scheduled"
          /\ ret[t] = "unpin" => "op" \in life'[slot(t)].flags
      BY <2>5, <3>2 DEF Scheduled, Word, retainedMask
    <3>4. Returns(t)'
      BY <2>1, <3>1, <3>2 DEF Returns, At, Pushing
    <3>5. SenderSound(t)'
      BY <3>1, <3>3 DEF SenderSound, Active
    <3>6. OwnerSound(t)'
      BY <2>1, <3>1, <3>3 DEF OwnerSound, Pinning, At
    <3>7. QED
      BY <2>1, <3>1, <3>2, <3>4, <3>5, <3>6 DEF ThreadSound, MakerSound, ReclaimerSound,
        ActivationSound, WaveSound, Making, Entering, Activating, InWave, Owning, At
  <2>12. RoleMoves(t)
    BY <1>3, <1>1, <2>1, <2>2 DEF Signal, Signals, Queues, Scheduled, Word, RoleMoves,
      ThreadSound, Returns, Making, Pinning, Reserving, Pushing, At, slot, Keeps, Grounds
  <2>13. Carries(t)
    BY <1>3, <1>1, <2>1, <2>2, <2>6 DEF Signal, Carries, Busy, Pushing, Activating, InWave, At,
      queueVars, Scheduled, Word, Wakens, Same, Step
  <2>14. QED
    BY <2>1, <2>4, <2>9, <2>10, <2>11, <2>12, <2>13 DEF Moves, Types, Registers
<1>4. CASE Signals(t, At(t, "signal")) /\ ~Queues(life[slot(t)])
  <2>1. life' = [life EXCEPT ![slot(t)]
            = Word(life[slot(t)].gen, life[slot(t)].phase, life[slot(t)].flags \cup {"pending"})]
    <3>1. life[slot(t)] \in Words
      BY <1>1 DEF Grounds
    <3>2. [life[slot(t)] EXCEPT !.flags = life[slot(t)].flags \cup {"pending"}]
              = Word(life[slot(t)].gen, life[slot(t)].phase, life[slot(t)].flags \cup {"pending"})
      BY <3>1, FieldSet
    <3>3. QED
      BY <1>4, <1>1, <3>2 DEF Signal, Grounds
  <2>2. /\ Registers(t)
        /\ pc'[t] = ret[t]
        /\ ret'[t] = ret[t]
        /\ ret[t] # "idle" => Keeps(t)
        /\ snap' = snap
    BY <1>4, <1>1, ResumeGoes DEF Signal, Set, argVars, Goto, ThreadTypes, LocalTypes, Registers,
      Others, Keeps, Grounds
  <2>3. /\ UNCHANGED <<gate, inbox, carry, waveOwner, state, payload, free, nodeState>>
        /\ life' = [r \in Slots |-> IF r = slot(t)
               THEN Word(life[r].gen, life[r].phase, life[r].flags \cup {"pending"}) ELSE life[r]]
    BY <1>4, <1>1, <2>1 DEF Signal, At, Set, slot, SlotTypes, Types, Grounds
  <2>4. life' \in [Slots -> Words]
    BY <1>4, ActorAssumption, <1>1, <2>3 DEF Types, SlotTypes, Words, Word, Phases, Flags,
      Scheduled, retainedMask, Grounds
  <2>5. SlotTypes'
    BY <1>4, <1>1, <2>3, <2>4 DEF Types, SlotTypes, Grounds
  <2>6. /\ \A r \in Slots : r # slot(t) => life'[r] = life[r]
        /\ life'[slot(t)]
               = Word(life[slot(t)].gen, life[slot(t)].phase, life[slot(t)].flags \cup {"pending"})
    BY <1>4, <1>1, <2>3 DEF Grounds
  <2>7. Marks(slot(t))
    BY <1>4, <1>1, <2>2, <2>6 DEF Marks, Same, Step, Word, Signal, ThreadSound, At, slot, gen,
      Signals, Queues, Grounds
  <2>8. \A r \in Slots : LifeMoves(t, r)
    BY <1>4, <2>7, <2>3, <2>6 DEF LifeMoves, Keep
  <2>9. \A r \in Slots :
          /\ GateMoves(t, r) /\ InboxMoves(t, r) /\ OwnerMoves(t, r)
          /\ StateMoves(t, r) /\ FreeMoves(t, r)
    BY <1>4, <2>3, <2>6 DEF GateMoves, InboxMoves, OwnerMoves, StateMoves, FreeMoves
  <2>10. SlotMoves(t)
    BY <1>4, <2>8, <2>9 DEF SlotMoves
  <2>11. QueueTypes'
    BY <1>4, <1>1 DEF Signal, queueVars, Types, QueueTypes, Grounds
  <2>12. ThreadSound(t)'
    <3>1. /\ life'[slot(t)].gen = life[slot(t)].gen /\ waveOwner'[slot(t)] = waveOwner[slot(t)]
          /\ "op" \in life[slot(t)].flags => "op" \in life'[slot(t)].flags
      BY <2>3, <2>6 DEF Word
    <3>2. pc[t] \in {"signal", "wake"}
      BY DEF Signal, At
    <3>3. QED
      BY <1>1, <2>2, <3>1, <3>2, ResumedSound DEF Keeps, Grounds
  <2>13. RoleMoves(t)
    <3>1. /\ life'[slot(t)].gen = life[slot(t)].gen /\ waveOwner'[slot(t)] = waveOwner[slot(t)]
          /\ "op" \in life[slot(t)].flags => "op" \in life'[slot(t)].flags
          /\ "pending" \in life'[slot(t)].flags
      BY <2>3, <2>6 DEF Word
    <3>2. pc[t] \in {"signal", "wake"}
      BY DEF Signal, At
    <3>3. QED
      BY <1>1, <2>2, <3>1, <3>2, ResumedSound DEF Keeps, RoleMoves, At, Grounds
  <2>14. Carries(t)
    <3>1. ~Busy(t) /\ ~Busy(t)' /\ ~Pushing(t)'
      BY <1>1, <2>2 DEF Signal, ThreadSound, Returns, Busy, Pushing, Activating, InWave, At,
        Grounds
    <3>2. UNCHANGED <<ready, readyCarry, farm, stale>>
      BY DEF Signal, queueVars
    <3>3. QED
      BY <2>2, <3>1, <3>2 DEF Carries
  <2>15. QED
    BY <2>2, <2>5, <2>10, <2>11, <2>12, <2>13, <2>14 DEF Moves, Types, Registers
<1>5. QED
  BY <1>2, <1>3, <1>4

LEMMA ReleaseSubmissionMoves ==
    ASSUME Inv, NEW t \in Threads, ReleaseSubmission(t)
    PROVE  Moves(t) /\ Carries(t)
<1>1. Grounds(t)
  BY GroundsHold
<1>2. /\ gate[slot(t)].count \in Nat /\ gate[slot(t)].count > 0
  BY <1>1 DEF ReleaseSubmission, Grounds
<1>3. gate' = [gate EXCEPT ![slot(t)]
          = [closed |-> gate[slot(t)].closed, count |-> gate[slot(t)].count - 1]]
  <2>1. [gate[slot(t)] EXCEPT !.count = gate[slot(t)].count - 1]
            = [closed |-> gate[slot(t)].closed, count |-> gate[slot(t)].count - 1]
    BY <1>1, FieldSet DEF Grounds
  <2>2. QED
    BY <1>1, <2>1 DEF ReleaseSubmission, Grounds
<1>4. /\ Registers(t)
      /\ pc'[t] = "idle"
      /\ ret'[t] = "idle"
      /\ snap' = snap
  BY <1>1, ReturnGoes DEF ReleaseSubmission, ThreadTypes, LocalTypes, Registers, Others, Keeps,
    Grounds
<1>5. /\ UNCHANGED <<life, inbox, carry, waveOwner, state, payload, free, nodeState>>
      /\ gate' = [r \in Slots |-> IF r = slot(t)
             THEN [closed |-> gate[r].closed, count |-> gate[r].count - 1] ELSE gate[r]]
  BY <1>1, <1>3 DEF ReleaseSubmission, At, queueVars, slot, SlotTypes, Types, Grounds
<1>6. gate' \in [Slots -> [closed : BOOLEAN, count : Nat]]
  BY <1>2, <1>1, <1>5 DEF Types, SlotTypes, Grounds
<1>7. SlotTypes'
  BY <1>1, <1>5, <1>6 DEF Types, SlotTypes, Grounds
<1>8. /\ \A r \in Slots : r # slot(t) => gate'[r] = gate[r]
      /\ gate'[slot(t)] = [closed |-> gate[slot(t)].closed, count |-> gate[slot(t)].count - 1]
  BY <1>1, <1>5 DEF Grounds
<1>9. \A r \in Slots : LifeMoves(t, r)
  BY <1>5, <1>8 DEF LifeMoves, Keep
<1>10. Releases(t, slot(t))
  BY <1>1, <1>4, <1>8 DEF Releases, ReleaseSubmission, ThreadSound, At, slot, gen, Grounds
<1>11. \A r \in Slots : GateMoves(t, r)
  BY <1>10, <1>5, <1>8 DEF GateMoves
<1>12. \A r \in Slots :
         /\ InboxMoves(t, r) /\ OwnerMoves(t, r)
         /\ StateMoves(t, r) /\ FreeMoves(t, r)
  BY <1>5, <1>8 DEF InboxMoves, OwnerMoves, StateMoves, FreeMoves
<1>13. SlotMoves(t)
  BY <1>9, <1>11, <1>12 DEF SlotMoves
<1>14. QueueTypes'
  BY <1>1 DEF ReleaseSubmission, At, queueVars, slot, Types, QueueTypes, Grounds
<1>15. ThreadSound(t)'
  BY <1>1, <1>4, IdleSound DEF ThreadSound, Returns, MakerSound, SenderSound, OwnerSound,
    ReclaimerSound, ActivationSound, WaveSound, ReleaseSubmission, At, Pushing, Starts, Grounds
<1>16. RoleMoves(t)
  BY <1>1, <1>4, <1>5 DEF ReleaseSubmission, slotVars, RoleMoves, Making, Pinning, Reserving,
    Pushing, At, slot, gen, Keeps, Grounds
<1>17. Carries(t)
  BY <1>1, <1>4, <1>5 DEF ReleaseSubmission, Carries, Busy, Pushing, Activating, InWave, At,
    queueVars
<1>18. QED
  BY <1>4, <1>7, <1>13, <1>14, <1>15, <1>16, <1>17 DEF Moves, Types, Registers

-----------------------------------------------------------------------------
(* wakeActor.                                                              *)

LEMMA WakeMoves ==
    ASSUME Inv, NEW t \in Threads, Wake(t)
    PROVE  Moves(t) /\ Carries(t)
<1>1. Grounds(t)
  BY GroundsHold
<1>2. /\ Registers(t) /\ slot(t)' \in Slots /\ pc[t] = "idle"
      /\ pc'[t] = "wakeWave"
      /\ ret'[t] = ret[t]
      /\ snap' = snap
  <2>1. PICK s \in Slots :
        /\ life[s].phase \in Active
        /\ Open(t, s, "wakeWave")
    BY <1>1 DEF Wake, Types, SlotTypes, Grounds
  <2>2. /\ DOMAIN pc' = Threads /\ h' \in [Threads -> [slot : Slots, gen : 0 .. MaxGen]]
        /\ pc'[t] = "wakeWave" /\ slot(t)' = s /\ gen(t)' = life[s].gen
        /\ \A u \in Threads \ {t} : pc'[u] = pc[u] /\ h'[u] = h[u]
    BY <1>1, <2>1, OpenGoes DEF Types, Grounds
  <2>3. pc[t] = "idle" /\ UNCHANGED <<ret, seen, quiet, node, mode, local, again, snap>>
    BY DEF Wake, Starts, argVars
  <2>4. ThreadTypes'
    BY <1>1, <2>1, <2>2, <2>3 DEF Types, SlotTypes, Words, ThreadTypes, LocalTypes, Set, Grounds
  <2>5. Others(t)
    BY <1>1, <2>1, <2>2, <2>3 DEF ThreadTypes, LocalTypes, Others, Set, Grounds
  <2>6. QED
    BY <1>1, <2>1, <2>2, <2>3, <2>4, <2>5 DEF ThreadTypes, LocalTypes, Registers, Set, Grounds
<1>3. UNCHANGED slotVars
  BY <1>1 DEF Wake, slotVars, Grounds
<1>4. SlotTypes' /\ SlotMoves(t)
  BY <1>1, <1>3, QuietMoves DEF Types, Grounds
<1>5. QueueTypes'
  BY <1>1 DEF Wake, queueVars, Types, QueueTypes, Grounds
<1>6. SlotSound(slot(t)') /\ life[slot(t)'] \in Words
  BY <1>1, <1>2 DEF Inv, Types, SlotTypes, Grounds
<1>7. ThreadSound(t)'
  BY <1>6, <1>1, <1>2, <1>3 DEF Wake, ThreadSound, Returns, MakerSound, SenderSound, OwnerSound,
    ReclaimerSound, ActivationSound, WaveSound, Making, Admitted, Pinning, Entering, Activating,
    InWave, Owning, Pushing, At, slot, gen, Grounds
<1>8. RoleMoves(t)
  BY <1>1, <1>2, <1>3 DEF slotVars, RoleMoves, Making, Pinning, Reserving, Pushing, At, slot, gen,
    Keeps, Grounds
<1>9. Carries(t)
  BY <1>1, <1>2, <1>3 DEF Wake, Carries, Busy, Pushing, Activating, InWave, At, queueVars
<1>10. QED
  BY <1>2, <1>4, <1>5, <1>7, <1>8, <1>9 DEF Moves, Types, Registers

LEMMA WakeMeetsWaveMoves ==
    ASSUME Inv, NEW t \in Threads, WakeMeetsWave(t)
    PROVE  Moves(t) /\ Carries(t)
<1>1. Grounds(t)
  BY GroundsHold
<1>2. CASE waveOwner[slot(t)] = None
  <2>1. /\ Registers(t)
        /\ pc'[t] = "wake"
        /\ Keeps(t)
        /\ ret'[t] = ret[t]
        /\ snap' = snap
    BY <1>2, <1>1 DEF WakeMeetsWave, Goto, argVars, Set, ThreadTypes, LocalTypes, Registers,
      Others, Keeps, Grounds
  <2>2. UNCHANGED slotVars
    BY <1>2, <1>1 DEF WakeMeetsWave, slotVars, Grounds
  <2>3. SlotTypes' /\ SlotMoves(t)
    BY <1>2, <1>1, <2>2, QuietMoves DEF Types, Grounds
  <2>4. QueueTypes'
    BY <1>2, <1>1 DEF WakeMeetsWave, queueVars, Types, QueueTypes, Grounds
  <2>5. ThreadSound(t)'
    BY <1>2, <1>1, <2>1, <2>2 DEF WakeMeetsWave, ThreadSound, Returns, MakerSound, SenderSound,
      OwnerSound, ReclaimerSound, ActivationSound, WaveSound, Making, Admitted, Pinning, Entering,
      Activating, InWave, Owning, Pushing, At, slot, gen, Grounds
  <2>6. RoleMoves(t)
    BY <1>2, <1>1, <2>1, <2>2 DEF WakeMeetsWave, slotVars, RoleMoves, Making, Pinning, Reserving,
      Pushing, At, slot, gen, Keeps, Grounds
  <2>7. Carries(t)
    BY <1>2, <1>1, <2>1, <2>2 DEF WakeMeetsWave, Carries, Busy, Pushing, Activating, InWave, At,
      queueVars
  <2>8. QED
    BY <2>1, <2>3, <2>4, <2>5, <2>6, <2>7 DEF Moves, Types, Registers
<1>3. CASE waveOwner[slot(t)] # None
  <2>1. /\ Registers(t)
        /\ pc'[t] = "idle"
        /\ ret'[t] = "idle"
        /\ snap' = snap
    BY <1>3, <1>1, ReturnGoes DEF WakeMeetsWave, Goto, argVars, Set, ThreadTypes, LocalTypes,
      Registers, Others, Keeps, Grounds
  <2>2. UNCHANGED slotVars
    BY <1>3, <1>1 DEF WakeMeetsWave, At, Goto, argVars, queueVars, slot, slotVars, Set, Grounds
  <2>3. SlotTypes' /\ SlotMoves(t)
    BY <1>3, <1>1, <2>2, QuietMoves DEF Types, Grounds
  <2>4. QueueTypes'
    BY <1>3, <1>1 DEF WakeMeetsWave, queueVars, Types, QueueTypes, Grounds
  <2>5. ThreadSound(t)'
    BY <1>3, <1>1, <2>1, IdleSound DEF ThreadSound, Returns, MakerSound, SenderSound, OwnerSound,
      ReclaimerSound, ActivationSound, WaveSound, WakeMeetsWave, At, Pushing, Starts, Grounds
  <2>6. RoleMoves(t)
    BY <1>3, <1>1, <2>1, <2>2 DEF WakeMeetsWave, slotVars, RoleMoves, Making, Pinning, Reserving,
      Pushing, At, slot, gen, Keeps, Grounds
  <2>7. Carries(t)
    BY <1>3, <1>1, <2>1, <2>2 DEF WakeMeetsWave, Carries, Busy, Pushing, Activating, InWave, At,
      queueVars
  <2>8. QED
    BY <2>1, <2>3, <2>4, <2>5, <2>6, <2>7 DEF Moves, Types, Registers
<1>4. QED
  BY <1>2, <1>3

-----------------------------------------------------------------------------
(* requestActorRetire, driveActorRetirement.                               *)

LEMMA RetireMoves ==
    ASSUME Inv, NEW t \in Threads, Retire(t)
    PROVE  Moves(t) /\ Carries(t)
<1>1. Grounds(t)
  BY GroundsHold
<1>2. /\ Registers(t) /\ slot(t)' \in Slots /\ pc[t] = "idle"
      /\ pc'[t] = "retireWave"
      /\ seen'[t] = life[slot(t)']
      /\ gen(t)' = life[slot(t)'].gen
      /\ RetireOpens(life[slot(t)'])
      /\ mode'[t] \in {{"retire"}, retireModeMask}
      /\ snap' = snap
  <2>1. PICK s \in Slots :
        /\ RetireOpens(life[s])
        /\ Open(t, s, "retireWave")
        /\ \E m \in {{"retire"}, retireModeMask} : mode' = Set(mode, t, m)
        /\ seen' = Set(seen, t, life[s])
    BY <1>1 DEF Retire, Types, SlotTypes, Grounds
  <2>2. /\ DOMAIN pc' = Threads /\ h' \in [Threads -> [slot : Slots, gen : 0 .. MaxGen]]
        /\ pc'[t] = "retireWave" /\ slot(t)' = s /\ gen(t)' = life[s].gen
        /\ \A u \in Threads \ {t} : pc'[u] = pc[u] /\ h'[u] = h[u]
    BY <1>1, <2>1, OpenGoes DEF Types, Grounds
  <2>3. pc[t] = "idle" /\ UNCHANGED <<ret, quiet, node, local, again, snap>>
    BY DEF Retire, Starts, argVars
  <2>4. mode' \in [Threads -> SUBSET Flags]
    <3>1. PICK m \in {{"retire"}, retireModeMask} : mode' = Set(mode, t, m)
      BY <2>1
    <3>2. m \in SUBSET Flags
      BY DEF retireModeMask, Flags
    <3>3. QED
      BY <1>1, <3>1, <3>2 DEF ThreadTypes, LocalTypes, Set, Grounds
  <2>5. seen' \in [Threads -> Words]
    BY <1>1, <2>1 DEF ThreadTypes, LocalTypes, Set, Types, SlotTypes, Grounds
  <2>6. ThreadTypes'
    BY <1>1, <2>4, <2>5, <2>2, <2>3 DEF Types, SlotTypes, Words, ThreadTypes, LocalTypes, Set,
      retireModeMask, Flags, Grounds
  <2>7. Others(t)
    BY <1>1, <2>1, <2>2, <2>3 DEF ThreadTypes, LocalTypes, Others, Set, Grounds
  <2>8. QED
    BY <1>1, <2>1, <2>2, <2>3, <2>6, <2>7 DEF ThreadTypes, LocalTypes, Registers, Set, Grounds
<1>3. UNCHANGED slotVars
  BY <1>1 DEF Retire, slotVars, Grounds
<1>4. SlotTypes' /\ SlotMoves(t)
  BY <1>1, <1>3, QuietMoves DEF Types, Grounds
<1>5. QueueTypes'
  BY <1>1 DEF Retire, queueVars, Types, QueueTypes, Grounds
<1>6. SlotSound(slot(t)') /\ life[slot(t)'] \in Words
  BY <1>1, <1>2 DEF Inv, Types, SlotTypes, Grounds
<1>7. ThreadSound(t)'
  BY <1>6, <1>1, <1>2, <1>3 DEF Retire, ThreadSound, Returns, MakerSound, SenderSound, OwnerSound,
    ReclaimerSound, ActivationSound, WaveSound, Making, Admitted, Pinning, Entering, Activating,
    InWave, Owning, Pushing, At, slot, gen, Grounds
<1>8. RoleMoves(t)
  BY <1>1, <1>2, <1>3 DEF slotVars, RoleMoves, Making, Pinning, Reserving, Pushing, At, slot, gen,
    Keeps, Grounds
<1>9. Carries(t)
  BY <1>1, <1>2, <1>3 DEF Retire, Carries, Busy, Pushing, Activating, InWave, At, queueVars
<1>10. QED
  BY <1>2, <1>4, <1>5, <1>7, <1>8, <1>9 DEF Moves, Types, Registers

LEMMA RetireMeetsWaveMoves ==
    ASSUME Inv, NEW t \in Threads, RetireMeetsWave(t)
    PROVE  Moves(t) /\ Carries(t)
<1>1. Grounds(t)
  BY GroundsHold
<1>2. CASE ~(waveOwner[slot(t)] # None \/ mode[t] \subseteq seen[t].flags)
  <2>1. /\ Registers(t)
        /\ pc'[t] = "pin"
        /\ Keeps(t)
        /\ ret'[t] = ret[t]
        /\ snap' = snap
    BY <1>2, <1>1 DEF RetireMeetsWave, Goto, argVars, Set, ThreadTypes, LocalTypes, Registers,
      Others, Keeps, Grounds
  <2>2. UNCHANGED slotVars
    BY <1>2, <1>1 DEF RetireMeetsWave, slotVars, Grounds
  <2>3. SlotTypes' /\ SlotMoves(t)
    BY <1>2, <1>1, <2>2, QuietMoves DEF Types, Grounds
  <2>4. QueueTypes'
    BY <1>2, <1>1 DEF RetireMeetsWave, queueVars, Types, QueueTypes, Grounds
  <2>5. ThreadSound(t)'
    BY <1>2, <1>1, <2>1, <2>2 DEF RetireMeetsWave, ThreadSound, Returns, MakerSound, SenderSound,
      OwnerSound, ReclaimerSound, ActivationSound, WaveSound, Making, Admitted, Pinning, Entering,
      Activating, InWave, Owning, Pushing, At, gen, Keeps, Grounds
  <2>6. RoleMoves(t)
    BY <1>2, <1>1, <2>1, <2>2 DEF RetireMeetsWave, slotVars, RoleMoves, Making, Pinning,
      Reserving, Pushing, At, slot, gen, Keeps, Grounds
  <2>7. Carries(t)
    BY <1>2, <1>1, <2>1, <2>2 DEF RetireMeetsWave, Carries, Busy, Pushing, Activating, InWave, At,
      queueVars
  <2>8. QED
    BY <2>1, <2>3, <2>4, <2>5, <2>6, <2>7 DEF Moves, Types, Registers
<1>3. CASE waveOwner[slot(t)] # None \/ mode[t] \subseteq seen[t].flags
  <2>1. /\ Registers(t)
        /\ pc'[t] = "idle"
        /\ ret'[t] = "idle"
        /\ snap' = snap
    BY <1>3, <1>1, ReturnGoes DEF RetireMeetsWave, Goto, argVars, Set, ThreadTypes, LocalTypes,
      Registers, Others, Keeps, Grounds
  <2>2. UNCHANGED slotVars
    BY <1>3, <1>1 DEF RetireMeetsWave, At, Goto, argVars, queueVars, slot, slotVars, Set, Grounds
  <2>3. SlotTypes' /\ SlotMoves(t)
    BY <1>3, <1>1, <2>2, QuietMoves DEF Types, Grounds
  <2>4. QueueTypes'
    BY <1>3, <1>1 DEF RetireMeetsWave, queueVars, Types, QueueTypes, Grounds
  <2>5. ThreadSound(t)'
    BY <1>3, <1>1, <2>1, IdleSound DEF ThreadSound, Returns, MakerSound, SenderSound, OwnerSound,
      ReclaimerSound, ActivationSound, WaveSound, RetireMeetsWave, At, Pushing, Starts, Grounds
  <2>6. RoleMoves(t)
    BY <1>3, <1>1, <2>1, <2>2 DEF RetireMeetsWave, slotVars, RoleMoves, Making, Pinning,
      Reserving, Pushing, At, slot, gen, Keeps, Grounds
  <2>7. Carries(t)
    BY <1>3, <1>1, <2>1, <2>2 DEF RetireMeetsWave, Carries, Busy, Pushing, Activating, InWave, At,
      queueVars
  <2>8. QED
    BY <2>1, <2>3, <2>4, <2>5, <2>6, <2>7 DEF Moves, Types, Registers
<1>4. QED
  BY <1>2, <1>3

LEMMA PinRetireMoves ==
    ASSUME Inv, NEW t \in Threads, PinRetire(t)
    PROVE  Moves(t) /\ Carries(t)
<1>1. Grounds(t)
  BY GroundsHold
<1>2. CASE life[slot(t)] = seen[t]
  <2>1. life' = [life EXCEPT ![slot(t)]
            = Word(life[slot(t)].gen, life[slot(t)].phase,
                   life[slot(t)].flags \cup mode[t] \cup {"op"})]
    <3>1. life[slot(t)] \in Words
      BY <1>1 DEF Grounds
    <3>2. [life[slot(t)] EXCEPT !.flags = life[slot(t)].flags \cup mode[t] \cup {"op"}]
              = Word(life[slot(t)].gen, life[slot(t)].phase,
                     life[slot(t)].flags \cup mode[t] \cup {"op"})
      BY <3>1, FieldSet
    <3>3. QED
      BY <1>2, <1>1, <3>2 DEF PinRetire, Grounds
  <2>2. /\ Registers(t)
        /\ pc'[t] = "close"
        /\ ret'[t] = "drive"
        /\ h'[t] = h[t]
        /\ snap' = snap
    BY <1>2, <1>1, Forgets DEF PinRetire, At, Goto, Set, argVars, gen, slot, Types, ThreadTypes,
      LocalTypes, Registers, Others, Keeps, OthersLocal, Grounds
  <2>3. /\ UNCHANGED <<gate, inbox, carry, waveOwner, state, payload, free, nodeState>>
        /\ life' = [r \in Slots |-> IF r = slot(t)
               THEN Word(life[r].gen, life[r].phase, life[r].flags \cup mode[t] \cup {"op"})
               ELSE life[r]]
    BY <1>2, <1>1, <2>1 DEF PinRetire, At, Set, slot, SlotTypes, Types, Grounds
  <2>4. life' \in [Slots -> Words]
    BY <1>2, ActorAssumption, <1>1, <2>3 DEF Types, SlotTypes, Words, Word, Phases, Flags,
      ThreadTypes, LocalTypes, Grounds
  <2>5. SlotTypes'
    BY <1>2, <1>1, <2>3, <2>4 DEF Types, SlotTypes, Grounds
  <2>6. /\ \A r \in Slots : r # slot(t) => life'[r] = life[r]
        /\ life'[slot(t)]
               = Word(life[slot(t)].gen, life[slot(t)].phase,
                     life[slot(t)].flags \cup mode[t] \cup {"op"})
    BY <1>2, <1>1, <2>3 DEF Grounds
  <2>7. Marks(slot(t))
    BY <1>2, <1>1, <2>2, <2>6 DEF Marks, Same, Step, Word, PinRetire, ThreadSound, At, slot, gen,
      OwnerSound, RetireOpens, SlotSound, retireModeMask, Grounds
  <2>8. \A r \in Slots : LifeMoves(t, r)
    BY <1>2, <2>7, <2>3, <2>6 DEF LifeMoves, Keep
  <2>9. \A r \in Slots :
          /\ GateMoves(t, r) /\ InboxMoves(t, r) /\ OwnerMoves(t, r)
          /\ StateMoves(t, r) /\ FreeMoves(t, r)
    BY <1>2, <2>3, <2>6 DEF GateMoves, InboxMoves, OwnerMoves, StateMoves, FreeMoves
  <2>10. SlotMoves(t)
    BY <1>2, <2>8, <2>9 DEF SlotMoves
  <2>11. QueueTypes'
    BY <1>2, <1>1 DEF PinRetire, queueVars, Types, QueueTypes, Grounds
  <2>12. ThreadSound(t)'
    BY <1>2, <1>1, <2>2, <2>3 DEF PinRetire, slotVars, SlotSound, ThreadSound, Returns,
      MakerSound, SenderSound, OwnerSound, ReclaimerSound, ActivationSound, WaveSound, Making,
      Admitted, Pinning, Reserving, Entering, Activating, InWave, Owning, Pushing, Busy, At,
      slot, gen, Joined, Drained, Awaited, Heard, Untouched, RetireOpens, Reclaimable, HasInbox,
      Active, Word, retireModeMask, retainedMask, Keeps, Others, Registers, Confirms, Unmoved,
      Types, SlotTypes, QueueTypes, ThreadTypes, LocalTypes, Words, Starts, Scheduled, Signals,
      Queues, Grounds
  <2>13. RoleMoves(t)
    BY <1>2, <1>1, <2>2, <2>3 DEF PinRetire, slotVars, RoleMoves, ThreadSound, OwnerSound, Making,
      Reserving, Pushing, At, slot, RetireOpens, Keeps, Grounds
  <2>14. Carries(t)
    BY <1>2, <1>1, <2>2, <2>3 DEF PinRetire, Carries, Busy, Pushing, Activating, InWave, At,
      queueVars
  <2>15. QED
    BY <2>2, <2>5, <2>10, <2>11, <2>12, <2>13, <2>14 DEF Moves, Types, Registers
<1>3. CASE life[slot(t)] # seen[t] /\ life[slot(t)].gen = gen(t) /\ RetireOpens(life[slot(t)])
  <2>1. /\ Registers(t)
        /\ pc'[t] = "retireWave"
        /\ h'[t] = h[t]
        /\ mode'[t] = mode[t]
        /\ seen'[t] = life[slot(t)]
        /\ snap' = snap
    BY <1>3, <1>1 DEF PinRetire, Goto, Set, argVars, ThreadTypes, LocalTypes, Registers, Others,
      Keeps, Grounds
  <2>2. UNCHANGED slotVars
    BY <1>3, <1>1 DEF PinRetire, slotVars, Grounds
  <2>3. SlotTypes' /\ SlotMoves(t)
    BY <1>3, <1>1, <2>2, QuietMoves DEF Types, Grounds
  <2>4. QueueTypes'
    BY <1>3, <1>1 DEF PinRetire, queueVars, Types, QueueTypes, Grounds
  <2>5. ThreadSound(t)'
    BY <1>3, <1>1, <2>1, <2>2 DEF PinRetire, ThreadSound, Returns, MakerSound, SenderSound,
      OwnerSound, ReclaimerSound, ActivationSound, WaveSound, Making, Admitted, Pinning, Entering,
      Activating, InWave, Owning, Pushing, At, slot, gen, Grounds
  <2>6. RoleMoves(t)
    BY <1>3, <1>1, <2>1, <2>2 DEF PinRetire, slotVars, RoleMoves, Making, Pinning, Reserving,
      Pushing, At, slot, gen, Keeps, Grounds
  <2>7. Carries(t)
    BY <1>3, <1>1, <2>1, <2>2 DEF PinRetire, Carries, Busy, Pushing, Activating, InWave, At,
      queueVars
  <2>8. QED
    BY <2>1, <2>3, <2>4, <2>5, <2>6, <2>7 DEF Moves, Types, Registers
<1>4. CASE life[slot(t)] # seen[t] /\ ~(life[slot(t)].gen = gen(t) /\ RetireOpens(life[slot(t)]))
  <2>1. /\ Registers(t)
        /\ pc'[t] = "idle"
        /\ ret'[t] = "idle"
        /\ snap' = snap
    BY <1>4, <1>1, ReturnGoes DEF PinRetire, Goto, Set, argVars, ThreadTypes, LocalTypes,
      Registers, Others, Keeps, Grounds
  <2>2. UNCHANGED slotVars
    BY <1>4, <1>1 DEF PinRetire, slotVars, Grounds
  <2>3. SlotTypes' /\ SlotMoves(t)
    BY <1>4, <1>1, <2>2, QuietMoves DEF Types, Grounds
  <2>4. QueueTypes'
    BY <1>4, <1>1 DEF PinRetire, queueVars, Types, QueueTypes, Grounds
  <2>5. ThreadSound(t)'
    BY <1>4, <1>1, <2>1, IdleSound DEF ThreadSound, Returns, MakerSound, SenderSound, OwnerSound,
      ReclaimerSound, ActivationSound, WaveSound, PinRetire, At, Pushing, Starts, Grounds
  <2>6. RoleMoves(t)
    BY <1>4, <1>1, <2>1, <2>2 DEF PinRetire, slotVars, RoleMoves, Making, Pinning, Reserving,
      Pushing, At, slot, gen, Keeps, Grounds
  <2>7. Carries(t)
    BY <1>4, <1>1, <2>1, <2>2 DEF PinRetire, Carries, Busy, Pushing, Activating, InWave, At,
      queueVars
  <2>8. QED
    BY <2>1, <2>3, <2>4, <2>5, <2>6, <2>7 DEF Moves, Types, Registers
<1>5. QED
  BY <1>2, <1>3, <1>4

LEMMA CloseGateMoves ==
    ASSUME Inv, NEW t \in Threads, CloseGate(t)
    PROVE  Moves(t) /\ Carries(t)
<1>1. Grounds(t)
  BY GroundsHold
<1>2. gate' = [gate EXCEPT ![slot(t)] = [closed |-> TRUE, count |-> gate[slot(t)].count]]
  <2>1. [gate[slot(t)] EXCEPT !.closed = TRUE] = [closed |-> TRUE, count |-> gate[slot(t)].count]
    BY <1>1, FieldSet DEF Grounds
  <2>2. QED
    BY <1>1, <2>1 DEF CloseGate, Grounds
<1>3. /\ Registers(t)
      /\ pc'[t] = ret[t]
      /\ ret[t] # "idle" => Keeps(t)
      /\ ret'[t] = ret[t]
      /\ snap' = snap
  BY <1>1, ResumeGoes DEF CloseGate, ThreadTypes, LocalTypes, Registers, Others, Keeps, Grounds
<1>4. /\ UNCHANGED <<life, inbox, carry, waveOwner, state, payload, free, nodeState>>
      /\ gate' = [r \in Slots |-> IF r = slot(t)
             THEN [closed |-> TRUE, count |-> gate[r].count] ELSE gate[r]]
  BY <1>1, <1>2 DEF CloseGate, At, queueVars, slot, SlotTypes, Types, Grounds
<1>5. gate' \in [Slots -> [closed : BOOLEAN, count : Nat]]
  BY ActorAssumption, <1>1, <1>4 DEF Types, SlotTypes, Grounds
<1>6. SlotTypes'
  BY <1>1, <1>4, <1>5 DEF Types, SlotTypes, Grounds
<1>7. /\ \A r \in Slots : r # slot(t) => gate'[r] = gate[r]
      /\ gate'[slot(t)] = [closed |-> TRUE, count |-> gate[slot(t)].count]
  BY <1>1, <1>4 DEF Grounds
<1>8. \A r \in Slots : LifeMoves(t, r)
  BY <1>4, <1>7 DEF LifeMoves, Keep
<1>9. Closes(slot(t))
  BY <1>1, <1>3, <1>7 DEF Closes, CloseGate, ThreadSound, At, slot, gen, Grounds
<1>10. \A r \in Slots : GateMoves(t, r)
  BY <1>9, <1>4, <1>7 DEF GateMoves
<1>11. \A r \in Slots :
         /\ InboxMoves(t, r) /\ OwnerMoves(t, r)
         /\ StateMoves(t, r) /\ FreeMoves(t, r)
  BY <1>4, <1>7 DEF InboxMoves, OwnerMoves, StateMoves, FreeMoves
<1>12. SlotMoves(t)
  BY <1>8, <1>10, <1>11 DEF SlotMoves
<1>13. QueueTypes'
  BY <1>1 DEF CloseGate, At, queueVars, slot, Types, QueueTypes, Grounds
<1>14. ThreadSound(t)'
  BY <1>1, <1>3, <1>4 DEF CloseGate, slotVars, SlotSound, ThreadSound, Returns, MakerSound,
    SenderSound, OwnerSound, ReclaimerSound, ActivationSound, WaveSound, Making, Admitted,
    Pinning, Reserving, Entering, Activating, InWave, Owning, Pushing, Busy, At, slot, gen,
    Joined, Drained, Awaited, Heard, Untouched, RetireOpens, Reclaimable, HasInbox, Active,
    Word, retireModeMask, retainedMask, Keeps, Others, Registers, Confirms, Unmoved, Types,
    SlotTypes, QueueTypes, ThreadTypes, LocalTypes, Words, Starts, Scheduled, Signals, Queues,
    Grounds
<1>15. RoleMoves(t)
  BY <1>1, <1>3, <1>4 DEF CloseGate, slotVars, RoleMoves, ThreadSound, Returns, Making, Pinning,
    Reserving, At, slot, Keeps, Grounds
<1>16. Carries(t)
  BY <1>1, <1>3, <1>4 DEF CloseGate, Carries, Busy, Pushing, Activating, InWave, At, slot, Keeps,
    queueVars, ThreadSound, Returns, Word, Scheduled, Grounds
<1>17. QED
  BY <1>3, <1>6, <1>12, <1>13, <1>14, <1>15, <1>16 DEF Moves, Types, Registers

LEMMA DriveMoves ==
    ASSUME Inv, NEW t \in Threads, Drive(t)
    PROVE  Moves(t) /\ Carries(t)
<1>1. Grounds(t)
  BY GroundsHold
<1>2. /\ Registers(t)
      /\ h'[t] = h[t]
      /\ \/ pc'[t] = "unpin"
         \/ pc'[t] = "signal" /\ ret'[t] = "unpin"
         \/ /\ pc'[t] = "driveGate" /\ seen'[t].gen = gen(t)
            /\ seen'[t].phase = "idle" /\ "retire" \in seen'[t].flags
      /\ snap' = snap
  <2>1. DriveOn(t, life[slot(t)])
    BY DEF Drive
  <2>2. ThreadTypes /\ life[slot(t)] \in Words
    BY <1>1 DEF Grounds
  <2>3. /\ Registers(t) /\ snap' = snap /\ h'[t] = h[t]
        /\ \/ pc'[t] = "unpin"
           \/ pc'[t] = "signal" /\ ret'[t] = "unpin"
           \/ /\ pc'[t] = "driveGate" /\ seen'[t] = life[slot(t)]
              /\ life[slot(t)].gen = gen(t) /\ life[slot(t)].phase
                     = "idle" /\ "retire" \in life[slot(t)].flags
    BY <2>1, <2>2, DriveOnGoes
  <2>4. QED
    BY <2>3
<1>3. UNCHANGED slotVars
  BY <1>1 DEF Drive, At, queueVars, slot, slotVars, Grounds
<1>4. SlotTypes' /\ SlotMoves(t)
  BY <1>1, <1>3, QuietMoves DEF Types, Grounds
<1>5. QueueTypes'
  BY <1>1 DEF Drive, At, queueVars, slot, slotVars, Types, QueueTypes, Grounds
<1>6. ThreadSound(t)'
  BY <1>1, <1>2, <1>3 DEF Drive, slotVars, ThreadSound, Returns, MakerSound, SenderSound,
    OwnerSound, ReclaimerSound, ActivationSound, WaveSound, Making, Admitted, Pinning, Entering,
    Activating, InWave, Owning, Pushing, At, slot, gen, Keeps, Signals, Grounds
<1>7. RoleMoves(t)
  BY <1>1, <1>2, <1>3 DEF Drive, slotVars, RoleMoves, Making, Pinning, Reserving, Pushing, At,
    slot, gen, Keeps, Grounds
<1>8. Carries(t)
  BY <1>1, <1>2, <1>3 DEF Drive, Carries, Busy, Pushing, Activating, InWave, At, queueVars
<1>9. QED
  BY <1>2, <1>4, <1>5, <1>6, <1>7, <1>8 DEF Moves, Types, Registers

LEMMA DriveGateMoves ==
    ASSUME Inv, NEW t \in Threads, DriveGate(t)
    PROVE  Moves(t) /\ Carries(t)
<1>1. Grounds(t)
  BY GroundsHold
<1>2. CASE Joined(gate[slot(t)])
  <2>1. /\ Registers(t)
        /\ pc'[t] = "driveJoin"
        /\ Keeps(t)
        /\ ret'[t] = ret[t]
        /\ snap' = snap
    BY <1>2, <1>1 DEF DriveGate, Goto, argVars, Set, ThreadTypes, LocalTypes, Registers, Others,
      Keeps, Grounds
  <2>2. UNCHANGED slotVars
    BY <1>2, <1>1 DEF DriveGate, At, Goto, argVars, queueVars, slot, slotVars, Set, Grounds
  <2>3. SlotTypes' /\ SlotMoves(t)
    BY <1>2, <1>1, <2>2, QuietMoves DEF Types, Grounds
  <2>4. QueueTypes'
    BY <1>2, <1>1 DEF DriveGate, queueVars, Types, QueueTypes, Grounds
  <2>5. ThreadSound(t)'
    BY <1>2, <1>1, <2>1, <2>2 DEF DriveGate, slotVars, ThreadSound, Returns, MakerSound,
      SenderSound, OwnerSound, ReclaimerSound, ActivationSound, WaveSound, Making, Admitted,
      Pinning, Entering, Activating, InWave, Owning, Pushing, At, slot, gen, Keeps, Grounds
  <2>6. RoleMoves(t)
    BY <1>2, <1>1, <2>1, <2>2 DEF DriveGate, slotVars, RoleMoves, Making, Pinning, Reserving,
      Pushing, At, slot, gen, Keeps, Grounds
  <2>7. Carries(t)
    BY <1>2, <1>1, <2>1, <2>2 DEF DriveGate, Carries, Busy, Pushing, Activating, InWave, At,
      queueVars
  <2>8. QED
    BY <2>1, <2>3, <2>4, <2>5, <2>6, <2>7 DEF Moves, Types, Registers
<1>3. CASE ~Joined(gate[slot(t)])
  <2>1. /\ Registers(t)
        /\ pc'[t] = "driveQueue"
        /\ Keeps(t)
        /\ ret'[t] = ret[t]
        /\ snap' = snap
    BY <1>3, <1>1 DEF DriveGate, Goto, argVars, Set, ThreadTypes, LocalTypes, Registers, Others,
      Keeps, Grounds
  <2>2. UNCHANGED slotVars
    BY <1>3, <1>1 DEF DriveGate, At, Goto, argVars, queueVars, slot, slotVars, Set, Grounds
  <2>3. SlotTypes' /\ SlotMoves(t)
    BY <1>3, <1>1, <2>2, QuietMoves DEF Types, Grounds
  <2>4. QueueTypes'
    BY <1>3, <1>1 DEF DriveGate, queueVars, Types, QueueTypes, Grounds
  <2>5. ThreadSound(t)'
    BY <1>3, <1>1, <2>1, <2>2 DEF DriveGate, slotVars, ThreadSound, Returns, MakerSound,
      SenderSound, OwnerSound, ReclaimerSound, ActivationSound, WaveSound, Making, Admitted,
      Pinning, Entering, Activating, InWave, Owning, Pushing, At, slot, gen, Keeps, Grounds
  <2>6. RoleMoves(t)
    BY <1>3, <1>1, <2>1, <2>2 DEF DriveGate, slotVars, RoleMoves, Making, Pinning, Reserving,
      Pushing, At, slot, gen, Keeps, Grounds
  <2>7. Carries(t)
    BY <1>3, <1>1, <2>1, <2>2 DEF DriveGate, Carries, Busy, Pushing, Activating, InWave, At,
      queueVars
  <2>8. QED
    BY <2>1, <2>3, <2>4, <2>5, <2>6, <2>7 DEF Moves, Types, Registers
<1>4. QED
  BY <1>2, <1>3

LEMMA DriveJoinMoves ==
    ASSUME Inv, NEW t \in Threads, DriveJoin(t)
    PROVE  Moves(t) /\ Carries(t)
<1>1. Grounds(t)
  BY GroundsHold
<1>2. CASE Unmoved(t)
  <2>1. /\ Registers(t)
        /\ pc'[t] = "publish"
        /\ Keeps(t)
        /\ ret'[t] = ret[t]
        /\ snap' = snap
    BY <1>2, <1>1 DEF DriveJoin, Goto, argVars, Set, ThreadTypes, LocalTypes, Registers, Others,
      Keeps, Grounds
  <2>2. UNCHANGED slotVars
    BY <1>2, <1>1 DEF DriveJoin, slotVars, Grounds
  <2>3. SlotTypes' /\ SlotMoves(t)
    BY <1>2, <1>1, <2>2, QuietMoves DEF Types, Grounds
  <2>4. QueueTypes'
    BY <1>2, <1>1 DEF DriveJoin, queueVars, Types, QueueTypes, Grounds
  <2>5. ThreadSound(t)'
    <3>1. /\ life[slot(t)] = seen[t] /\ life[slot(t)].phase = "idle" /\ Joined(gate[slot(t)])
          /\ OwnerSound(t) /\ Pinning(t) /\ At(t, "driveJoin")
      BY <1>1, <1>2 DEF DriveJoin, Unmoved, ThreadSound, OwnerSound, At, Pinning, Grounds
    <3>2. Heard(slot(t))
      BY <1>1, <3>1 DEF SlotSound, Grounds
    <3>3. \A u \in Threads : ~(Reserving(u) /\ slot(u) = slot(t))
      BY <1>1, <3>1, NoneReserves DEF Joined, Grounds
    <3>4. Drained(slot(t))
      BY <3>1, <3>2, <3>3 DEF Drained, Heard, Reserving, At
    <3>5. OwnerSound(t)'
      BY <2>1, <2>2, <3>1, <3>4 DEF OwnerSound, Pinning, Pushing, At, slot, gen, Keeps, slotVars,
        Drained, Joined
    <3>6. snap'[t] = <<>> /\ Len(snap'[t]) <= MaxFlush
      BY <1>1, <2>1, <3>1 DEF ThreadSound, Returns, At, Pushing, Grounds
    <3>7. QED
      BY <2>1, <3>5, <3>6 DEF ThreadSound, Returns, MakerSound, SenderSound, ReclaimerSound,
        ActivationSound, WaveSound, Making, Admitted, Entering, Activating, InWave, Owning,
        Pushing, At
  <2>6. RoleMoves(t)
    BY <1>2, <1>1, <2>1, <2>2 DEF DriveJoin, slotVars, RoleMoves, Making, Pinning, Reserving,
      Pushing, At, slot, gen, Keeps, Grounds
  <2>7. Carries(t)
    BY <1>2, <1>1, <2>1, <2>2 DEF DriveJoin, Carries, Busy, Pushing, Activating, InWave, At,
      queueVars
  <2>8. QED
    BY <2>1, <2>3, <2>4, <2>5, <2>6, <2>7 DEF Moves, Types, Registers
<1>3. CASE ~Unmoved(t)
  <2>1. /\ Registers(t)
        /\ h'[t] = h[t]
        /\ \/ pc'[t] = "unpin"
           \/ pc'[t] = "signal" /\ ret'[t] = "unpin"
           \/ /\ pc'[t] = "driveGate" /\ seen'[t].gen = gen(t)
              /\ seen'[t].phase = "idle" /\ "retire" \in seen'[t].flags
        /\ snap' = snap
    <3>1. DriveOn(t, life[slot(t)])
      BY <1>3 DEF DriveJoin
    <3>2. ThreadTypes /\ life[slot(t)] \in Words
      BY <1>1 DEF Grounds
    <3>3. /\ Registers(t) /\ snap' = snap /\ h'[t] = h[t]
          /\ \/ pc'[t] = "unpin"
             \/ pc'[t] = "signal" /\ ret'[t] = "unpin"
             \/ /\ pc'[t] = "driveGate" /\ seen'[t] = life[slot(t)]
                /\ life[slot(t)].gen = gen(t) /\ life[slot(t)].phase
                       = "idle" /\ "retire" \in life[slot(t)].flags
      BY <3>1, <3>2, DriveOnGoes
    <3>4. QED
      BY <3>3
  <2>2. UNCHANGED slotVars
    BY <1>3, <1>1 DEF DriveJoin, slotVars, Grounds
  <2>3. SlotTypes' /\ SlotMoves(t)
    BY <1>3, <1>1, <2>2, QuietMoves DEF Types, Grounds
  <2>4. QueueTypes'
    BY <1>3, <1>1 DEF DriveJoin, queueVars, Types, QueueTypes, Grounds
  <2>5. ThreadSound(t)'
    <3>1. Pinning(t) /\ life[slot(t)].gen = gen(t) /\ "op" \in life[slot(t)].flags
      BY <1>1 DEF DriveJoin, ThreadSound, OwnerSound, Pinning, At, Grounds
    <3>2. snap'[t] = <<>> /\ Len(snap'[t]) <= MaxFlush
      BY <1>1, <2>1 DEF DriveJoin, ThreadSound, Returns, At, Pushing, Grounds
    <3>3. OwnerSound(t)'
      BY <2>1, <2>2, <3>1 DEF OwnerSound, Pinning, Pushing, At, slot, gen, slotVars
    <3>4. QED
      BY <2>1, <3>2, <3>3 DEF ThreadSound, Returns, MakerSound, SenderSound, ReclaimerSound,
        ActivationSound, WaveSound, Making, Admitted, Entering, Activating, InWave, Owning,
        Pushing, At
  <2>6. RoleMoves(t)
    BY <1>3, <1>1, <2>1, <2>2 DEF DriveJoin, slotVars, RoleMoves, Making, Pinning, Reserving,
      Pushing, At, slot, gen, Keeps, Grounds
  <2>7. Carries(t)
    BY <1>3, <1>1, <2>1, <2>2 DEF DriveJoin, Carries, Busy, Pushing, Activating, InWave, At,
      queueVars
  <2>8. QED
    BY <2>1, <2>3, <2>4, <2>5, <2>6, <2>7 DEF Moves, Types, Registers
<1>4. QED
  BY <1>2, <1>3

LEMMA PublishRetiredMoves ==
    ASSUME Inv, NEW t \in Threads, PublishRetired(t)
    PROVE  Moves(t) /\ Carries(t)
<1>1. Grounds(t)
  BY GroundsHold
<1>2. /\ At(t, "publish") /\ life[slot(t)].phase = "idle" /\ life[slot(t)].gen = gen(t)
      /\ Drained(slot(t))
  BY <1>1 DEF PublishRetired, ThreadSound, OwnerSound, At, Pinning, Grounds
<1>3. /\ Registers(t)
      /\ pc'[t] = "idle"
      /\ ret'[t] = "idle"
      /\ snap' = snap
  BY <1>1, ReturnGoes DEF PublishRetired, Set, ThreadTypes, LocalTypes, Registers, Others, Keeps,
    Grounds
<1>4. /\ UNCHANGED <<gate, inbox, carry, waveOwner, state, payload, free, nodeState>>
      /\ life' = [r \in Slots |-> IF r = slot(t) THEN Word(gen(t), "retired", {}) ELSE life[r]]
  BY <1>1 DEF PublishRetired, At, Set, slot, SlotTypes, Types, Grounds
<1>5. life' \in [Slots -> Words]
  BY ActorAssumption, <1>1, <1>4 DEF Types, SlotTypes, Words, Word, Phases, Flags, Grounds
<1>6. SlotTypes'
  BY <1>1, <1>4, <1>5 DEF Types, SlotTypes, Grounds
<1>7. /\ \A r \in Slots : r # slot(t) => life'[r] = life[r]
      /\ life'[slot(t)] = Word(gen(t), "retired", {})
  BY <1>1, <1>4 DEF Grounds
<1>8. Ends(t, slot(t))
  BY <1>2, <1>7 DEF Ends, Same, Step, Word
<1>9. \A r \in Slots : LifeMoves(t, r)
  BY <1>8, <1>4, <1>7 DEF LifeMoves, Keep
<1>10. \A r \in Slots :
         /\ GateMoves(t, r) /\ InboxMoves(t, r) /\ OwnerMoves(t, r)
         /\ StateMoves(t, r) /\ FreeMoves(t, r)
  BY <1>4, <1>7 DEF GateMoves, InboxMoves, OwnerMoves, StateMoves, FreeMoves
<1>11. SlotMoves(t)
  BY <1>9, <1>10 DEF SlotMoves
<1>12. QueueTypes'
  BY <1>1 DEF PublishRetired, queueVars, Types, QueueTypes, Grounds
<1>13. ThreadSound(t)'
  BY <1>1, <1>3, IdleSound DEF ThreadSound, Returns, MakerSound, SenderSound, OwnerSound,
    ReclaimerSound, ActivationSound, WaveSound, PublishRetired, At, Pushing, Starts, Grounds
<1>14. RoleMoves(t)
  BY <1>1, <1>3, <1>4 DEF PublishRetired, slotVars, RoleMoves, Making, Pinning, Reserving,
    Pushing, At, slot, gen, Keeps, Grounds
<1>15. Carries(t)
  BY <1>1, <1>3, <1>4 DEF PublishRetired, Carries, Busy, Pushing, Activating, InWave, At,
    queueVars
<1>16. QED
  BY <1>3, <1>6, <1>11, <1>12, <1>13, <1>14, <1>15 DEF Moves, Types, Registers

LEMMA DriveQueueMoves ==
    ASSUME Inv, NEW t \in Threads, DriveQueue(t)
    PROVE  Moves(t) /\ Carries(t)
<1>1. Grounds(t)
  BY GroundsHold
<1>2. CASE life[slot(t)] = seen[t]
  <2>1. /\ Registers(t)
        /\ pc'[t] = "count"
        /\ ret'[t] = "unpin"
        /\ h'[t] = h[t]
        /\ snap' = snap
    <3>1. PushReady(t, "unpin") /\ Forget(t) /\ h' = h
      BY <1>2 DEF DriveQueue
    <3>2. LocalTypes' /\ OthersLocal(t) /\ snap' = snap
      BY <1>1, <3>1, Forgets DEF ThreadTypes, Grounds
    <3>3. QED
      BY <1>1, <3>1, <3>2, PushReadyGoes DEF Grounds
  <2>2. /\ UNCHANGED <<gate, inbox, carry, waveOwner, state, payload, free, nodeState>>
        /\ life' = [r \in Slots |-> IF r = slot(t) THEN Scheduled(life[r]) ELSE life[r]]
    BY <1>2, <1>1 DEF DriveQueue, At, Set, slot, SlotTypes, Types, Grounds
  <2>3. life' \in [Slots -> Words]
    BY <1>2, ActorAssumption, <1>1, <2>2 DEF Types, SlotTypes, Words, Word, Phases, Flags,
      Scheduled, retainedMask, Grounds
  <2>4. SlotTypes'
    BY <1>2, <1>1, <2>2, <2>3 DEF Types, SlotTypes, Grounds
  <2>5. /\ \A r \in Slots : r # slot(t) => life'[r] = life[r]
        /\ life'[slot(t)] = Scheduled(life[slot(t)])
    BY <1>2, <1>1, <2>2 DEF Grounds
  <2>6. Wakens(t, slot(t))
    BY <1>2, <1>1, <2>1, <2>5 DEF Wakens, Same, Step, Word, DriveQueue, ThreadSound, At, slot,
      gen, OwnerSound, Pinning, Scheduled, retainedMask, Busy, Pushing, Grounds
  <2>7. \A r \in Slots : LifeMoves(t, r)
    BY <1>2, <2>6, <2>2, <2>5 DEF LifeMoves, Keep
  <2>8. \A r \in Slots :
          /\ GateMoves(t, r) /\ InboxMoves(t, r) /\ OwnerMoves(t, r)
          /\ StateMoves(t, r) /\ FreeMoves(t, r)
    BY <1>2, <2>2, <2>5 DEF GateMoves, InboxMoves, OwnerMoves, StateMoves, FreeMoves
  <2>9. SlotMoves(t)
    BY <1>2, <2>7, <2>8 DEF SlotMoves
  <2>10. QueueTypes'
    BY <1>2, <1>1 DEF DriveQueue, queueVars, Types, QueueTypes, Grounds
  <2>11. ThreadSound(t)'
    BY <1>2, <1>1, <2>1, <2>2 DEF DriveQueue, slotVars, ThreadSound, Returns, MakerSound,
      SenderSound, OwnerSound, ReclaimerSound, ActivationSound, WaveSound, Making, Admitted,
      Pinning, Entering, Activating, InWave, Owning, Pushing, At, slot, gen, RetireOpens,
      Reclaimable, Active, Word, retireModeMask, retainedMask, Keeps, Confirms, Scheduled, Grounds
  <2>12. RoleMoves(t)
    BY <1>2, <1>1, <2>1, <2>2 DEF DriveQueue, slotVars, RoleMoves, Making, Pinning, Reserving,
      Pushing, At, slot, gen, Keeps, Grounds
  <2>13. Carries(t)
    BY <1>2, <1>1, <2>1, <2>2, <2>6 DEF DriveQueue, Carries, Busy, Pushing, Activating, InWave,
      At, queueVars, Word, Scheduled, Wakens, Same, Step
  <2>14. QED
    BY <2>1, <2>4, <2>9, <2>10, <2>11, <2>12, <2>13 DEF Moves, Types, Registers
<1>3. CASE life[slot(t)] # seen[t]
  <2>1. /\ Registers(t)
        /\ h'[t] = h[t]
        /\ \/ pc'[t] = "unpin"
           \/ pc'[t] = "signal" /\ ret'[t] = "unpin"
           \/ /\ pc'[t] = "driveGate" /\ seen'[t].gen = gen(t)
              /\ seen'[t].phase = "idle" /\ "retire" \in seen'[t].flags
        /\ snap' = snap
    <3>1. DriveOn(t, life[slot(t)])
      BY <1>3 DEF DriveQueue
    <3>2. ThreadTypes /\ life[slot(t)] \in Words
      BY <1>1 DEF Grounds
    <3>3. /\ Registers(t) /\ snap' = snap /\ h'[t] = h[t]
          /\ \/ pc'[t] = "unpin"
             \/ pc'[t] = "signal" /\ ret'[t] = "unpin"
             \/ /\ pc'[t] = "driveGate" /\ seen'[t] = life[slot(t)]
                /\ life[slot(t)].gen = gen(t) /\ life[slot(t)].phase
                       = "idle" /\ "retire" \in life[slot(t)].flags
      BY <3>1, <3>2, DriveOnGoes
    <3>4. QED
      BY <3>3
  <2>2. UNCHANGED slotVars
    BY <1>3, <1>1 DEF DriveQueue, slotVars, Grounds
  <2>3. SlotTypes' /\ SlotMoves(t)
    BY <1>3, <1>1, <2>2, QuietMoves DEF Types, Grounds
  <2>4. QueueTypes'
    BY <1>3, <1>1 DEF DriveQueue, queueVars, Types, QueueTypes, Grounds
  <2>5. ThreadSound(t)'
    <3>1. Pinning(t) /\ life[slot(t)].gen = gen(t) /\ "op" \in life[slot(t)].flags
      BY <1>1 DEF DriveQueue, ThreadSound, OwnerSound, Pinning, At, Grounds
    <3>2. snap'[t] = <<>> /\ Len(snap'[t]) <= MaxFlush
      BY <1>1, <2>1 DEF DriveQueue, ThreadSound, Returns, At, Pushing, Grounds
    <3>3. OwnerSound(t)'
      BY <2>1, <2>2, <3>1 DEF OwnerSound, Pinning, Pushing, At, slot, gen, slotVars
    <3>4. QED
      BY <2>1, <3>2, <3>3 DEF ThreadSound, Returns, MakerSound, SenderSound, ReclaimerSound,
        ActivationSound, WaveSound, Making, Admitted, Entering, Activating, InWave, Owning,
        Pushing, At
  <2>6. RoleMoves(t)
    BY <1>3, <1>1, <2>1, <2>2 DEF DriveQueue, slotVars, RoleMoves, Making, Pinning, Reserving,
      Pushing, At, slot, gen, Keeps, Grounds
  <2>7. Carries(t)
    BY <1>3, <1>1, <2>1, <2>2 DEF DriveQueue, Carries, Busy, Pushing, Activating, InWave, At,
      queueVars
  <2>8. QED
    BY <2>1, <2>3, <2>4, <2>5, <2>6, <2>7 DEF Moves, Types, Registers
<1>4. QED
  BY <1>2, <1>3

LEMMA UnpinMoves ==
    ASSUME Inv, NEW t \in Threads, Unpin(t)
    PROVE  Moves(t) /\ Carries(t)
<1>1. Grounds(t)
  BY GroundsHold
<1>2. life' = [life EXCEPT ![slot(t)]
          = Word(life[slot(t)].gen, life[slot(t)].phase, life[slot(t)].flags \ {"op"})]
  <2>1. [life[slot(t)] EXCEPT !.flags = life[slot(t)].flags \ {"op"}]
            = Word(life[slot(t)].gen, life[slot(t)].phase, life[slot(t)].flags \ {"op"})
    <3>1. life[slot(t)] \in Words
      BY <1>1 DEF Grounds
    <3>2. QED
      BY <3>1, FieldSet
  <2>2. QED
    BY <1>1, <2>1 DEF Unpin, Grounds
<1>3. /\ Registers(t)
      /\ pc'[t] = "idle"
      /\ ret'[t] = "idle"
      /\ snap' = snap
  BY <1>1, ReturnGoes DEF Unpin, ThreadTypes, LocalTypes, Registers, Others, Keeps, Grounds
<1>4. /\ UNCHANGED <<gate, inbox, carry, waveOwner, state, payload, free, nodeState>>
      /\ life' = [r \in Slots |-> IF r = slot(t)
             THEN Word(life[r].gen, life[r].phase, life[r].flags \ {"op"}) ELSE life[r]]
  BY <1>1, <1>2 DEF Unpin, At, queueVars, slot, SlotTypes, Types, Grounds
<1>5. life' \in [Slots -> Words]
  BY ActorAssumption, <1>1, <1>4 DEF Types, SlotTypes, Words, Word, Phases, Flags, Grounds
<1>6. SlotTypes'
  BY <1>1, <1>4, <1>5 DEF Types, SlotTypes, Grounds
<1>7. /\ \A r \in Slots : r # slot(t) => life'[r] = life[r]
      /\ life'[slot(t)]
             = Word(life[slot(t)].gen, life[slot(t)].phase, life[slot(t)].flags \ {"op"})
  BY <1>1, <1>4 DEF Grounds
<1>8. Unpins(t, slot(t))
  BY <1>1, <1>3, <1>7 DEF Unpins, Same, Step, Word, Unpin, ThreadSound, At, slot, gen, OwnerSound,
    Pinning, SlotSound, Words, Phases, Active, Grounds
<1>9. \A r \in Slots : LifeMoves(t, r)
  BY <1>8, <1>4, <1>7 DEF LifeMoves, Keep
<1>10. \A r \in Slots :
         /\ GateMoves(t, r) /\ InboxMoves(t, r) /\ OwnerMoves(t, r)
         /\ StateMoves(t, r) /\ FreeMoves(t, r)
  BY <1>4, <1>7 DEF GateMoves, InboxMoves, OwnerMoves, StateMoves, FreeMoves
<1>11. SlotMoves(t)
  BY <1>9, <1>10 DEF SlotMoves
<1>12. QueueTypes'
  BY <1>1 DEF Unpin, At, queueVars, slot, Types, QueueTypes, Grounds
<1>13. ThreadSound(t)'
  BY <1>1, <1>3, IdleSound DEF ThreadSound, Returns, MakerSound, SenderSound, OwnerSound,
    ReclaimerSound, ActivationSound, WaveSound, Unpin, At, Pushing, Starts, Grounds
<1>14. RoleMoves(t)
  BY <1>1, <1>3, <1>4 DEF Unpin, slotVars, RoleMoves, Making, Pinning, Reserving, Pushing, At,
    slot, gen, Keeps, Grounds
<1>15. Carries(t)
  BY <1>1, <1>3, <1>4 DEF Unpin, Carries, Busy, Pushing, Activating, InWave, At, queueVars
<1>16. QED
  BY <1>3, <1>6, <1>11, <1>12, <1>13, <1>14, <1>15 DEF Moves, Types, Registers

-----------------------------------------------------------------------------
(* reclaimActor.                                                           *)

LEMMA ReclaimMoves ==
    ASSUME Inv, NEW t \in Threads, Reclaim(t)
    PROVE  Moves(t) /\ Carries(t)
<1>1. Grounds(t)
  BY GroundsHold
<1>2. /\ Registers(t) /\ slot(t)' \in Slots /\ pc[t] = "idle"
      /\ pc'[t] = "reclaimWave"
      /\ seen'[t] = life[slot(t)']
      /\ gen(t)' = life[slot(t)'].gen
      /\ Reclaimable(life[slot(t)'])
      /\ snap' = snap
  <2>1. PICK s \in Slots :
        /\ Reclaimable(life[s])
        /\ Open(t, s, "reclaimWave")
        /\ seen' = Set(seen, t, life[s])
    BY <1>1 DEF Reclaim, Types, SlotTypes, Grounds
  <2>2. /\ DOMAIN pc' = Threads /\ h' \in [Threads -> [slot : Slots, gen : 0 .. MaxGen]]
        /\ pc'[t] = "reclaimWave" /\ slot(t)' = s /\ gen(t)' = life[s].gen
        /\ \A u \in Threads \ {t} : pc'[u] = pc[u] /\ h'[u] = h[u]
    BY <1>1, <2>1, OpenGoes DEF Types, Grounds
  <2>3. pc[t] = "idle" /\ UNCHANGED <<ret, quiet, node, mode, local, again, snap>>
    BY DEF Reclaim, Starts, argVars
  <2>4. ThreadTypes'
    BY <1>1, <2>1, <2>2, <2>3 DEF Types, SlotTypes, Words, ThreadTypes, LocalTypes, Set, Grounds
  <2>5. Others(t)
    BY <1>1, <2>1, <2>2, <2>3 DEF ThreadTypes, LocalTypes, Others, Set, Grounds
  <2>6. QED
    BY <1>1, <2>1, <2>2, <2>3, <2>4, <2>5 DEF ThreadTypes, LocalTypes, Registers, Set, Grounds
<1>3. UNCHANGED slotVars
  BY <1>1 DEF Reclaim, slotVars, Grounds
<1>4. SlotTypes' /\ SlotMoves(t)
  BY <1>1, <1>3, QuietMoves DEF Types, Grounds
<1>5. QueueTypes'
  BY <1>1 DEF Reclaim, queueVars, Types, QueueTypes, Grounds
<1>6. SlotSound(slot(t)') /\ life[slot(t)'] \in Words
  BY <1>1, <1>2 DEF Inv, Types, SlotTypes, Grounds
<1>7. life[slot(t)'] = Word(gen(t)', "retired", {}) /\ life' = life
  BY <1>6, <1>2, <1>3 DEF SlotSound, Reclaimable, Words, Word, slotVars
<1>8. snap'[t] = <<>> /\ Len(snap'[t]) <= MaxFlush
  BY <1>1, <1>2 DEF ThreadSound, Returns, Pushing, Grounds
<1>9. ReclaimerSound(t)'
  BY <1>2, <1>7 DEF ReclaimerSound, At, slot, gen
<1>10. ThreadSound(t)'
  BY <1>2, <1>8, <1>9 DEF ThreadSound, Returns, MakerSound, SenderSound, OwnerSound,
    ActivationSound, WaveSound, Making, Admitted, Pinning, Entering, Activating, InWave, Owning,
    Pushing, At
<1>11. RoleMoves(t)
  BY <1>1, <1>2, <1>3 DEF slotVars, RoleMoves, Making, Pinning, Reserving, Pushing, At, slot, gen,
    Keeps, Grounds
<1>12. Carries(t)
  BY <1>1, <1>2, <1>3 DEF Reclaim, Carries, Busy, Pushing, Activating, InWave, At, queueVars
<1>13. QED
  BY <1>2, <1>4, <1>5, <1>10, <1>11, <1>12 DEF Moves, Types, Registers

LEMMA ReclaimMeetsWaveMoves ==
    ASSUME Inv, NEW t \in Threads, ReclaimMeetsWave(t)
    PROVE  Moves(t) /\ Carries(t)
<1>1. Grounds(t)
  BY GroundsHold
<1>2. CASE waveOwner[slot(t)] = None
  <2>1. /\ Registers(t)
        /\ pc'[t] = "claim"
        /\ Keeps(t)
        /\ ret'[t] = ret[t]
        /\ snap' = snap
    BY <1>2, <1>1 DEF ReclaimMeetsWave, Goto, argVars, Set, ThreadTypes, LocalTypes, Registers,
      Others, Keeps, Grounds
  <2>2. UNCHANGED slotVars
    BY <1>2, <1>1 DEF ReclaimMeetsWave, slotVars, Grounds
  <2>3. SlotTypes' /\ SlotMoves(t)
    BY <1>2, <1>1, <2>2, QuietMoves DEF Types, Grounds
  <2>4. QueueTypes'
    BY <1>2, <1>1 DEF ReclaimMeetsWave, queueVars, Types, QueueTypes, Grounds
  <2>5. ThreadSound(t)'
    BY <1>2, <1>1, <2>1, <2>2 DEF ReclaimMeetsWave, slotVars, ThreadSound, Returns, MakerSound,
      SenderSound, OwnerSound, ReclaimerSound, ActivationSound, WaveSound, Making, Admitted,
      Pinning, Entering, Activating, InWave, Owning, Pushing, At, slot, gen, Keeps, Grounds
  <2>6. RoleMoves(t)
    BY <1>2, <1>1, <2>1, <2>2 DEF ReclaimMeetsWave, slotVars, RoleMoves, Making, Pinning,
      Reserving, Pushing, At, slot, gen, Keeps, Grounds
  <2>7. Carries(t)
    BY <1>2, <1>1, <2>1, <2>2 DEF ReclaimMeetsWave, Carries, Busy, Pushing, Activating, InWave,
      At, queueVars
  <2>8. QED
    BY <2>1, <2>3, <2>4, <2>5, <2>6, <2>7 DEF Moves, Types, Registers
<1>3. CASE waveOwner[slot(t)] # None
  <2>1. /\ Registers(t)
        /\ pc'[t] = "idle"
        /\ ret'[t] = "idle"
        /\ snap' = snap
    BY <1>3, <1>1, ReturnGoes DEF ReclaimMeetsWave, Goto, argVars, Set, ThreadTypes, LocalTypes,
      Registers, Others, Keeps, Grounds
  <2>2. UNCHANGED slotVars
    BY <1>3, <1>1 DEF ReclaimMeetsWave, At, Goto, argVars, queueVars, slot, slotVars, Set, Grounds
  <2>3. SlotTypes' /\ SlotMoves(t)
    BY <1>3, <1>1, <2>2, QuietMoves DEF Types, Grounds
  <2>4. QueueTypes'
    BY <1>3, <1>1 DEF ReclaimMeetsWave, queueVars, Types, QueueTypes, Grounds
  <2>5. ThreadSound(t)'
    BY <1>3, <1>1, <2>1, IdleSound DEF ThreadSound, Returns, MakerSound, SenderSound, OwnerSound,
      ReclaimerSound, ActivationSound, WaveSound, ReclaimMeetsWave, At, Pushing, Starts, Grounds
  <2>6. RoleMoves(t)
    BY <1>3, <1>1, <2>1, <2>2 DEF ReclaimMeetsWave, slotVars, RoleMoves, Making, Pinning,
      Reserving, Pushing, At, slot, gen, Keeps, Grounds
  <2>7. Carries(t)
    BY <1>3, <1>1, <2>1, <2>2 DEF ReclaimMeetsWave, Carries, Busy, Pushing, Activating, InWave,
      At, queueVars
  <2>8. QED
    BY <2>1, <2>3, <2>4, <2>5, <2>6, <2>7 DEF Moves, Types, Registers
<1>4. QED
  BY <1>2, <1>3

LEMMA ClaimReclaimMoves ==
    ASSUME Inv, NEW t \in Threads, ClaimReclaim(t)
    PROVE  Moves(t) /\ Carries(t)
<1>1. Grounds(t)
  BY GroundsHold
<1>2. CASE life[slot(t)] = seen[t]
  <2>1. /\ Registers(t)
        /\ pc'[t] = "destroy"
        /\ h'[t] = h[t]
        /\ snap' = snap
    BY <1>2, <1>1, Forgets DEF ClaimReclaim, At, Goto, Set, gen, slot, Types, ThreadTypes,
      LocalTypes, Registers, Others, Keeps, OthersLocal, Grounds
  <2>2. /\ UNCHANGED <<gate, inbox, carry, waveOwner, state, payload, free, nodeState>>
        /\ life' = [r \in Slots |-> IF r = slot(t) THEN Word(gen(t), "reclaiming", {})
               ELSE life[r]]
    BY <1>2, <1>1 DEF ClaimReclaim, At, Set, slot, SlotTypes, Types, Grounds
  <2>3. life' \in [Slots -> Words]
    BY <1>2, ActorAssumption, <1>1, <2>2 DEF Types, SlotTypes, Words, Word, Phases, Flags, Grounds
  <2>4. SlotTypes'
    BY <1>2, <1>1, <2>2, <2>3 DEF Types, SlotTypes, Grounds
  <2>5. /\ \A r \in Slots : r # slot(t) => life'[r] = life[r]
        /\ life'[slot(t)] = Word(gen(t), "reclaiming", {})
    BY <1>2, <1>1, <2>2 DEF Grounds
  <2>6. Claims(t, slot(t))
    BY <1>2, <1>1, <2>1, <2>5 DEF Claims, Same, Step, Word, ClaimReclaim, ThreadSound, At, slot,
      gen, ReclaimerSound, Grounds
  <2>7. \A r \in Slots : LifeMoves(t, r)
    BY <1>2, <2>6, <2>2, <2>5 DEF LifeMoves, Keep
  <2>8. \A r \in Slots :
          /\ GateMoves(t, r) /\ InboxMoves(t, r) /\ OwnerMoves(t, r)
          /\ StateMoves(t, r) /\ FreeMoves(t, r)
    BY <1>2, <2>2, <2>5 DEF GateMoves, InboxMoves, OwnerMoves, StateMoves, FreeMoves
  <2>9. SlotMoves(t)
    BY <1>2, <2>7, <2>8 DEF SlotMoves
  <2>10. QueueTypes'
    BY <1>2, <1>1 DEF ClaimReclaim, queueVars, Types, QueueTypes, Grounds
  <2>11. ThreadSound(t)'
    BY <1>2, <1>1, <2>1, <2>2 DEF ClaimReclaim, slotVars, SlotSound, ThreadSound, Returns,
      MakerSound, SenderSound, OwnerSound, ReclaimerSound, ActivationSound, WaveSound, Making,
      Admitted, Pinning, Reserving, Entering, Activating, InWave, Owning, Pushing, Busy, At, slot,
      gen, Joined, Drained, Awaited, Heard, Untouched, RetireOpens, Reclaimable, HasInbox, Active,
      Word, retireModeMask, retainedMask, Keeps, Others, Registers, Confirms, Unmoved, Types,
      SlotTypes, QueueTypes, ThreadTypes, LocalTypes, Words, Starts, Scheduled, Signals, Queues,
      Grounds
  <2>12. RoleMoves(t)
    BY <1>2, <1>1, <2>1, <2>2 DEF ClaimReclaim, slotVars, RoleMoves, ThreadSound, ReclaimerSound,
      Reserving, Pushing, At, slot, Word, Keeps, Grounds
  <2>13. Carries(t)
    BY <1>2, <1>1, <2>1, <2>2 DEF ClaimReclaim, Carries, Busy, Pushing, Activating, InWave, At,
      queueVars
  <2>14. QED
    BY <2>1, <2>4, <2>9, <2>10, <2>11, <2>12, <2>13 DEF Moves, Types, Registers
<1>3. CASE life[slot(t)] # seen[t]
  <2>1. /\ Registers(t)
        /\ pc'[t] = "idle"
        /\ ret'[t] = "idle"
        /\ snap' = snap
    BY <1>3, <1>1, ReturnGoes DEF ClaimReclaim, Goto, Set, ThreadTypes, LocalTypes, Registers,
      Others, Keeps, Grounds
  <2>2. UNCHANGED slotVars
    BY <1>3, <1>1 DEF ClaimReclaim, slotVars, Grounds
  <2>3. SlotTypes' /\ SlotMoves(t)
    BY <1>3, <1>1, <2>2, QuietMoves DEF Types, Grounds
  <2>4. QueueTypes'
    BY <1>3, <1>1 DEF ClaimReclaim, queueVars, Types, QueueTypes, Grounds
  <2>5. ThreadSound(t)'
    BY <1>3, <1>1, <2>1, IdleSound DEF ThreadSound, Returns, MakerSound, SenderSound, OwnerSound,
      ReclaimerSound, ActivationSound, WaveSound, ClaimReclaim, At, Pushing, Starts, Grounds
  <2>6. RoleMoves(t)
    BY <1>3, <1>1, <2>1, <2>2 DEF ClaimReclaim, slotVars, RoleMoves, Making, Pinning, Reserving,
      Pushing, At, slot, gen, Keeps, Grounds
  <2>7. Carries(t)
    BY <1>3, <1>1, <2>1, <2>2 DEF ClaimReclaim, Carries, Busy, Pushing, Activating, InWave, At,
      queueVars
  <2>8. QED
    BY <2>1, <2>3, <2>4, <2>5, <2>6, <2>7 DEF Moves, Types, Registers
<1>4. QED
  BY <1>2, <1>3

LEMMA DestroyMoves ==
    ASSUME Inv, NEW t \in Threads, Destroy(t)
    PROVE  Moves(t) /\ Carries(t)
<1>1. Grounds(t)
  BY GroundsHold
<1>2. /\ Registers(t)
      /\ pc'[t] = "freeSlot"
      /\ Keeps(t)
      /\ ret'[t] = ret[t]
      /\ snap' = snap
  BY <1>1 DEF Destroy, Goto, Set, argVars, ThreadTypes, LocalTypes, Registers, Others, Keeps,
    Grounds
<1>3. /\ UNCHANGED <<life, gate, inbox, carry, waveOwner, free, nodeState>>
      /\ state' = [r \in Slots |-> IF r = slot(t) THEN 0 ELSE state[r]]
      /\ payload' = [r \in Slots |-> IF r = slot(t) THEN 0 ELSE payload[r]]
  BY <1>1 DEF Destroy, At, Set, slot, SlotTypes, Types, Grounds
<1>4. /\ state' \in [Slots -> 0 .. MaxGen]
      /\ payload' \in [Slots -> 0 .. MaxGen]
  <2>1. state \in [Slots -> 0 .. MaxGen] /\ payload \in [Slots -> 0 .. MaxGen]
    BY <1>1 DEF Types, SlotTypes, Grounds
  <2>2. 0 \in 0 .. MaxGen
    BY ActorAssumption
  <2>3. QED
    BY <1>3, <2>1, <2>2
<1>5. SlotTypes'
  BY <1>1, <1>3, <1>4 DEF Types, SlotTypes, Grounds
<1>6. /\ \A r \in Slots : r # slot(t) => state'[r] = state[r] /\ payload'[r] = payload[r]
      /\ state'[slot(t)] = 0
      /\ payload'[slot(t)] = 0
  BY <1>1, <1>3 DEF Grounds
<1>7. \A r \in Slots : LifeMoves(t, r)
  BY <1>3, <1>6 DEF LifeMoves, Keep
<1>8. \A r \in Slots : StateMoves(t, r)
  BY <1>1, <1>2, <1>3, <1>6 DEF StateMoves, Destroy, At, slot, gen, Grounds
<1>9. \A r \in Slots :
        /\ GateMoves(t, r) /\ InboxMoves(t, r)
        /\ OwnerMoves(t, r) /\ FreeMoves(t, r)
  BY <1>3, <1>6 DEF GateMoves, InboxMoves, OwnerMoves, FreeMoves
<1>10. SlotMoves(t)
  BY <1>7, <1>9, <1>8 DEF SlotMoves
<1>11. QueueTypes'
  BY <1>1 DEF Destroy, queueVars, Types, QueueTypes, Grounds
<1>12. ThreadSound(t)'
  BY <1>1, <1>2, <1>3 DEF Destroy, ThreadSound, Returns, MakerSound, SenderSound, OwnerSound,
    ReclaimerSound, ActivationSound, WaveSound, Making, Admitted, Pinning, Entering, Activating,
    InWave, Owning, Pushing, At, slot, gen, Grounds
<1>13. RoleMoves(t)
  BY <1>1, <1>2, <1>3 DEF Destroy, slotVars, RoleMoves, Making, Pinning, Reserving, Pushing, At,
    slot, gen, Keeps, Grounds
<1>14. Carries(t)
  BY <1>1, <1>2, <1>3 DEF Destroy, Carries, Busy, Pushing, Activating, InWave, At, queueVars
<1>15. QED
  BY <1>2, <1>5, <1>10, <1>11, <1>12, <1>13, <1>14 DEF Moves, Types, Registers

LEMMA ReturnFreeSlotMoves ==
    ASSUME Inv, NEW t \in Threads, ReturnFreeSlot(t)
    PROVE  Moves(t) /\ Carries(t)
<1>1. Grounds(t)
  BY GroundsHold
<1>2. /\ At(t, "freeSlot") /\ life[slot(t)].phase = "reclaiming" /\ life[slot(t)].gen = gen(t)
  BY <1>1 DEF ReturnFreeSlot, ThreadSound, MakerSound, Making, At, Grounds
<1>3. /\ Registers(t)
      /\ pc'[t] = "idle"
      /\ ret'[t] = "idle"
      /\ snap' = snap
  BY <1>1, ReturnGoes DEF ReturnFreeSlot, Set, ThreadTypes, LocalTypes, Registers, Others, Keeps,
    Grounds
<1>4. /\ UNCHANGED <<gate, inbox, carry, waveOwner, state, payload, nodeState>>
      /\ life' = [r \in Slots |-> IF r = slot(t) THEN Word(gen(t), "vacant", {}) ELSE life[r]]
      /\ free' = free \cup {slot(t)}
  BY <1>1 DEF ReturnFreeSlot, At, Set, slot, SlotTypes, Types, Grounds
<1>5. life' \in [Slots -> Words]
  BY ActorAssumption, <1>1, <1>4 DEF Types, SlotTypes, Words, Word, Phases, Flags, Grounds
<1>6. free' \subseteq Slots
  BY ActorAssumption, <1>1, <1>4, <1>3 DEF Types, SlotTypes, Grounds
<1>7. SlotTypes'
  BY <1>1, <1>4, <1>5, <1>6 DEF Types, SlotTypes, Grounds
<1>8. /\ \A r \in Slots : r # slot(t) => life'[r] = life[r]
      /\ life'[slot(t)] = Word(gen(t), "vacant", {})
  BY <1>1, <1>4 DEF Grounds
<1>9. Frees(t, slot(t))
  BY <1>2, <1>8 DEF Frees, Same, Step, Word
<1>10. \A r \in Slots : LifeMoves(t, r)
  BY <1>9, <1>4, <1>8 DEF LifeMoves, Keep
<1>11. \A r \in Slots :
         /\ GateMoves(t, r) /\ InboxMoves(t, r)
         /\ OwnerMoves(t, r) /\ StateMoves(t, r)
  BY <1>4, <1>8 DEF GateMoves, InboxMoves, OwnerMoves, StateMoves
<1>12. \A r \in Slots : FreeMoves(t, r)
  BY <1>2, <1>1, <1>4, <1>8 DEF FreeMoves, Word, At, Grounds
<1>13. SlotMoves(t)
  BY <1>10, <1>11, <1>12 DEF SlotMoves
<1>14. QueueTypes'
  BY <1>1 DEF ReturnFreeSlot, queueVars, Types, QueueTypes, Grounds
<1>15. ThreadSound(t)'
  BY <1>1, <1>3, IdleSound DEF ThreadSound, Returns, MakerSound, SenderSound, OwnerSound,
    ReclaimerSound, ActivationSound, WaveSound, ReturnFreeSlot, At, Pushing, Starts, Grounds
<1>16. RoleMoves(t)
  BY <1>1, <1>3, <1>4 DEF ReturnFreeSlot, slotVars, RoleMoves, Making, Pinning, Reserving,
    Pushing, At, slot, gen, Keeps, Grounds
<1>17. Carries(t)
  BY <1>1, <1>3, <1>4 DEF ReturnFreeSlot, Carries, Busy, Pushing, Activating, InWave, At,
    queueVars
<1>18. QED
  BY <1>3, <1>7, <1>13, <1>14, <1>15, <1>16, <1>17 DEF Moves, Types, Registers

-----------------------------------------------------------------------------
(* The ready queue and flush.                                              *)

LEMMA CountReadyMoves ==
    ASSUME Inv, NEW t \in Threads, CountReady(t)
    PROVE  Moves(t) /\ Carries(t)
<1>1. Grounds(t)
  BY GroundsHold
<1>2. /\ Registers(t)
      /\ pc'[t] = "link"
      /\ Keeps(t)
      /\ ret'[t] = ret[t]
      /\ snap' = snap
  BY <1>1 DEF CountReady, Goto, argVars, Set, ThreadTypes, LocalTypes, Registers, Others, Keeps,
    Grounds
<1>3. UNCHANGED slotVars
  BY <1>1 DEF CountReady, At, Goto, argVars, slotVars, Set, Grounds
<1>4. SlotTypes' /\ SlotMoves(t)
  BY <1>1, <1>3, QuietMoves DEF Types, Grounds
<1>5. QueueTypes'
  BY <1>1 DEF CountReady, Types, QueueTypes, queueVars, Grounds
<1>6. ThreadSound(t)'
  BY <1>1, <1>2, <1>3 DEF CountReady, slotVars, ThreadSound, Returns, MakerSound, SenderSound,
    OwnerSound, ReclaimerSound, ActivationSound, WaveSound, Making, Admitted, Pinning, Entering,
    Activating, InWave, Owning, Pushing, At, slot, gen, Keeps, Grounds
<1>7. RoleMoves(t)
  BY <1>1, <1>2, <1>3 DEF CountReady, slotVars, RoleMoves, Making, Pinning, Reserving, Pushing,
    At, slot, gen, Keeps, Grounds
<1>8. Pushing(t) => life[slot(t)].phase = "scheduled"
  BY <1>1 DEF Inv, TokenSound, Grounds, Grounds
<1>9. Carries(t)
  BY <1>1, <1>2, <1>3, <1>8 DEF CountReady, Carries, Busy, Pushing, Activating, InWave, At, slot,
    Keeps, slotVars, queueVars, gen, Word, Scheduled, Grounds
<1>10. QED
  BY <1>2, <1>4, <1>5, <1>6, <1>7, <1>9 DEF Moves, Types, Registers

LEMMA LinkReadyMoves ==
    ASSUME Inv, NEW t \in Threads, LinkReady(t)
    PROVE  Moves(t)
<1>1. Grounds(t)
  BY GroundsHold
<1>2. /\ Registers(t)
      /\ pc'[t] = ret[t]
      /\ ret[t] # "idle" => Keeps(t)
      /\ ret'[t] = ret[t]
      /\ snap' = snap
  BY <1>1, ResumeGoes DEF LinkReady, ThreadTypes, LocalTypes, Registers, Others, Keeps, Grounds
<1>3. UNCHANGED slotVars
  BY <1>1 DEF LinkReady, At, slot, slotVars, Grounds
<1>4. SlotTypes' /\ SlotMoves(t)
  BY <1>1, <1>3, QuietMoves DEF Types, Grounds
<1>5. QueueTypes'
  BY <1>1 DEF LinkReady, At, slot, slotVars, Types, QueueTypes, queueVars, Grounds
<1>6. ThreadSound(t)'
  BY <1>1, <1>2, <1>3, ResumedSound DEF LinkReady, At, slotVars, Keeps, Grounds
<1>7. RoleMoves(t)
  BY <1>1, <1>2, <1>3, ResumedSound DEF LinkReady, At, slotVars, Keeps, RoleMoves, Grounds
<1>8. QED
  BY <1>2, <1>4, <1>5, <1>6, <1>7 DEF Moves, Types, Registers

LEMMA FlushMoves ==
    ASSUME Inv, NEW t \in Threads, Flush(t)
    PROVE  Moves(t) /\ Carries(t)
<1>1. Grounds(t)
  BY GroundsHold
<1>2. /\ Registers(t)
      /\ pc'[t] = "take"
      /\ Keeps(t)
      /\ ret'[t] = ret[t]
      /\ snap' = snap
  BY <1>1 DEF Flush, Goto, argVars, Set, ThreadTypes, LocalTypes, Registers, Others, Keeps,
    Grounds
<1>3. UNCHANGED slotVars
  BY <1>1 DEF Flush, Goto, Starts, argVars, slotVars, Set, Grounds
<1>4. SlotTypes' /\ SlotMoves(t)
  BY <1>1, <1>3, QuietMoves DEF Types, Grounds
<1>5. QueueTypes'
  BY <1>1 DEF Flush, Types, QueueTypes, queueVars, Grounds
<1>6. ThreadSound(t)'
  BY <1>1, <1>2, <1>3 DEF Flush, slotVars, ThreadSound, Returns, MakerSound, SenderSound,
    OwnerSound, ReclaimerSound, ActivationSound, WaveSound, Making, Admitted, Pinning, Entering,
    Activating, InWave, Owning, Pushing, At, slot, gen, Keeps, Starts, Grounds
<1>7. RoleMoves(t)
  BY <1>1, <1>2, <1>3 DEF Flush, slotVars, RoleMoves, Making, Pinning, Reserving, Pushing, At,
    Keeps, Starts, Grounds
<1>8. Carries(t)
  BY <1>1, <1>2, <1>3 DEF Flush, Carries, Busy, Pushing, Activating, InWave, At, slot, Keeps,
    slotVars, queueVars, Starts, Word, Scheduled, Grounds
<1>9. QED
  BY <1>2, <1>4, <1>5, <1>6, <1>7, <1>8 DEF Moves, Types, Registers

LEMMA DetachMoves ==
    ASSUME Inv, NEW t \in Threads, Detach(t)
    PROVE  Moves(t)
<1>1. Grounds(t)
  BY GroundsHold
<1>2. /\ Registers(t)
      /\ pc'[t] = pc[t]
      /\ Keeps(t)
      /\ ret'[t] = ret[t]
      /\ snap' = snap
  BY <1>1 DEF Detach, At, slotVars, threadVars, Types, SlotTypes, ThreadTypes, LocalTypes, Words,
    Registers, Others, Keeps, Grounds
<1>3. UNCHANGED slotVars
  BY <1>1 DEF Detach, At, slotVars, threadVars, Grounds
<1>4. SlotTypes' /\ SlotMoves(t)
  BY <1>1, <1>3, QuietMoves DEF Types, Grounds
<1>5. QueueTypes'
  BY <1>1 DEF Detach, At, slotVars, threadVars, Types, QueueTypes, queueVars, Grounds
<1>6. ThreadSound(t)'
  BY <1>1, <1>2, <1>3 DEF Detach, ThreadSound, Returns, MakerSound, SenderSound, OwnerSound,
    ReclaimerSound, ActivationSound, WaveSound, Making, Admitted, Pinning, Entering, Activating,
    InWave, Owning, Pushing, At, slot, gen, Grounds
<1>7. RoleMoves(t)
  BY <1>1, <1>2, <1>3 DEF Detach, slotVars, RoleMoves, Making, Pinning, Reserving, Pushing, At,
    slot, gen, Keeps, Grounds
<1>8. QED
  BY <1>2, <1>4, <1>5, <1>6, <1>7 DEF Moves, Types, Registers

LEMMA TakeOneMoves ==
    ASSUME Inv, NEW t \in Threads, TakeOne(t)
    PROVE  Moves(t)
<1>1. Grounds(t)
  BY GroundsHold
<1>2. /\ Registers(t)
      /\ pc'[t] = pc[t]
      /\ Keeps(t)
      /\ ret'[t] = ret[t]
      /\ Len(snap'[t]) <= MaxFlush
  <2>1. /\ Len(snap[t]) < MaxFlush /\ readyCarry # <<>> /\ readyCarry \in Seq(Slots)
        /\ snap' = Set(snap, t, Append(snap[t], Head(readyCarry)))
        /\ UNCHANGED <<pc, ret, h, seen, quiet, node, mode, local, again>>
    BY <1>1 DEF TakeOne, Types, QueueTypes, Grounds
  <2>2. snap \in [Threads -> Seq(Slots)]
    BY <1>1 DEF ThreadTypes, LocalTypes, Grounds
  <2>3. /\ Append(snap[t], Head(readyCarry)) \in Seq(Slots)
        /\ Len(Append(snap[t], Head(readyCarry))) <= MaxFlush
    BY <2>1, <2>2, FlushAssumption
  <2>4. /\ snap' \in [Threads -> Seq(Slots)] /\ Len(snap'[t]) <= MaxFlush
        /\ \A u \in Threads \ {t} : snap'[u] = snap[u]
    BY <2>1, <2>2, <2>3 DEF Set
  <2>5. QED
    BY <1>1, <2>1, <2>4 DEF ThreadTypes, LocalTypes, Registers, Others, Keeps, Grounds
<1>3. UNCHANGED slotVars
  BY <1>1 DEF TakeOne, At, Set, slotVars, Grounds
<1>4. SlotTypes' /\ SlotMoves(t)
  BY <1>1, <1>3, QuietMoves DEF Types, Grounds
<1>5. QueueTypes'
  BY <1>1 DEF TakeOne, At, Set, slotVars, Types, QueueTypes, queueVars, Grounds
<1>6. ThreadSound(t)'
  BY <1>1, <1>2, <1>3 DEF TakeOne, ThreadSound, Returns, MakerSound, SenderSound, OwnerSound,
    ReclaimerSound, ActivationSound, WaveSound, Making, Admitted, Pinning, Entering, Activating,
    InWave, Owning, Pushing, At, slot, gen, Grounds
<1>7. RoleMoves(t)
  BY <1>1, <1>2, <1>3 DEF TakeOne, slotVars, RoleMoves, Making, Pinning, Reserving, Pushing, At,
    slot, gen, Keeps, Grounds
<1>8. QED
  BY <1>2, <1>4, <1>5, <1>6, <1>7 DEF Moves, Types, Registers

LEMMA UncountMoves ==
    ASSUME Inv, NEW t \in Threads, Uncount(t)
    PROVE  Moves(t) /\ Carries(t)
<1>1. Grounds(t)
  BY GroundsHold
<1>2. /\ Registers(t)
      /\ pc'[t] = "ungate"
      /\ Keeps(t)
      /\ ret'[t] = ret[t]
      /\ snap' = snap
  BY <1>1 DEF Uncount, Goto, argVars, Set, ThreadTypes, LocalTypes, Registers, Others, Keeps,
    Grounds
<1>3. UNCHANGED slotVars
  BY <1>1 DEF Uncount, At, Goto, Taken, argVars, slotVars, Set, Grounds
<1>4. SlotTypes' /\ SlotMoves(t)
  BY <1>1, <1>3, QuietMoves DEF Types, Grounds
<1>5. QueueTypes'
  <2>1. QueueTypes /\ Len(snap[t]) \in Nat
    BY <1>1 DEF Grounds, Types, ThreadTypes, LocalTypes
  <2>2. readyCount' = readyCount - Len(snap[t])
    BY DEF Uncount, Taken
  <2>3. UNCHANGED <<ready, readyCarry, draining, farm, stale>>
    BY DEF Uncount
  <2>4. QED
    BY <2>1, <2>2, <2>3 DEF QueueTypes
<1>6. ThreadSound(t)'
  BY <1>1, <1>2, <1>3 DEF Uncount, ThreadSound, Returns, MakerSound, SenderSound, OwnerSound,
    ReclaimerSound, ActivationSound, WaveSound, Making, Admitted, Pinning, Entering, Activating,
    InWave, Owning, Pushing, At, slot, gen, Grounds
<1>7. RoleMoves(t)
  BY <1>1, <1>2, <1>3 DEF Uncount, slotVars, RoleMoves, Making, Pinning, Reserving, Pushing, At,
    slot, gen, Keeps, Grounds
<1>8. Carries(t)
  BY <1>1, <1>2, <1>3 DEF Uncount, Carries, Busy, Pushing, Activating, InWave, At, queueVars
<1>9. QED
  BY <1>2, <1>4, <1>5, <1>6, <1>7, <1>8 DEF Moves, Types, Registers

LEMMA UngateMoves ==
    ASSUME Inv, NEW t \in Threads, Ungate(t)
    PROVE  Moves(t) /\ Carries(t)
<1>1. Grounds(t)
  BY GroundsHold
<1>2. CASE snap[t] = <<>>
  <2>1. /\ Registers(t)
        /\ pc'[t] = "idle"
        /\ Keeps(t)
        /\ ret'[t] = ret[t]
        /\ snap' = snap
    BY <1>2, <1>1 DEF Ungate, Goto, argVars, Set, ThreadTypes, LocalTypes, Registers, Others,
      Keeps, Grounds
  <2>2. UNCHANGED slotVars
    BY <1>2, <1>1 DEF Ungate, At, Goto, argVars, slotVars, Set, Grounds
  <2>3. SlotTypes' /\ SlotMoves(t)
    BY <1>2, <1>1, <2>2, QuietMoves DEF Types, Grounds
  <2>4. QueueTypes'
    BY <1>2, <1>1 DEF Ungate, Types, QueueTypes, queueVars, Grounds
  <2>5. ThreadSound(t)'
    BY <1>2, <1>1, <2>1, <2>2 DEF Ungate, ThreadSound, Returns, MakerSound, SenderSound,
      OwnerSound, ReclaimerSound, ActivationSound, WaveSound, Making, Admitted, Pinning,
      Entering, Activating, InWave, Owning, Pushing, At, slot, gen, Grounds
  <2>6. RoleMoves(t)
    BY <1>2, <1>1, <2>1, <2>2 DEF Ungate, slotVars, RoleMoves, Making, Pinning, Reserving,
      Pushing, At, slot, gen, Keeps, Grounds
  <2>7. Carries(t)
    BY <1>2, <1>1, <2>1, <2>2 DEF Ungate, Carries, Busy, Pushing, Activating, InWave, At,
      queueVars
  <2>8. QED
    BY <2>1, <2>3, <2>4, <2>5, <2>6, <2>7 DEF Moves, Types, Registers
<1>3. CASE snap[t] # <<>>
  <2>1. /\ Registers(t)
        /\ pc'[t] = "write"
        /\ Keeps(t)
        /\ ret'[t] = ret[t]
        /\ snap' = snap
    BY <1>3, <1>1 DEF Ungate, Goto, argVars, Set, ThreadTypes, LocalTypes, Registers, Others,
      Keeps, Grounds
  <2>2. UNCHANGED slotVars
    BY <1>3, <1>1 DEF Ungate, At, Goto, argVars, slotVars, Set, Grounds
  <2>3. SlotTypes' /\ SlotMoves(t)
    BY <1>3, <1>1, <2>2, QuietMoves DEF Types, Grounds
  <2>4. QueueTypes'
    BY <1>3, <1>1 DEF Ungate, Types, QueueTypes, queueVars, Grounds
  <2>5. ThreadSound(t)'
    BY <1>3, <1>1, <2>1, <2>2 DEF Ungate, ThreadSound, Returns, MakerSound, SenderSound,
      OwnerSound, ReclaimerSound, ActivationSound, WaveSound, Making, Admitted, Pinning,
      Entering, Activating, InWave, Owning, Pushing, At, slot, gen, Grounds
  <2>6. RoleMoves(t)
    BY <1>3, <1>1, <2>1, <2>2 DEF Ungate, slotVars, RoleMoves, Making, Pinning, Reserving,
      Pushing, At, slot, gen, Keeps, Grounds
  <2>7. Carries(t)
    BY <1>3, <1>1, <2>1, <2>2 DEF Ungate, Carries, Busy, Pushing, Activating, InWave, At,
      queueVars
  <2>8. QED
    BY <2>1, <2>3, <2>4, <2>5, <2>6, <2>7 DEF Moves, Types, Registers
<1>4. QED
  BY <1>2, <1>3

LEMMA WriteBodiesMoves ==
    ASSUME Inv, NEW t \in Threads, WriteBodies(t)
    PROVE  Moves(t)
<1>1. Grounds(t)
  BY GroundsHold
<1>2. /\ Registers(t)
      /\ pc'[t] = "pushBack"
      /\ Keeps(t)
      /\ ret'[t] = ret[t]
      /\ Len(snap'[t]) <= MaxFlush
  <2>1. PICK n \in 0 .. Len(snap[t]) : snap' = Set(snap, t, Unwritten(snap[t], n))
    BY DEF WriteBodies
  <2>2. snap \in [Threads -> Seq(Slots)] /\ Len(snap[t]) <= MaxFlush
    BY <1>1 DEF ThreadTypes, LocalTypes, ThreadSound, Returns, Grounds
  <2>3. /\ Unwritten(snap[t], n) \in Seq(Slots) /\ Len(Unwritten(snap[t], n)) <= MaxFlush
    BY <2>1, <2>2, FlushAssumption DEF Unwritten
  <2>4. /\ snap' \in [Threads -> Seq(Slots)] /\ Len(snap'[t]) <= MaxFlush
        /\ \A u \in Threads \ {t} : snap'[u] = snap[u]
    BY <2>1, <2>2, <2>3 DEF Set
  <2>5. /\ Goto(t, "pushBack")
        /\ UNCHANGED <<ret, h, seen, quiet, node, mode, local, again>>
    BY DEF WriteBodies
  <2>6. QED
    BY <1>1, <2>4, <2>5 DEF Goto, Set, ThreadTypes, LocalTypes, Registers, Others, Keeps, Grounds
<1>3. UNCHANGED slotVars
  BY <1>1 DEF WriteBodies, At, Goto, Set, Unwritten, slotVars, Grounds
<1>4. SlotTypes' /\ SlotMoves(t)
  BY <1>1, <1>3, QuietMoves DEF Types, Grounds
<1>5. QueueTypes'
  <2>1. PICK n \in 0 .. Len(snap[t]) :
          farm' = [s \in Slots |-> [g \in 0 .. MaxGen |-> farm[s][g] +
                     Cardinality({i \in 1 .. n : snap[t][i] = s /\ payload[s] = g})]]
    BY DEF WriteBodies
  <2>2. \A s \in Slots, g \in 0 .. MaxGen :
          Cardinality({i \in 1 .. n : snap[t][i] = s /\ payload[s] = g}) \in Nat
    <3>1. TAKE s \in Slots, g \in 0 .. MaxGen
    <3>2. n \in Nat
      BY <1>1, <2>1 DEF ThreadTypes, LocalTypes, Grounds
    <3>3. IsFiniteSet(1 .. n)
      BY <3>2, FS_Interval
    <3>4. QED
      BY <3>3, FS_Subset, FS_CardinalityType
  <2>3. farm' \in [Slots -> [0 .. MaxGen -> Nat]]
    <3>1. ASSUME NEW s \in Slots, NEW g \in 0 .. MaxGen PROVE farm'[s][g] \in Nat
      <4>1. farm[s][g] \in Nat
        BY <1>1 DEF Types, QueueTypes, Grounds
      <4>2. farm'[s][g] = farm[s][g] + Cardinality({i \in 1 .. n : snap[t][i]
                = s /\ payload[s] = g})
        BY <2>1
      <4>3. QED
        BY <2>2, <4>1, <4>2
    <3>2. QED
      BY <2>1, <3>1
  <2>4. QED
    BY <1>1, <2>3 DEF WriteBodies, Types, QueueTypes, Grounds
<1>6. ThreadSound(t)'
  BY <1>1, <1>2, <1>3 DEF WriteBodies, ThreadSound, Returns, MakerSound, SenderSound, OwnerSound,
    ReclaimerSound, ActivationSound, WaveSound, Making, Admitted, Pinning, Entering, Activating,
    InWave, Owning, Pushing, At, slot, gen, Grounds
<1>7. RoleMoves(t)
  BY <1>1, <1>2, <1>3 DEF WriteBodies, slotVars, RoleMoves, Making, Pinning, Reserving, Pushing,
    At, slot, gen, Keeps, Grounds
<1>8. QED
  BY <1>2, <1>4, <1>5, <1>6, <1>7 DEF Moves, Types, Registers

LEMMA PushBackMoves ==
    ASSUME Inv, NEW t \in Threads, PushBack(t)
    PROVE  Moves(t) /\ (snap[t] = <<>> => Carries(t))
<1>1. Grounds(t)
  BY GroundsHold
<1>2. CASE snap[t] = <<>>
  <2>1. /\ Registers(t)
        /\ pc'[t] = "idle"
        /\ ret'[t] = "idle"
        /\ snap' = snap
    <3>1. Return(t)
      BY <1>2 DEF PushBack
    <3>2. QED
      BY <1>1, <3>1, ReturnGoes DEF Grounds
  <2>2. UNCHANGED slotVars
    BY <1>2, <1>1 DEF PushBack, slotVars, Grounds
  <2>3. SlotTypes' /\ SlotMoves(t)
    BY <1>2, <1>1, <2>2, QuietMoves DEF Types, Grounds
  <2>4. QueueTypes'
    BY <1>2, <1>1 DEF PushBack, queueVars, Types, QueueTypes, Grounds
  <2>5. ThreadSound(t)'
    BY <1>2, <1>1, <2>1, IdleSound DEF ThreadSound, Returns, MakerSound, SenderSound, OwnerSound,
      ReclaimerSound, ActivationSound, WaveSound, PushBack, At, Pushing, Starts, Grounds
  <2>6. RoleMoves(t)
    BY <1>2, <1>1, <2>1, <2>2 DEF PushBack, slotVars, RoleMoves, Making, Pinning, Reserving,
      Pushing, At, slot, gen, Keeps, Grounds
  <2>7. Carries(t)
    BY <1>2, <1>1, <2>1, <2>2 DEF PushBack, Carries, Busy, Pushing, Activating, InWave, At,
      queueVars
  <2>8. QED
    BY <2>1, <2>3, <2>4, <2>5, <2>6, <2>7 DEF Moves, Types, Registers
<1>3. CASE snap[t] # <<>>
  <2>1. /\ Registers(t)
        /\ pc'[t] = "count"
        /\ ret'[t] = "pushBack"
        /\ slot(t)' = Head(snap[t])
        /\ Len(snap'[t]) <= MaxFlush
    <3>1. /\ h' = Set(h, t, [slot |-> Head(snap[t]), gen |-> 0])
          /\ snap' = Set(snap, t, Tail(snap[t]))
          /\ PushReady(t, "pushBack")
          /\ UNCHANGED <<seen, quiet, node, mode, local, again>>
      BY <1>3 DEF PushBack
    <3>2. snap[t] \in Seq(Slots) /\ Len(snap[t]) <= MaxFlush
      BY <1>1 DEF ThreadTypes, LocalTypes, ThreadSound, Returns, Grounds
    <3>3. /\ Head(snap[t]) \in Slots /\ Tail(snap[t]) \in Seq(Slots)
          /\ Len(Tail(snap[t])) <= MaxFlush /\ 0 \in 0 .. MaxGen
      BY <1>3, <3>2, ActorAssumption, FlushAssumption
    <3>4. ThreadTypes'
      BY <1>1, <3>1, <3>3 DEF PushReady, Goto, Set, ThreadTypes, LocalTypes, Grounds
    <3>5. Others(t) /\ snap'[t] = Tail(snap[t]) /\ slot(t)' = Head(snap[t])
      BY <1>1, <3>1 DEF PushReady, Goto, Set, ThreadTypes, LocalTypes, Others, slot, Grounds
    <3>6. QED
      BY <1>1, <3>1, <3>3, <3>4, <3>5 DEF PushReady, Goto, Set, ThreadTypes, Registers, Grounds
  <2>2. UNCHANGED slotVars
    BY <1>3, <1>1 DEF PushBack, slotVars, Grounds
  <2>3. SlotTypes' /\ SlotMoves(t)
    BY <1>3, <1>1, <2>2, QuietMoves DEF Types, Grounds
  <2>4. QueueTypes'
    BY <1>3, <1>1 DEF PushBack, queueVars, Types, QueueTypes, Grounds
  <2>5. ThreadSound(t)'
    BY <1>3, <1>1, <2>1, <2>2 DEF PushBack, ThreadSound, Returns, MakerSound, SenderSound,
      OwnerSound, ReclaimerSound, ActivationSound, WaveSound, Making, Admitted, Pinning, Entering,
      Activating, InWave, Owning, Pushing, At, slot, gen, Grounds
  <2>6. RoleMoves(t)
    BY <1>3, <1>1, <2>1, <2>2 DEF PushBack, slotVars, RoleMoves, Making, Pinning, Reserving,
      Pushing, At, slot, gen, Keeps, Grounds
  <2>7. QED
    BY <1>3, <2>1, <2>3, <2>4, <2>5, <2>6 DEF Moves, Types, Registers
<1>4. QED
  BY <1>2, <1>3

-----------------------------------------------------------------------------
(* enter.                                                                  *)

LEMMA EnterMoves ==
    ASSUME Inv, NEW t \in Threads, Enter(t)
    PROVE  Moves(t)
<1>1. Grounds(t)
  BY GroundsHold
<1>2. /\ Registers(t)
      /\ stale' = stale /\ slot(t)' \in Slots /\ pc[t] = "idle"
      /\ ret'[t] = ret[t]
      /\ pc'[t] \in {"entryGate", "run"}
      /\ seen'[t] = life[slot(t)']
      /\ gen(t)' = life[slot(t)'].gen
      /\ life[slot(t)'].phase = "scheduled"
      /\ snap' = snap
  <2>1. PICK s \in Slots, g \in 0 .. MaxGen :
          farm[s][g] > 0 /\ EnterOn(t, s, g, life[s])
    BY DEF Enter
  <2>2. g = life[s].gen /\ life[s].phase = "scheduled"
    BY <2>1 DEF Inv, TokenSound, Published
  <2>3. life[s] \in Words
    BY <1>1 DEF Types, SlotTypes, Grounds
  <2>4. /\ Registers(t) /\ snap' = snap /\ stale' = stale /\ ret'[t] = ret[t]
        /\ h'[t] = [slot |-> s, gen |-> life[s].gen] /\ seen'[t] = life[s]
        /\ pc'[t] \in {"entryGate", "run"}
    BY <1>1, <2>1, <2>2, <2>3, EnterOnGoes DEF Grounds
  <2>5. pc[t] = "idle"
    BY DEF Enter, Starts
  <2>6. QED
    BY <2>2, <2>4, <2>5 DEF slot, gen
<1>3. UNCHANGED slotVars
  BY <1>1 DEF Enter, Starts, slotVars, Grounds
<1>4. SlotTypes' /\ SlotMoves(t)
  BY <1>1, <1>3, QuietMoves DEF Types, Grounds
<1>5. QueueTypes'
  <2>1. PICK s \in Slots, g \in 0 .. MaxGen :
          farm[s][g] > 0 /\ farm' = [farm EXCEPT ![s][g] = @ - 1]
    BY DEF Enter
  <2>2. farm[s] \in [0 .. MaxGen -> Nat] /\ farm[s][g] \in Nat
    BY <1>1, <2>1 DEF Types, QueueTypes, Grounds
  <2>3. farm[s][g] - 1 \in Nat
    BY <2>1, <2>2
  <2>4. [farm[s] EXCEPT ![g] = farm[s][g] - 1] \in [0 .. MaxGen -> Nat]
    BY <2>3, <2>2
  <2>5. farm' = [farm EXCEPT ![s] = [farm[s] EXCEPT ![g] = farm[s][g] - 1]]
    BY <2>1
  <2>6. farm' \in [Slots -> [0 .. MaxGen -> Nat]]
    BY <1>1, <2>4, <2>5 DEF Types, QueueTypes, Grounds
  <2>7. QED
    BY <1>1, <1>2, <2>6 DEF Enter, Types, QueueTypes, Grounds
<1>6. ThreadSound(t)'
  BY <1>1, <1>2, <1>3 DEF Enter, slotVars, ThreadSound, Returns, MakerSound, SenderSound,
    OwnerSound, ReclaimerSound, ActivationSound, WaveSound, Making, Admitted, Pinning, Entering,
    Activating, InWave, Owning, Pushing, At, slot, gen, Keeps, Grounds
<1>7. RoleMoves(t)
  BY <1>1, <1>2, <1>3 DEF slotVars, RoleMoves, Making, Pinning, Reserving, Pushing, At, slot, gen,
    Keeps, Grounds
<1>8. QED
  BY <1>2, <1>4, <1>5, <1>6, <1>7 DEF Moves, Types, Registers

LEMMA EntryGateMoves ==
    ASSUME Inv, NEW t \in Threads, EntryGate(t)
    PROVE  Moves(t) /\ Carries(t)
<1>1. Grounds(t)
  BY GroundsHold
<1>2. /\ Registers(t)
      /\ pc'[t] = "entryInbox"
      /\ h'[t] = h[t]
      /\ seen'[t] = seen[t]
      /\ quiet'[t] => Joined(gate[slot(t)])
      /\ snap' = snap
  <2>1. Joined(gate[slot(t)]) \in BOOLEAN
    BY <1>1 DEF Joined, Grounds
  <2>2. /\ quiet' = Set(quiet, t, Joined(gate[slot(t)]))
        /\ Goto(t, "entryInbox")
        /\ UNCHANGED <<ret, h, seen, node, mode, local, again, snap>>
    BY DEF EntryGate, argVars
  <2>3. ThreadTypes'
    BY <1>1, <2>1, <2>2 DEF Goto, Set, ThreadTypes, LocalTypes, Grounds
  <2>4. Others(t) /\ quiet'[t] = Joined(gate[slot(t)])
    BY <1>1, <2>2 DEF Goto, Set, ThreadTypes, LocalTypes, Others, Grounds
  <2>5. QED
    BY <1>1, <2>2, <2>3, <2>4 DEF Registers, Goto, Set, ThreadTypes, Grounds
<1>3. UNCHANGED slotVars
  BY <1>1 DEF EntryGate, At, Goto, Set, argVars, queueVars, slot, slotVars, Grounds
<1>4. SlotTypes' /\ SlotMoves(t)
  BY <1>1, <1>3, QuietMoves DEF Types, Grounds
<1>5. QueueTypes'
  BY <1>1 DEF EntryGate, queueVars, Types, QueueTypes, Grounds
<1>6. ThreadSound(t)'
  BY <1>1, <1>2, <1>3 DEF EntryGate, slotVars, ThreadSound, Returns, MakerSound, SenderSound,
    OwnerSound, ReclaimerSound, ActivationSound, WaveSound, Making, Admitted, Pinning, Entering,
    Activating, InWave, Owning, Pushing, At, slot, gen, Keeps, Grounds
<1>7. RoleMoves(t)
  BY <1>1, <1>2, <1>3 DEF EntryGate, slotVars, RoleMoves, Making, Pinning, Reserving, Pushing, At,
    slot, gen, Keeps, Grounds
<1>8. Carries(t)
  BY <1>1, <1>2, <1>3 DEF EntryGate, Carries, Busy, Pushing, Activating, InWave, At, slot, Keeps,
    queueVars
<1>9. QED
  BY <1>2, <1>4, <1>5, <1>6, <1>7, <1>8 DEF Moves, Types, Registers

LEMMA EntryInboxMoves ==
    ASSUME Inv, NEW t \in Threads, EntryInbox(t)
    PROVE  Moves(t) /\ Carries(t)
<1>1. Grounds(t)
  BY GroundsHold
<1>2. CASE HasInbox(slot(t))
  <2>1. /\ Registers(t)
        /\ pc'[t] = "run"
        /\ Keeps(t)
        /\ ret'[t] = ret[t]
        /\ snap' = snap
    BY <1>2, <1>1 DEF EntryInbox, Goto, argVars, Set, ThreadTypes, LocalTypes, Registers, Others,
      Keeps, Grounds
  <2>2. UNCHANGED slotVars
    BY <1>2, <1>1 DEF EntryInbox, At, Goto, argVars, queueVars, slot, slotVars, Set, Grounds
  <2>3. SlotTypes' /\ SlotMoves(t)
    BY <1>2, <1>1, <2>2, QuietMoves DEF Types, Grounds
  <2>4. QueueTypes'
    BY <1>2, <1>1 DEF EntryInbox, queueVars, Types, QueueTypes, Grounds
  <2>5. ThreadSound(t)'
    BY <1>2, <1>1, <2>1, <2>2 DEF EntryInbox, slotVars, ThreadSound, Returns, MakerSound,
      SenderSound, OwnerSound, ReclaimerSound, ActivationSound, WaveSound, Making, Admitted,
      Pinning, Entering, Activating, InWave, Owning, Pushing, At, slot, gen, Keeps, Grounds
  <2>6. RoleMoves(t)
    BY <1>2, <1>1, <2>1, <2>2 DEF EntryInbox, slotVars, RoleMoves, Making, Pinning, Reserving,
      Pushing, At, slot, gen, Keeps, Grounds
  <2>7. Carries(t)
    BY <1>2, <1>1, <2>1, <2>2 DEF EntryInbox, Carries, Busy, Pushing, Activating, InWave, At,
      slot, Keeps, queueVars
  <2>8. QED
    BY <2>1, <2>3, <2>4, <2>5, <2>6, <2>7 DEF Moves, Types, Registers
<1>3. CASE ~HasInbox(slot(t)) /\ quiet[t]
  <2>1. /\ Registers(t)
        /\ pc'[t] = "retireNow"
        /\ Keeps(t)
        /\ ret'[t] = ret[t]
        /\ snap' = snap
    BY <1>3, <1>1 DEF EntryInbox, Goto, argVars, Set, ThreadTypes, LocalTypes, Registers, Others,
      Keeps, Grounds
  <2>2. UNCHANGED slotVars
    BY <1>3, <1>1 DEF EntryInbox, At, Goto, argVars, queueVars, slot, slotVars, Set, Grounds
  <2>3. SlotTypes' /\ SlotMoves(t)
    BY <1>3, <1>1, <2>2, QuietMoves DEF Types, Grounds
  <2>4. QueueTypes'
    BY <1>3, <1>1 DEF EntryInbox, queueVars, Types, QueueTypes, Grounds
  <2>5. ThreadSound(t)'
    BY <1>3, <1>1, <2>1, <2>2 DEF EntryInbox, slotVars, SlotSound, ThreadSound, Returns,
      MakerSound, SenderSound, OwnerSound, ReclaimerSound, ActivationSound, WaveSound, Making,
      Admitted, Pinning, Reserving, Entering, Activating, InWave, Owning, Pushing, Busy, At,
      slot, gen, Joined, Drained, Awaited, Heard, Untouched, RetireOpens, Reclaimable, HasInbox,
      Active, Word, retireModeMask, retainedMask, Keeps, Others, Registers, Confirms, Unmoved,
      Types, SlotTypes, QueueTypes, ThreadTypes, LocalTypes, Words, Starts, Scheduled, Signals,
      Queues, Grounds
  <2>6. RoleMoves(t)
    BY <1>3, <1>1, <2>1, <2>2 DEF EntryInbox, slotVars, RoleMoves, Making, Pinning, Reserving,
      Pushing, At, slot, gen, Keeps, Grounds
  <2>7. Carries(t)
    BY <1>3, <1>1, <2>1, <2>2 DEF EntryInbox, Carries, Busy, Pushing, Activating, InWave, At,
      slot, Keeps, queueVars
  <2>8. QED
    BY <2>1, <2>3, <2>4, <2>5, <2>6, <2>7 DEF Moves, Types, Registers
<1>4. CASE ~HasInbox(slot(t)) /\ ~quiet[t]
  <2>1. /\ Registers(t)
        /\ pc'[t] = "requeue"
        /\ Keeps(t)
        /\ ret'[t] = ret[t]
        /\ snap' = snap
    BY <1>4, <1>1 DEF EntryInbox, Goto, argVars, Set, ThreadTypes, LocalTypes, Registers, Others,
      Keeps, Grounds
  <2>2. UNCHANGED slotVars
    BY <1>4, <1>1 DEF EntryInbox, At, Goto, argVars, queueVars, slot, slotVars, Set, Grounds
  <2>3. SlotTypes' /\ SlotMoves(t)
    BY <1>4, <1>1, <2>2, QuietMoves DEF Types, Grounds
  <2>4. QueueTypes'
    BY <1>4, <1>1 DEF EntryInbox, queueVars, Types, QueueTypes, Grounds
  <2>5. ThreadSound(t)'
    BY <1>4, <1>1, <2>1, <2>2 DEF EntryInbox, slotVars, ThreadSound, Returns, MakerSound,
      SenderSound, OwnerSound, ReclaimerSound, ActivationSound, WaveSound, Making, Admitted,
      Pinning, Entering, Activating, InWave, Owning, Pushing, At, slot, gen, Keeps, Grounds
  <2>6. RoleMoves(t)
    BY <1>4, <1>1, <2>1, <2>2 DEF EntryInbox, slotVars, RoleMoves, Making, Pinning, Reserving,
      Pushing, At, slot, gen, Keeps, Grounds
  <2>7. Carries(t)
    BY <1>4, <1>1, <2>1, <2>2 DEF EntryInbox, Carries, Busy, Pushing, Activating, InWave, At,
      slot, Keeps, queueVars
  <2>8. QED
    BY <2>1, <2>3, <2>4, <2>5, <2>6, <2>7 DEF Moves, Types, Registers
<1>5. QED
  BY <1>2, <1>3, <1>4

LEMMA RunMoves ==
    ASSUME Inv, NEW t \in Threads, Run(t)
    PROVE  Moves(t) /\ Carries(t)
<1>1. Grounds(t)
  BY GroundsHold
<1>2. CASE life[slot(t)] = seen[t]
  <2>1. /\ Registers(t)
        /\ pc'[t] = "callback"
        /\ h'[t] = h[t]
        /\ snap' = snap
    <3>1. /\ Goto(t, "callback")
          /\ local' = Set(local, t, carry[slot(t)])
          /\ seen' = Set(seen, t, NoWord)
          /\ quiet' = Set(quiet, t, FALSE)
          /\ UNCHANGED <<ret, h, node, mode, again, snap>>
      BY <1>2 DEF Run, EntryCas
    <3>2. carry[slot(t)] \in Seq(Nodes) /\ NoWord \in Words
      BY <1>1, NoWordTyped DEF Types, SlotTypes, Grounds
    <3>3. ThreadTypes'
      BY <1>1, <3>1, <3>2 DEF Goto, Set, ThreadTypes, LocalTypes, Grounds
    <3>4. Others(t) /\ pc'[t] = "callback"
      BY <1>1, <3>1 DEF Goto, Set, ThreadTypes, LocalTypes, Others, Grounds
    <3>5. QED
      BY <3>1, <3>3, <3>4 DEF Registers
  <2>2. /\ UNCHANGED <<gate, inbox, waveOwner, state, payload, free, nodeState>>
        /\ life' = [r \in Slots |-> IF r = slot(t)
               THEN Word(gen(t), "running", seen[t].flags \cap retainedMask) ELSE life[r]]
        /\ carry' = [r \in Slots |-> IF r = slot(t) THEN <<>> ELSE carry[r]]
    BY <1>2, <1>1 DEF Run, At, EntryCas, Set, slot, SlotTypes, Types, Grounds
  <2>3. life' \in [Slots -> Words]
    BY <1>2, ActorAssumption, <1>1, <2>2 DEF Types, SlotTypes, Words, Word, Phases, Flags,
      retainedMask, ThreadTypes, LocalTypes, Grounds
  <2>4. carry' \in [Slots -> Seq(Nodes)]
    BY <1>2, ActorAssumption, <1>1, <2>2 DEF Types, SlotTypes, retainedMask, ThreadTypes,
      LocalTypes, Grounds
  <2>5. SlotTypes'
    BY <1>2, <1>1, <2>2, <2>3, <2>4 DEF Types, SlotTypes, Grounds
  <2>6. /\ \A r \in Slots : r # slot(t) => life'[r] = life[r] /\ carry'[r] = carry[r]
        /\ life'[slot(t)] = Word(gen(t), "running", seen[t].flags \cap retainedMask)
        /\ carry'[slot(t)] = <<>>
    BY <1>2, <1>1, <2>2 DEF Grounds
  <2>7. Advances(t, slot(t))
    BY <1>2, <1>1, <2>1, <2>6 DEF Advances, Same, Step, Word, Run, ThreadSound, At, slot, gen,
      ActivationSound, Entering, Busy, Activating, Pushing, retainedMask, Grounds
  <2>8. \A r \in Slots : LifeMoves(t, r)
    BY <1>2, <2>7, <2>2, <2>6 DEF LifeMoves, Keep
  <2>9. Works(t, slot(t))
    BY <1>2, <1>1, <2>1, <2>6 DEF Works, Run, ThreadSound, At, slot, gen, Activating, Word,
      Grounds
  <2>10. \A r \in Slots : InboxMoves(t, r)
    BY <1>2, <2>9, <2>2, <2>6 DEF InboxMoves
  <2>11. \A r \in Slots :
           /\ GateMoves(t, r) /\ OwnerMoves(t, r)
           /\ StateMoves(t, r) /\ FreeMoves(t, r)
    BY <1>2, <2>2, <2>6 DEF GateMoves, OwnerMoves, StateMoves, FreeMoves
  <2>12. SlotMoves(t)
    BY <1>2, <2>8, <2>11, <2>10 DEF SlotMoves
  <2>13. QueueTypes'
    BY <1>2, <1>1 DEF Run, EntryCas, EnterOn, Stale, Types, QueueTypes, queueVars, Grounds
  <2>14. ThreadSound(t)'
    BY <1>2, <1>1, <2>1, <2>2 DEF Run, slotVars, ThreadSound, Returns, MakerSound, SenderSound,
      OwnerSound, ReclaimerSound, ActivationSound, WaveSound, Making, Admitted, Pinning, Entering,
      Activating, InWave, Owning, Pushing, At, slot, gen, Word, Keeps, Grounds
  <2>15. RoleMoves(t)
    BY <1>2, <1>1, <2>1, <2>2 DEF Run, slotVars, RoleMoves, Making, Pinning, Reserving, Pushing,
      At, slot, gen, Keeps, Grounds
  <2>16. Carries(t)
    BY <1>2, <1>1, <2>1, <2>2, <2>7 DEF Run, Carries, Busy, Pushing, Activating, InWave, At, slot,
      Keeps, queueVars, EntryCas, EnterOn, Stale
  <2>17. QED
    BY <2>1, <2>5, <2>12, <2>13, <2>14, <2>15, <2>16 DEF Moves, Types, Registers
<1>3. CASE life[slot(t)] # seen[t]
  <2>1. /\ Registers(t)
        /\ stale' = stale
        /\ ret'[t] = ret[t]
        /\ pc'[t] \in {"entryGate", "run"}
        /\ seen'[t] = life[slot(t)]
        /\ h'[t] = h[t]
        /\ snap' = snap
    <3>1. life[slot(t)].gen = gen(t) /\ life[slot(t)].phase = "scheduled"
      BY <1>1 DEF Run, ThreadSound, ActivationSound, Entering, At, Grounds
    <3>2. EnterOn(t, slot(t), life[slot(t)].gen, life[slot(t)])
      BY <1>3, <3>1 DEF Run, EntryCas
    <3>3. /\ Registers(t) /\ snap' = snap /\ stale' = stale /\ ret'[t] = ret[t]
          /\ h'[t] = [slot |-> slot(t), gen |-> life[slot(t)].gen] /\ seen'[t] = life[slot(t)]
          /\ pc'[t] \in {"entryGate", "run"}
      BY <1>1, <3>1, <3>2, EnterOnGoes DEF Grounds
    <3>4. h'[t] = h[t]
      BY <1>1, <3>1, <3>3 DEF slot, gen, Grounds
    <3>5. QED
      BY <3>3, <3>4
  <2>2. UNCHANGED slotVars
    BY <1>3, <1>1 DEF Run, EntryCas, slotVars, Grounds
  <2>3. SlotTypes' /\ SlotMoves(t)
    BY <1>3, <1>1, <2>2, QuietMoves DEF Types, Grounds
  <2>4. QueueTypes'
    BY <1>1, <2>1 DEF Run, Types, QueueTypes, Grounds
  <2>5. ThreadSound(t)'
    BY <1>3, <1>1, <2>1, <2>2 DEF Run, slotVars, ThreadSound, Returns, MakerSound, SenderSound,
      OwnerSound, ReclaimerSound, ActivationSound, WaveSound, Making, Admitted, Pinning, Entering,
      Activating, InWave, Owning, Pushing, At, slot, gen, RetireOpens, Reclaimable, Active, Word,
      retireModeMask, retainedMask, Keeps, Confirms, Starts, Scheduled, Signals, Queues, Grounds
  <2>6. RoleMoves(t)
    BY <1>3, <1>1, <2>1, <2>2 DEF Run, slotVars, RoleMoves, Making, Pinning, Reserving, Pushing,
      At, slot, gen, Keeps, Grounds
  <2>7. Carries(t)
    BY <1>3, <1>1, <2>1, <2>2 DEF Run, Carries, Busy, Pushing, Activating, InWave, At, slot,
      Keeps, queueVars
  <2>8. QED
    BY <2>1, <2>3, <2>4, <2>5, <2>6, <2>7 DEF Moves, Types, Registers
<1>4. QED
  BY <1>2, <1>3

LEMMA RetireNowMoves ==
    ASSUME Inv, NEW t \in Threads, RetireNow(t)
    PROVE  Moves(t) /\ Carries(t)
<1>1. Grounds(t)
  BY GroundsHold
<1>2. CASE life[slot(t)] = seen[t]
  <2>1. /\ Registers(t)
        /\ pc'[t] = "idle"
        /\ ret'[t] = "idle"
        /\ snap' = snap
    <3>1. Return(t)
      BY <1>2 DEF RetireNow, EntryCas
    <3>2. QED
      BY <1>1, <3>1, ReturnGoes DEF Grounds
  <2>2. /\ UNCHANGED <<gate, inbox, carry, waveOwner, state, payload, free, nodeState>>
        /\ life' = [r \in Slots |-> IF r = slot(t)
               THEN Word(gen(t), "retired", seen[t].flags \cap {"op"}) ELSE life[r]]
    BY <1>2, <1>1 DEF RetireNow, At, EntryCas, Set, slot, SlotTypes, Types, Grounds
  <2>3. life' \in [Slots -> Words]
    BY <1>2, ActorAssumption, <1>1, <2>2 DEF Types, SlotTypes, Words, Word, Phases, Flags,
      ThreadTypes, LocalTypes, Grounds
  <2>4. SlotTypes'
    BY <1>2, <1>1, <2>2, <2>3 DEF Types, SlotTypes, Grounds
  <2>5. /\ \A r \in Slots : r # slot(t) => life'[r] = life[r]
        /\ life'[slot(t)] = Word(gen(t), "retired", seen[t].flags \cap {"op"})
    BY <1>2, <1>1, <2>2 DEF Grounds
  <2>6. Advances(t, slot(t))
    BY <1>2, <1>1, <2>1, <2>5 DEF Advances, Same, Step, Word, RetireNow, ThreadSound, At, slot,
      gen, ActivationSound, Entering, Busy, Activating, Pushing, Grounds
  <2>7. \A r \in Slots : LifeMoves(t, r)
    BY <1>2, <2>6, <2>2, <2>5 DEF LifeMoves, Keep
  <2>8. \A r \in Slots :
          /\ GateMoves(t, r) /\ InboxMoves(t, r) /\ OwnerMoves(t, r)
          /\ StateMoves(t, r) /\ FreeMoves(t, r)
    BY <1>2, <2>2, <2>5 DEF GateMoves, InboxMoves, OwnerMoves, StateMoves, FreeMoves
  <2>9. SlotMoves(t)
    BY <1>2, <2>7, <2>8 DEF SlotMoves
  <2>10. QueueTypes'
    BY <1>2, <1>1 DEF RetireNow, EntryCas, EnterOn, Stale, Types, QueueTypes, queueVars, Grounds
  <2>11. ThreadSound(t)'
    BY <1>2, <1>1, <2>1, IdleSound DEF ThreadSound, Returns, MakerSound, SenderSound, OwnerSound,
      ReclaimerSound, ActivationSound, WaveSound, RetireNow, At, Pushing, Starts, Grounds
  <2>12. RoleMoves(t)
    BY <1>2, <1>1, <2>1, <2>2 DEF RetireNow, slotVars, RoleMoves, Making, Pinning, Reserving,
      Pushing, At, slot, gen, Keeps, Grounds
  <2>13. Carries(t)
    BY <1>2, <1>1, <2>1, <2>2, <2>6 DEF RetireNow, Carries, Busy, Pushing, Activating, InWave, At,
      slot, Keeps, queueVars, EntryCas, EnterOn, Stale, Word, Scheduled, Advances, Same, Step,
      Grounds
  <2>14. QED
    BY <2>1, <2>4, <2>9, <2>10, <2>11, <2>12, <2>13 DEF Moves, Types, Registers
<1>3. CASE life[slot(t)] # seen[t]
  <2>1. /\ Registers(t)
        /\ stale' = stale
        /\ ret'[t] = ret[t]
        /\ pc'[t] \in {"entryGate", "run"}
        /\ seen'[t] = life[slot(t)]
        /\ h'[t] = h[t]
        /\ snap' = snap
    <3>1. life[slot(t)].gen = gen(t) /\ life[slot(t)].phase = "scheduled"
      BY <1>1 DEF RetireNow, ThreadSound, ActivationSound, Entering, At, Grounds
    <3>2. EnterOn(t, slot(t), life[slot(t)].gen, life[slot(t)])
      BY <1>3, <3>1 DEF RetireNow, EntryCas
    <3>3. /\ Registers(t) /\ snap' = snap /\ stale' = stale /\ ret'[t] = ret[t]
          /\ h'[t] = [slot |-> slot(t), gen |-> life[slot(t)].gen] /\ seen'[t] = life[slot(t)]
          /\ pc'[t] \in {"entryGate", "run"}
      BY <1>1, <3>1, <3>2, EnterOnGoes DEF Grounds
    <3>4. h'[t] = h[t]
      BY <1>1, <3>1, <3>3 DEF slot, gen, Grounds
    <3>5. QED
      BY <3>3, <3>4
  <2>2. UNCHANGED slotVars
    BY <1>3, <1>1 DEF RetireNow, EntryCas, slotVars, Grounds
  <2>3. SlotTypes' /\ SlotMoves(t)
    BY <1>3, <1>1, <2>2, QuietMoves DEF Types, Grounds
  <2>4. QueueTypes'
    BY <1>1, <2>1 DEF RetireNow, Types, QueueTypes, Grounds
  <2>5. ThreadSound(t)'
    BY <1>3, <1>1, <2>1, <2>2 DEF RetireNow, slotVars, ThreadSound, Returns, MakerSound,
      SenderSound, OwnerSound, ReclaimerSound, ActivationSound, WaveSound, Making, Admitted,
      Pinning, Entering, Activating, InWave, Owning, Pushing, At, slot, gen, Keeps, Grounds
  <2>6. RoleMoves(t)
    BY <1>3, <1>1, <2>1, <2>2 DEF RetireNow, slotVars, RoleMoves, Making, Pinning, Reserving,
      Pushing, At, slot, gen, Keeps, Grounds
  <2>7. Carries(t)
    BY <1>3, <1>1, <2>1, <2>2 DEF RetireNow, Carries, Busy, Pushing, Activating, InWave, At, slot,
      Keeps, queueVars
  <2>8. QED
    BY <2>1, <2>3, <2>4, <2>5, <2>6, <2>7 DEF Moves, Types, Registers
<1>4. QED
  BY <1>2, <1>3

LEMMA RequeueMoves ==
    ASSUME Inv, NEW t \in Threads, Requeue(t)
    PROVE  Moves(t) /\ Carries(t)
<1>1. Grounds(t)
  BY GroundsHold
<1>2. CASE life[slot(t)] = seen[t]
  <2>1. /\ Registers(t)
        /\ pc'[t] = "count"
        /\ ret'[t] = "idle"
        /\ h'[t] = h[t]
        /\ snap' = snap
    <3>1. PushReady(t, "idle") /\ Forget(t) /\ h' = h
      BY <1>2 DEF Requeue, EntryCas
    <3>2. LocalTypes' /\ OthersLocal(t) /\ snap' = snap
      BY <1>1, <3>1, Forgets DEF ThreadTypes, Grounds
    <3>3. QED
      BY <1>1, <3>1, <3>2, PushReadyGoes DEF Grounds
  <2>2. /\ UNCHANGED <<gate, inbox, carry, waveOwner, state, payload, free, nodeState>>
        /\ life' = [r \in Slots |-> IF r = slot(t) THEN Scheduled(life[r]) ELSE life[r]]
    BY <1>2, <1>1 DEF Requeue, At, EntryCas, Set, slot, SlotTypes, Types, Grounds
  <2>3. life' \in [Slots -> Words]
    BY <1>2, ActorAssumption, <1>1, <2>2 DEF Types, SlotTypes, Words, Word, Phases, Flags,
      Scheduled, retainedMask, Grounds
  <2>4. SlotTypes'
    BY <1>2, <1>1, <2>2, <2>3 DEF Types, SlotTypes, Grounds
  <2>5. /\ \A r \in Slots : r # slot(t) => life'[r] = life[r]
        /\ life'[slot(t)] = Scheduled(life[slot(t)])
    BY <1>2, <1>1, <2>2 DEF Grounds
  <2>6. Advances(t, slot(t))
    BY <1>2, <1>1, <2>1, <2>5 DEF Advances, Same, Step, Word, Requeue, ThreadSound, At, slot, gen,
      ActivationSound, Entering, Busy, Activating, Pushing, Scheduled, retainedMask, Grounds
  <2>7. \A r \in Slots : LifeMoves(t, r)
    BY <1>2, <2>6, <2>2, <2>5 DEF LifeMoves, Keep
  <2>8. \A r \in Slots :
          /\ GateMoves(t, r) /\ InboxMoves(t, r) /\ OwnerMoves(t, r)
          /\ StateMoves(t, r) /\ FreeMoves(t, r)
    BY <1>2, <2>2, <2>5 DEF GateMoves, InboxMoves, OwnerMoves, StateMoves, FreeMoves
  <2>9. SlotMoves(t)
    BY <1>2, <2>7, <2>8 DEF SlotMoves
  <2>10. QueueTypes'
    BY <1>2, <1>1 DEF Requeue, EntryCas, EnterOn, Stale, Types, QueueTypes, queueVars, Grounds
  <2>11. ThreadSound(t)'
    BY <1>2, <1>1, <2>1, <2>2 DEF Requeue, ThreadSound, Returns, MakerSound, SenderSound,
      OwnerSound, ReclaimerSound, ActivationSound, WaveSound, Making, Admitted, Pinning, Entering,
      Activating, InWave, Owning, Pushing, At, slot, gen, Grounds
  <2>12. RoleMoves(t)
    BY <1>2, <1>1, <2>1, <2>2 DEF Requeue, slotVars, RoleMoves, Making, Pinning, Reserving,
      Pushing, At, slot, gen, Keeps, Grounds
  <2>13. Carries(t)
    BY <1>2, <1>1, <2>1, <2>2, <2>6 DEF Requeue, Carries, Busy, Pushing, Activating, InWave, At,
      slot, Keeps, queueVars, EntryCas, EnterOn, Stale, Word, Scheduled, Advances, Same, Step,
      Grounds
  <2>14. QED
    BY <2>1, <2>4, <2>9, <2>10, <2>11, <2>12, <2>13 DEF Moves, Types, Registers
<1>3. CASE life[slot(t)] # seen[t]
  <2>1. /\ Registers(t)
        /\ stale' = stale
        /\ ret'[t] = ret[t]
        /\ pc'[t] \in {"entryGate", "run"}
        /\ seen'[t] = life[slot(t)]
        /\ h'[t] = h[t]
        /\ snap' = snap
    <3>1. life[slot(t)].gen = gen(t) /\ life[slot(t)].phase = "scheduled"
      BY <1>1 DEF Requeue, ThreadSound, ActivationSound, Entering, At, Grounds
    <3>2. EnterOn(t, slot(t), life[slot(t)].gen, life[slot(t)])
      BY <1>3, <3>1 DEF Requeue, EntryCas
    <3>3. /\ Registers(t) /\ snap' = snap /\ stale' = stale /\ ret'[t] = ret[t]
          /\ h'[t] = [slot |-> slot(t), gen |-> life[slot(t)].gen] /\ seen'[t] = life[slot(t)]
          /\ pc'[t] \in {"entryGate", "run"}
      BY <1>1, <3>1, <3>2, EnterOnGoes DEF Grounds
    <3>4. h'[t] = h[t]
      BY <1>1, <3>1, <3>3 DEF slot, gen, Grounds
    <3>5. QED
      BY <3>3, <3>4
  <2>2. UNCHANGED slotVars
    BY <1>3, <1>1 DEF Requeue, EntryCas, slotVars, Grounds
  <2>3. SlotTypes' /\ SlotMoves(t)
    BY <1>3, <1>1, <2>2, QuietMoves DEF Types, Grounds
  <2>4. QueueTypes'
    BY <1>1, <2>1 DEF Requeue, Types, QueueTypes, Grounds
  <2>5. ThreadSound(t)'
    BY <1>3, <1>1, <2>1, <2>2 DEF Requeue, slotVars, ThreadSound, Returns, MakerSound,
      SenderSound, OwnerSound, ReclaimerSound, ActivationSound, WaveSound, Making, Admitted,
      Pinning, Entering, Activating, InWave, Owning, Pushing, At, slot, gen, Keeps, Grounds
  <2>6. RoleMoves(t)
    BY <1>3, <1>1, <2>1, <2>2 DEF Requeue, slotVars, RoleMoves, Making, Pinning, Reserving,
      Pushing, At, slot, gen, Keeps, Grounds
  <2>7. Carries(t)
    BY <1>3, <1>1, <2>1, <2>2 DEF Requeue, Carries, Busy, Pushing, Activating, InWave, At, slot,
      Keeps, queueVars
  <2>8. QED
    BY <2>1, <2>3, <2>4, <2>5, <2>6, <2>7 DEF Moves, Types, Registers
<1>4. QED
  BY <1>2, <1>3

LEMMA PopMoves ==
    ASSUME Inv, NEW t \in Threads, Pop(t)
    PROVE  Moves(t) /\ Carries(t)
<1>1. Grounds(t)
  BY GroundsHold
<1>2. /\ Registers(t)
      /\ pc'[t] = "process"
      /\ h'[t] = h[t]
      /\ node'[t] \in Nodes
      /\ snap' = snap
  <2> DEFINE nodes == IF local[t] = <<>> THEN Detached(inbox[slot(t)]) ELSE local[t]
  <2>1. nodes \in Seq(Nodes) /\ nodes # <<>>
    <3>1. nodes # <<>>
      BY DEF Pop
    <3>2. inbox[slot(t)] \in Seq(Nodes) /\ local[t] \in Seq(Nodes)
      BY <1>1 DEF Types, SlotTypes, ThreadTypes, LocalTypes, Grounds
    <3>3. QED
      BY <3>1, <3>2, DetachedTyped
  <2>2. Head(nodes) \in Nodes /\ Tail(nodes) \in Seq(Nodes)
    BY <2>1
  <2>3. /\ node' = Set(node, t, Head(nodes)) /\ local' = Set(local, t, Tail(nodes))
        /\ Goto(t, "process")
        /\ UNCHANGED <<ret, h, seen, quiet, mode, again, snap>>
    BY DEF Pop
  <2> HIDE DEF nodes
  <2>4. ThreadTypes'
    BY <1>1, <2>2, <2>3 DEF Goto, Set, ThreadTypes, LocalTypes, Grounds
  <2>5. Others(t) /\ node'[t] = Head(nodes)
    BY <1>1, <2>3 DEF Goto, Set, ThreadTypes, LocalTypes, Others, Grounds
  <2>6. QED
    BY <1>1, <2>2, <2>3, <2>4, <2>5 DEF Goto, Set, ThreadTypes, Registers, Grounds
<1>3. /\ UNCHANGED <<life, gate, carry, waveOwner, state, payload, free>>
      /\ nodeState' \in [Nodes -> {"free", "queued", "processing"}]
      /\ inbox' \in [Slots -> Seq(Nodes)]
      /\ \A r \in Slots : r # slot(t) => inbox'[r] = inbox[r]
  <2>1. UNCHANGED <<life, gate, carry, waveOwner, state, payload, free>>
    BY DEF Pop
  <2>2. nodeState' \in [Nodes -> {"free", "queued", "processing"}]
    <3>1. PICK n : nodeState' = Set(nodeState, n, "processing")
      BY DEF Pop
    <3>2. QED
      BY <1>1, <3>1 DEF Types, SlotTypes, Set, Grounds
  <2>3. PICK q \in {<<>>, inbox[slot(t)]} : inbox' = Set(inbox, slot(t), q)
    BY DEF Pop
  <2>4. q \in Seq(Nodes)
    <3>1. inbox[slot(t)] \in Seq(Nodes) /\ <<>> \in Seq(Nodes)
      BY <1>1 DEF Types, SlotTypes, Grounds
    <3>2. QED
      BY <2>3, <3>1
  <2>5. inbox' \in [Slots -> Seq(Nodes)] /\ \A r \in Slots : r # slot(t) => inbox'[r] = inbox[r]
    BY <1>1, <2>3, <2>4 DEF Types, SlotTypes, Set, Grounds
  <2>6. QED
    BY <2>1, <2>2, <2>5
<1>4. /\ At(t, "callback") /\ Activating(t) /\ snap[t] = <<>> /\ Len(snap[t]) <= MaxFlush
      /\ life[slot(t)].gen = gen(t) /\ life[slot(t)].phase = "running"
  BY <1>1 DEF Pop, ThreadSound, Returns, ActivationSound, Activating, Entering, Pushing, At,
    Grounds
<1>5. SlotTypes' /\ SlotMoves(t)
  <2>1. \A r \in Slots : /\ LifeMoves(t, r) /\ GateMoves(t, r) /\ OwnerMoves(t, r)
                        /\ StateMoves(t, r) /\ FreeMoves(t, r)
    BY <1>3 DEF LifeMoves, Keep, GateMoves, OwnerMoves, StateMoves, FreeMoves
  <2>2. \A r \in Slots : InboxMoves(t, r)
    BY <1>3, <1>4 DEF InboxMoves, Works
  <2>3. SlotTypes'
    BY <1>1, <1>3 DEF Types, SlotTypes, Grounds
  <2>4. QED
    BY <2>1, <2>2, <2>3 DEF SlotMoves
<1>6. QueueTypes'
  BY <1>1 DEF Pop, queueVars, Types, QueueTypes, Grounds
<1>7. ThreadSound(t)'
  BY <1>2, <1>3, <1>4 DEF ThreadSound, Returns, MakerSound, SenderSound, OwnerSound,
    ReclaimerSound, ActivationSound, WaveSound, Making, Admitted, Pinning, Entering, Activating,
    InWave, Owning, Pushing, At, slot, gen
<1>8. RoleMoves(t)
  BY <1>2, <1>4 DEF RoleMoves, Making, Pinning, Reserving, Pushing, At
<1>9. Carries(t)
  BY <1>2, <1>4, <1>1 DEF Pop, Carries, Busy, Pushing, Activating, InWave, At, slot, Keeps,
    queueVars
<1>10. QED
  BY <1>2, <1>5, <1>6, <1>7, <1>8, <1>9 DEF Moves, Types, Registers

LEMMA CompleteNodeMoves ==
    ASSUME Inv, NEW t \in Threads, CompleteNode(t)
    PROVE  Moves(t) /\ Carries(t)
<1>1. Grounds(t)
  BY GroundsHold
<1>2. /\ Registers(t)
      /\ pc'[t] = "callback"
      /\ h'[t] = h[t]
      /\ snap' = snap
  BY <1>1 DEF CompleteNode, Goto, Set, ThreadTypes, LocalTypes, Registers, Others, Keeps, Grounds
<1>3. /\ UNCHANGED <<life, gate, inbox, carry, waveOwner, state, payload, free>>
      /\ nodeState' \in [Nodes -> {"free", "queued", "processing"}]
  BY <1>1 DEF CompleteNode, At, Set, Types, SlotTypes, Grounds
<1>4. SlotTypes' /\ SlotMoves(t)
  BY <1>1, <1>3 DEF Types, SlotTypes, SlotMoves, LifeMoves, Keep, GateMoves, InboxMoves, Works,
    OwnerMoves, StateMoves, FreeMoves, Grounds
<1>5. QueueTypes'
  BY <1>1 DEF CompleteNode, At, Goto, Set, queueVars, Types, QueueTypes, Grounds
<1>6. ThreadSound(t)'
  BY <1>1, <1>2, <1>3 DEF CompleteNode, ThreadSound, Returns, MakerSound, SenderSound, OwnerSound,
    ReclaimerSound, ActivationSound, WaveSound, Making, Admitted, Pinning, Entering, Activating,
    InWave, Owning, Pushing, At, slot, gen, Grounds
<1>7. RoleMoves(t)
  BY <1>1, <1>2, <1>3 DEF CompleteNode, slotVars, RoleMoves, Making, Pinning, Reserving, Pushing,
    At, slot, gen, Keeps, Grounds
<1>8. Carries(t)
  BY <1>1, <1>2, <1>3 DEF CompleteNode, Carries, Busy, Pushing, Activating, InWave, At, slot,
    Keeps, queueVars
<1>9. QED
  BY <1>2, <1>4, <1>5, <1>6, <1>7, <1>8 DEF Moves, Types, Registers

LEMMA EndCallbackMoves ==
    ASSUME Inv, NEW t \in Threads, EndCallback(t)
    PROVE  Moves(t) /\ Carries(t)
<1>1. Grounds(t)
  BY GroundsHold
<1>2. /\ Registers(t)
      /\ pc'[t] \in {"mark", "exit"}
      /\ h'[t] = h[t]
      /\ snap' = snap
  BY <1>1 DEF EndCallback, Goto, Set, ThreadTypes, LocalTypes, Registers, Others, Keeps, Grounds
<1>3. /\ UNCHANGED <<life, gate, inbox, waveOwner, state, payload, free, nodeState>>
      /\ carry' = [r \in Slots |-> IF r = slot(t) THEN local[t] ELSE carry[r]]
  BY <1>1 DEF EndCallback, At, Goto, Set, queueVars, slot, SlotTypes, Types, Grounds
<1>4. carry' \in [Slots -> Seq(Nodes)]
  BY ActorAssumption, <1>1, <1>3 DEF Types, SlotTypes, ThreadTypes, LocalTypes, Grounds
<1>5. SlotTypes'
  BY <1>1, <1>3, <1>4 DEF Types, SlotTypes, Grounds
<1>6. /\ \A r \in Slots : r # slot(t) => carry'[r] = carry[r]
      /\ carry'[slot(t)] = local[t]
  BY <1>1, <1>3 DEF Grounds
<1>7. \A r \in Slots : LifeMoves(t, r)
  BY <1>3, <1>6 DEF LifeMoves, Keep
<1>8. Works(t, slot(t))
  BY <1>1, <1>2, <1>6 DEF Works, EndCallback, ThreadSound, At, slot, gen, ActivationSound,
    Activating, Entering, Grounds
<1>9. \A r \in Slots : InboxMoves(t, r)
  BY <1>8, <1>3, <1>6 DEF InboxMoves
<1>10. \A r \in Slots :
         /\ GateMoves(t, r) /\ OwnerMoves(t, r)
         /\ StateMoves(t, r) /\ FreeMoves(t, r)
  BY <1>3, <1>6 DEF GateMoves, OwnerMoves, StateMoves, FreeMoves
<1>11. SlotMoves(t)
  BY <1>7, <1>10, <1>9 DEF SlotMoves
<1>12. QueueTypes'
  BY <1>1 DEF EndCallback, At, Goto, Set, queueVars, slot, Types, QueueTypes, Grounds
<1>13. ThreadSound(t)'
  BY <1>1, <1>2, <1>3 DEF EndCallback, ThreadSound, Returns, MakerSound, SenderSound, OwnerSound,
    ReclaimerSound, ActivationSound, WaveSound, Making, Admitted, Pinning, Entering, Activating,
    InWave, Owning, Pushing, At, slot, gen, Grounds
<1>14. RoleMoves(t)
  BY <1>1, <1>2, <1>3 DEF EndCallback, slotVars, RoleMoves, Making, Pinning, Reserving, Pushing,
    At, slot, gen, Keeps, Grounds
<1>15. Carries(t)
  BY <1>1, <1>2, <1>3 DEF EndCallback, Carries, Busy, Pushing, Activating, InWave, At, slot,
    Keeps, queueVars
<1>16. QED
  BY <1>2, <1>5, <1>11, <1>12, <1>13, <1>14, <1>15 DEF Moves, Types, Registers

LEMMA MarkRetiringMoves ==
    ASSUME Inv, NEW t \in Threads, MarkRetiring(t)
    PROVE  Moves(t) /\ Carries(t)
<1>1. Grounds(t)
  BY GroundsHold
<1>2. life' = [life EXCEPT ![slot(t)]
          = Word(life[slot(t)].gen, life[slot(t)].phase, life[slot(t)].flags \cup {"retire"})]
  <2>1. life[slot(t)] \in Words
    BY <1>1 DEF Grounds
  <2>2. [life[slot(t)] EXCEPT !.flags = life[slot(t)].flags \cup {"retire"}]
            = Word(life[slot(t)].gen, life[slot(t)].phase, life[slot(t)].flags \cup {"retire"})
    BY <2>1, FieldSet
  <2>3. QED
    BY <1>1, <2>2 DEF MarkRetiring, Grounds
<1>3. /\ Registers(t)
      /\ pc'[t] = "close"
      /\ ret'[t] = "exit"
      /\ h'[t] = h[t]
      /\ snap' = snap
  BY <1>1 DEF MarkRetiring, Goto, Set, argVars, ThreadTypes, LocalTypes, Registers, Others, Keeps,
    Grounds
<1>4. /\ UNCHANGED <<gate, inbox, carry, waveOwner, state, payload, free, nodeState>>
      /\ life' = [r \in Slots |-> IF r = slot(t)
             THEN Word(life[r].gen, life[r].phase, life[r].flags \cup {"retire"}) ELSE life[r]]
  <2>1. UNCHANGED <<gate, inbox, carry, waveOwner, state, payload, free, nodeState>>
    BY DEF MarkRetiring
  <2>2. QED
    BY <1>1, <1>2, <2>1 DEF Types, SlotTypes, Grounds
<1>5. life' \in [Slots -> Words]
  BY ActorAssumption, <1>1, <1>4 DEF Types, SlotTypes, Words, Word, Phases, Flags, Grounds
<1>6. SlotTypes'
  BY <1>1, <1>4, <1>5 DEF Types, SlotTypes, Grounds
<1>7. /\ \A r \in Slots : r # slot(t) => life'[r] = life[r]
      /\ life'[slot(t)] = Word(life[slot(t)].gen, life[slot(t)].phase, life[slot(t)].flags
             \cup {"retire"})
  BY <1>1, <1>4 DEF Grounds
<1>8. Marks(slot(t))
  BY <1>1, <1>3, <1>7 DEF Marks, Same, Step, Word, MarkRetiring, ThreadSound, At, slot, gen,
    Active, Grounds
<1>9. \A r \in Slots : LifeMoves(t, r)
  BY <1>8, <1>4, <1>7 DEF LifeMoves, Keep
<1>10. \A r \in Slots :
         /\ GateMoves(t, r) /\ InboxMoves(t, r) /\ OwnerMoves(t, r)
         /\ StateMoves(t, r) /\ FreeMoves(t, r)
  BY <1>4, <1>7 DEF GateMoves, InboxMoves, OwnerMoves, StateMoves, FreeMoves
<1>11. SlotMoves(t)
  BY <1>9, <1>10 DEF SlotMoves
<1>12. QueueTypes'
  BY <1>1 DEF MarkRetiring, queueVars, Types, QueueTypes, Grounds
<1>13. ThreadSound(t)'
  BY <1>1, <1>3, <1>4 DEF MarkRetiring, ThreadSound, Returns, MakerSound, SenderSound, OwnerSound,
    ReclaimerSound, ActivationSound, WaveSound, Making, Admitted, Pinning, Entering, Activating,
    InWave, Owning, Pushing, At, slot, gen, Grounds
<1>14. RoleMoves(t)
  BY <1>1, <1>3, <1>4 DEF MarkRetiring, slotVars, RoleMoves, Making, Pinning, Reserving, Pushing,
    At, slot, gen, Keeps, Grounds
<1>15. Carries(t)
  BY <1>1, <1>3, <1>4 DEF MarkRetiring, Carries, Busy, Pushing, Activating, InWave, At, slot,
    Keeps, queueVars
<1>16. QED
  BY <1>3, <1>6, <1>11, <1>12, <1>13, <1>14, <1>15 DEF Moves, Types, Registers

LEMMA ExitMoves ==
    ASSUME Inv, NEW t \in Threads, Exit(t)
    PROVE  Moves(t) /\ Carries(t)
<1>1. Grounds(t)
  BY GroundsHold
<1>2. /\ Registers(t)
      /\ stale' = stale
      /\ ret'[t] = ret[t]
      /\ h'[t] = h[t]
      /\ seen'[t] = life[slot(t)]
      /\ pc'[t] = IF "retire" \in life[slot(t)].flags THEN "exitGate" ELSE "exitInbox"
      /\ snap' = snap
  <2>1. life[slot(t)].gen = gen(t) /\ life[slot(t)].phase = "running"
    BY <1>1 DEF Exit, ThreadSound, ActivationSound, Activating, Entering, At, Grounds
  <2>2. ExitOn(t, life[slot(t)])
    BY DEF Exit
  <2>3. QED
    BY <1>1, <2>1, <2>2, ExitOnGoes DEF Grounds
<1>3. UNCHANGED slotVars
  BY <1>1 DEF Exit, At, slot, slotVars, Grounds
<1>4. SlotTypes' /\ SlotMoves(t)
  BY <1>1, <1>3, QuietMoves DEF Types, Grounds
<1>5. QueueTypes'
  BY <1>1, <1>2 DEF Exit, Types, QueueTypes, Grounds
<1>6. ThreadSound(t)'
  BY <1>1, <1>2, <1>3 DEF Exit, slotVars, ThreadSound, Returns, MakerSound, SenderSound,
    OwnerSound, ReclaimerSound, ActivationSound, WaveSound, Making, Admitted, Pinning, Entering,
    Activating, InWave, Owning, Pushing, At, slot, gen, Keeps, Grounds
<1>7. RoleMoves(t)
  BY <1>1, <1>2, <1>3 DEF Exit, slotVars, RoleMoves, Making, Pinning, Reserving, Pushing, At,
    slot, gen, Keeps, Grounds
<1>8. Carries(t)
  BY <1>1, <1>2, <1>3 DEF Exit, Carries, Busy, Pushing, Activating, InWave, At, slot, Keeps,
    queueVars
<1>9. QED
  BY <1>2, <1>4, <1>5, <1>6, <1>7, <1>8 DEF Moves, Types, Registers

LEMMA ExitGateMoves ==
    ASSUME Inv, NEW t \in Threads, ExitGate(t)
    PROVE  Moves(t) /\ Carries(t)
<1>1. Grounds(t)
  BY GroundsHold
<1>2. /\ Registers(t)
      /\ pc'[t] = "exitInbox"
      /\ h'[t] = h[t]
      /\ seen'[t] = seen[t]
      /\ quiet'[t] => Joined(gate[slot(t)])
      /\ snap' = snap
  <2>1. Joined(gate[slot(t)]) \in BOOLEAN
    BY <1>1 DEF Joined, Grounds
  <2>2. /\ quiet' = Set(quiet, t, Joined(gate[slot(t)]))
        /\ Goto(t, "exitInbox")
        /\ UNCHANGED <<ret, h, seen, node, mode, local, again, snap>>
    BY DEF ExitGate, argVars
  <2>3. ThreadTypes'
    BY <1>1, <2>1, <2>2 DEF Goto, Set, ThreadTypes, LocalTypes, Grounds
  <2>4. Others(t) /\ quiet'[t] = Joined(gate[slot(t)])
    BY <1>1, <2>2 DEF Goto, Set, ThreadTypes, LocalTypes, Others, Grounds
  <2>5. QED
    BY <1>1, <2>2, <2>3, <2>4 DEF Registers, Goto, Set, ThreadTypes, Grounds
<1>3. UNCHANGED slotVars
  BY <1>1 DEF ExitGate, At, Goto, Set, argVars, queueVars, slot, slotVars, Grounds
<1>4. SlotTypes' /\ SlotMoves(t)
  BY <1>1, <1>3, QuietMoves DEF Types, Grounds
<1>5. QueueTypes'
  BY <1>1 DEF ExitGate, queueVars, Types, QueueTypes, Grounds
<1>6. ThreadSound(t)'
  BY <1>1, <1>2, <1>3 DEF ExitGate, slotVars, ThreadSound, Returns, MakerSound, SenderSound,
    OwnerSound, ReclaimerSound, ActivationSound, WaveSound, Making, Admitted, Pinning, Entering,
    Activating, InWave, Owning, Pushing, At, slot, gen, Keeps, Grounds
<1>7. RoleMoves(t)
  BY <1>1, <1>2, <1>3 DEF ExitGate, slotVars, RoleMoves, Making, Pinning, Reserving, Pushing, At,
    slot, gen, Keeps, Grounds
<1>8. Carries(t)
  BY <1>1, <1>2, <1>3 DEF ExitGate, Carries, Busy, Pushing, Activating, InWave, At, slot, Keeps,
    queueVars
<1>9. QED
  BY <1>2, <1>4, <1>5, <1>6, <1>7, <1>8 DEF Moves, Types, Registers

LEMMA ExitInboxMoves ==
    ASSUME Inv, NEW t \in Threads, ExitInbox(t)
    PROVE  Moves(t) /\ Carries(t)
<1>1. Grounds(t)
  BY GroundsHold
<1>2. CASE "retire" \in seen[t].flags
  <2>1. /\ Registers(t)
        /\ pc'[t] = "leave"
        /\ h'[t] = h[t]
        /\ seen'[t] = seen[t]
        /\ quiet'[t] => quiet[t] /\ ~HasInbox(slot(t))
        /\ snap' = snap
    BY <1>2, <1>1 DEF ExitInbox, Goto, Set, ThreadTypes, LocalTypes, Registers, Others, Keeps,
      Grounds
  <2>2. UNCHANGED slotVars
    BY <1>2, <1>1 DEF ExitInbox, At, Goto, Set, queueVars, slot, slotVars, Grounds
  <2>3. SlotTypes' /\ SlotMoves(t)
    BY <1>2, <1>1, <2>2, QuietMoves DEF Types, Grounds
  <2>4. QueueTypes'
    BY <1>2, <1>1 DEF ExitInbox, queueVars, Types, QueueTypes, Grounds
  <2>5. ThreadSound(t)'
    <3>1. ActivationSound(t)'
      <4>1. /\ life[slot(t)].gen = gen(t) /\ life[slot(t)].phase = "running"
            /\ quiet[t] => Joined(gate[slot(t)])
        BY <1>2, <1>1 DEF ExitInbox, Grounds, ThreadSound, ActivationSound, Activating,
          Entering, At
      <4>2. quiet'[t] => Drained(slot(t))
        BY <4>1, <2>1 DEF Drained, HasInbox
      <4>3. QED
        BY <1>2, <2>1, <2>2, <4>1, <4>2 DEF ActivationSound, slotVars, Activating, Entering, At,
          slot, gen, Drained, Joined, Pushing
    <3>2. Returns(t)'
      BY <1>2, <1>1, <2>1 DEF ExitInbox, Grounds, ThreadSound, Returns, Pushing, At
    <3>3. QED
      BY <2>1, <3>1, <3>2 DEF ThreadSound, MakerSound, SenderSound, OwnerSound, ReclaimerSound,
        WaveSound, Making, Admitted, Pinning, InWave, Owning, Pushing, At
  <2>6. RoleMoves(t)
    BY <1>2, <1>1, <2>1, <2>2 DEF ExitInbox, slotVars, RoleMoves, Making, Pinning, Reserving,
      Pushing, At, slot, gen, Keeps, Grounds
  <2>7. Carries(t)
    BY <1>2, <1>1, <2>1, <2>2 DEF ExitInbox, Carries, Busy, Pushing, Activating, InWave, At, slot,
      Keeps, queueVars
  <2>8. QED
    BY <2>1, <2>3, <2>4, <2>5, <2>6, <2>7 DEF Moves, Types, Registers
<1>3. CASE "retire" \notin seen[t].flags
  <2>1. /\ Registers(t)
        /\ pc'[t] = "leave"
        /\ h'[t] = h[t]
        /\ seen'[t] = seen[t]
        /\ ~again'[t] => ~HasInbox(slot(t))
        /\ snap' = snap
    BY <1>3, <1>1 DEF ExitInbox, Goto, Set, ThreadTypes, LocalTypes, Registers, Others, Keeps,
      Grounds
  <2>2. UNCHANGED slotVars
    BY <1>3, <1>1 DEF ExitInbox, At, Goto, Set, queueVars, slot, slotVars, Grounds
  <2>3. SlotTypes' /\ SlotMoves(t)
    BY <1>3, <1>1, <2>2, QuietMoves DEF Types, Grounds
  <2>4. QueueTypes'
    BY <1>3, <1>1 DEF ExitInbox, queueVars, Types, QueueTypes, Grounds
  <2>5. ThreadSound(t)'
    BY <1>3, <1>1, <2>1, <2>2 DEF ExitInbox, slotVars, SlotSound, ThreadSound, Returns,
      MakerSound, SenderSound, OwnerSound, ReclaimerSound, ActivationSound, WaveSound, Making,
      Admitted, Pinning, Reserving, Entering, Activating, InWave, Owning, Pushing, Busy, At,
      slot, gen, Joined, Drained, Awaited, Heard, Untouched, RetireOpens, Reclaimable, HasInbox,
      Active, Word, retireModeMask, retainedMask, Keeps, Others, Registers, Confirms, Unmoved,
      Types, SlotTypes, QueueTypes, ThreadTypes, LocalTypes, Words, Starts, Scheduled, Signals,
      Queues, Grounds
  <2>6. RoleMoves(t)
    BY <1>3, <1>1, <2>1, <2>2 DEF ExitInbox, slotVars, RoleMoves, Making, Pinning, Reserving,
      Pushing, At, slot, gen, Keeps, Grounds
  <2>7. Carries(t)
    BY <1>3, <1>1, <2>1, <2>2 DEF ExitInbox, Carries, Busy, Pushing, Activating, InWave, At, slot,
      Keeps, queueVars
  <2>8. QED
    BY <2>1, <2>3, <2>4, <2>5, <2>6, <2>7 DEF Moves, Types, Registers
<1>4. QED
  BY <1>2, <1>3

LEMMA LeaveMoves ==
    ASSUME Inv, NEW t \in Threads, Leave(t)
    PROVE  Moves(t) /\ Carries(t)
<1>1. Grounds(t)
  BY GroundsHold
<1>2. CASE life[slot(t)] = seen[t] /\ NextPhase(t) = "scheduled"
  <2>1. /\ Registers(t)
        /\ pc'[t] = "count"
        /\ ret'[t] = "idle"
        /\ h'[t] = h[t]
        /\ snap' = snap
    <3>1. PushReady(t, "idle") /\ Forget(t) /\ h' = h
      BY <1>2 DEF Leave
    <3>2. LocalTypes' /\ OthersLocal(t) /\ snap' = snap
      BY <1>1, <3>1, Forgets DEF ThreadTypes, Grounds
    <3>3. QED
      BY <1>1, <3>1, <3>2, PushReadyGoes DEF Grounds
  <2>2. /\ UNCHANGED <<gate, inbox, carry, waveOwner, state, payload, free, nodeState>>
        /\ life' = [r \in Slots |-> IF r = slot(t)
               THEN Word(gen(t), NextPhase(t), Kept(seen[t], NextPhase(t))) ELSE life[r]]
    BY <1>2, <1>1 DEF Leave, At, Set, slot, SlotTypes, Types, Grounds
  <2>3. life' \in [Slots -> Words]
    BY <1>2, ActorAssumption, <1>1, <2>2 DEF Types, SlotTypes, Words, Word, Phases, Flags,
      NextPhase, Kept, retainedMask, Grounds
  <2>4. SlotTypes'
    BY <1>2, <1>1, <2>2, <2>3 DEF Types, SlotTypes, Grounds
  <2>5. /\ \A r \in Slots : r # slot(t) => life'[r] = life[r]
        /\ life'[slot(t)] = Word(gen(t), NextPhase(t), Kept(seen[t], NextPhase(t)))
    BY <1>2, <1>1, <2>2 DEF Grounds
  <2>6. Advances(t, slot(t))
    BY <1>2, <1>1, <2>1, <2>5 DEF Advances, Same, Step, Word, Leave, ThreadSound, At, slot, gen,
      ActivationSound, Entering, Busy, Activating, Pushing, Kept, retainedMask, Grounds
  <2>7. \A r \in Slots : LifeMoves(t, r)
    BY <1>2, <2>6, <2>2, <2>5 DEF LifeMoves, Keep
  <2>8. \A r \in Slots :
          /\ GateMoves(t, r) /\ InboxMoves(t, r) /\ OwnerMoves(t, r)
          /\ StateMoves(t, r) /\ FreeMoves(t, r)
    BY <1>2, <2>2, <2>5 DEF GateMoves, InboxMoves, OwnerMoves, StateMoves, FreeMoves
  <2>9. SlotMoves(t)
    BY <1>2, <2>7, <2>8 DEF SlotMoves
  <2>10. QueueTypes'
    BY <1>2, <1>1 DEF Leave, Types, QueueTypes, queueVars, Grounds
  <2>11. ThreadSound(t)'
    BY <1>2, <1>1, <2>1, <2>2 DEF Leave, ThreadSound, Returns, MakerSound, SenderSound,
      OwnerSound, ReclaimerSound, ActivationSound, WaveSound, Making, Admitted, Pinning,
      Entering, Activating, InWave, Owning, Pushing, At, slot, gen, Grounds
  <2>12. RoleMoves(t)
    BY <1>2, <1>1, <2>1, <2>2 DEF Leave, slotVars, RoleMoves, Making, Pinning, Reserving, Pushing,
      At, slot, gen, Keeps, Grounds
  <2>13. Carries(t)
    BY <1>2, <1>1, <2>1, <2>2, <2>6 DEF Leave, Carries, Busy, Pushing, Activating, InWave, At,
      slot, Keeps, slotVars, queueVars, gen, Word, Scheduled, NextPhase, Kept, Advances, Same,
      Step, Grounds
  <2>14. QED
    BY <2>1, <2>4, <2>9, <2>10, <2>11, <2>12, <2>13 DEF Moves, Types, Registers
<1>3. CASE life[slot(t)] = seen[t] /\ NextPhase(t) # "scheduled"
  <2>1. /\ Registers(t)
        /\ pc'[t] = "idle"
        /\ ret'[t] = "idle"
        /\ snap' = snap
    <3>1. Return(t)
      BY <1>3 DEF Leave
    <3>2. QED
      BY <1>1, <3>1, ReturnGoes DEF Grounds
  <2>2. /\ UNCHANGED <<gate, inbox, carry, waveOwner, state, payload, free, nodeState>>
        /\ life' = [r \in Slots |-> IF r = slot(t)
               THEN Word(gen(t), NextPhase(t), Kept(seen[t], NextPhase(t))) ELSE life[r]]
    BY <1>3, <1>1 DEF Leave, At, Set, slot, SlotTypes, Types, Grounds
  <2>3. life' \in [Slots -> Words]
    BY <1>3, ActorAssumption, <1>1, <2>2 DEF Types, SlotTypes, Words, Word, Phases, Flags,
      NextPhase, Kept, retainedMask, Grounds
  <2>4. SlotTypes'
    BY <1>3, <1>1, <2>2, <2>3 DEF Types, SlotTypes, Grounds
  <2>5. /\ \A r \in Slots : r # slot(t) => life'[r] = life[r]
        /\ life'[slot(t)] = Word(gen(t), NextPhase(t), Kept(seen[t], NextPhase(t)))
    BY <1>3, <1>1, <2>2 DEF Grounds
  <2>6. Advances(t, slot(t))
    BY <1>3, <1>1, <2>1, <2>5 DEF Advances, Same, Step, Word, Leave, ThreadSound, At, slot, gen,
      ActivationSound, Entering, Busy, Activating, Pushing, Kept, retainedMask, NextPhase,
      Awaited, Grounds
  <2>7. \A r \in Slots : LifeMoves(t, r)
    BY <1>3, <2>6, <2>2, <2>5 DEF LifeMoves, Keep
  <2>8. \A r \in Slots :
          /\ GateMoves(t, r) /\ InboxMoves(t, r) /\ OwnerMoves(t, r)
          /\ StateMoves(t, r) /\ FreeMoves(t, r)
    BY <1>3, <2>2, <2>5 DEF GateMoves, InboxMoves, OwnerMoves, StateMoves, FreeMoves
  <2>9. SlotMoves(t)
    BY <1>3, <2>7, <2>8 DEF SlotMoves
  <2>10. QueueTypes'
    BY <1>3, <1>1 DEF Leave, Types, QueueTypes, queueVars, Grounds
  <2>11. ThreadSound(t)'
    BY <1>3, <1>1, <2>1, IdleSound DEF ThreadSound, Returns, MakerSound, SenderSound, OwnerSound,
      ReclaimerSound, ActivationSound, WaveSound, Leave, At, Pushing, Starts, Grounds
  <2>12. RoleMoves(t)
    BY <1>3, <1>1, <2>1, <2>2 DEF Leave, slotVars, RoleMoves, Making, Pinning, Reserving, Pushing,
      At, slot, gen, Keeps, Grounds
  <2>13. Carries(t)
    BY <1>3, <1>1, <2>1, <2>2, <2>6 DEF Leave, Carries, Busy, Pushing, Activating, InWave, At,
      slot, Keeps, slotVars, queueVars, gen, Word, Scheduled, NextPhase, Kept, Advances, Same,
      Step, Grounds
  <2>14. QED
    BY <2>1, <2>4, <2>9, <2>10, <2>11, <2>12, <2>13 DEF Moves, Types, Registers
<1>4. CASE life[slot(t)] # seen[t]
  <2>1. /\ Registers(t)
        /\ stale' = stale
        /\ ret'[t] = ret[t]
        /\ h'[t] = h[t]
        /\ seen'[t] = life[slot(t)]
        /\ pc'[t] = IF "retire" \in life[slot(t)].flags THEN "exitGate" ELSE "exitInbox"
        /\ snap' = snap
    <3>1. life[slot(t)].gen = gen(t) /\ life[slot(t)].phase = "running"
      BY <1>1 DEF Leave, ThreadSound, ActivationSound, Activating, Entering, At, Grounds
    <3>2. ExitOn(t, life[slot(t)])
      BY <1>4 DEF Leave
    <3>3. QED
      BY <1>1, <3>1, <3>2, ExitOnGoes DEF Grounds
  <2>2. UNCHANGED slotVars
    BY <1>4, <1>1 DEF Leave, slotVars, Grounds
  <2>3. SlotTypes' /\ SlotMoves(t)
    BY <1>4, <1>1, <2>2, QuietMoves DEF Types, Grounds
  <2>4. QueueTypes'
    BY <1>1, <2>1 DEF Leave, Types, QueueTypes, Grounds
  <2>5. ThreadSound(t)'
    BY <1>4, <1>1, <2>1, <2>2 DEF Leave, ThreadSound, Returns, MakerSound, SenderSound,
      OwnerSound, ReclaimerSound, ActivationSound, WaveSound, Making, Admitted, Pinning,
      Entering, Activating, InWave, Owning, Pushing, At, slot, gen, Grounds
  <2>6. RoleMoves(t)
    BY <1>4, <1>1, <2>1, <2>2 DEF Leave, slotVars, RoleMoves, Making, Pinning, Reserving, Pushing,
      At, slot, gen, Keeps, Grounds
  <2>7. Carries(t)
    BY <1>4, <1>1, <2>1, <2>2 DEF Leave, Carries, Busy, Pushing, Activating, InWave, At, slot,
      Keeps, queueVars
  <2>8. QED
    BY <2>1, <2>3, <2>4, <2>5, <2>6, <2>7 DEF Moves, Types, Registers
<1>5. QED
  BY <1>2, <1>3, <1>4

-----------------------------------------------------------------------------
(* The wave calls.                                                         *)

LEMMA ReserveWaveMoves ==
    ASSUME Inv, NEW t \in Threads, ReserveWave(t)
    PROVE  Moves(t) /\ Carries(t)
<1>1. Grounds(t)
  BY GroundsHold
<1>2. /\ Registers(t) /\ slot(t)' \in Slots /\ pc[t] = "idle"
      /\ pc'[t] = "waveCheck"
      /\ gen(t)' = life[slot(t)'].gen
      /\ Reservable(life[slot(t)'])
      /\ ret'[t] = ret[t]
      /\ snap' = snap
      /\ life' = [life EXCEPT ![slot(t)'].phase = "scheduled"]
  <2>1. PICK s \in Slots :
        /\ Reservable(life[s])
        /\ Open(t, s, "waveCheck")
        /\ life' = [life EXCEPT ![s].phase = "scheduled"]
    BY <1>1 DEF ReserveWave, Types, SlotTypes, Grounds
  <2>2. /\ DOMAIN pc' = Threads /\ h' \in [Threads -> [slot : Slots, gen : 0 .. MaxGen]]
        /\ pc'[t] = "waveCheck" /\ slot(t)' = s /\ gen(t)' = life[s].gen
        /\ \A u \in Threads \ {t} : pc'[u] = pc[u] /\ h'[u] = h[u]
    BY <1>1, <2>1, OpenGoes DEF Types, Grounds
  <2>3. pc[t] = "idle" /\ UNCHANGED <<ret, seen, quiet, node, mode, local, again, snap>>
    BY DEF ReserveWave, Starts, argVars
  <2>4. ThreadTypes'
    BY <1>1, <2>1, <2>2, <2>3 DEF Types, SlotTypes, Words, ThreadTypes, LocalTypes, Set, Grounds
  <2>5. Others(t)
    BY <1>1, <2>1, <2>2, <2>3 DEF ThreadTypes, LocalTypes, Others, Set, Grounds
  <2>6. QED
    BY <1>1, <2>1, <2>2, <2>3, <2>4, <2>5 DEF ThreadTypes, LocalTypes, Registers, Set, Grounds
<1>3. /\ UNCHANGED <<gate, inbox, carry, waveOwner, state, payload, free, nodeState>>
      /\ life' = [r \in Slots |-> IF r = slot(t)' THEN Word(life[r].gen, "scheduled", {})
             ELSE life[r]]
  <2>1. [life[slot(t)'] EXCEPT !.phase = "scheduled"] = Word(life[slot(t)'].gen, "scheduled", {})
    <3>1. life[slot(t)'] \in Words /\ life[slot(t)'].flags = {}
      BY <1>1, <1>2 DEF Types, SlotTypes, Reservable, Grounds
    <3>2. QED
      BY <3>1, FieldSet
  <2>2. life' = [life EXCEPT ![slot(t)'] = Word(life[slot(t)'].gen, "scheduled", {})]
    BY <1>2, <2>1
  <2>3. UNCHANGED <<gate, inbox, carry, waveOwner, state, payload, free, nodeState>>
    BY DEF ReserveWave
  <2>4. QED
    BY <1>1, <2>2, <2>3 DEF Types, SlotTypes, Grounds
<1>4. life' \in [Slots -> Words]
  BY ActorAssumption, <1>1, <1>3 DEF Types, SlotTypes, Words, Word, Phases, Flags, Grounds
<1>5. SlotTypes'
  BY <1>1, <1>3, <1>4 DEF Types, SlotTypes, Grounds
<1>6. /\ \A r \in Slots : r # slot(t)' => life'[r] = life[r]
      /\ life'[slot(t)'] = Word(life[slot(t)'].gen, "scheduled", {})
  BY <1>1, <1>3, <1>2 DEF Grounds
<1>7. Wakens(t, slot(t)')
  BY <1>1, <1>2, <1>6 DEF Wakens, Same, Step, Word, ReserveWave, ThreadSound, At, slot, gen,
    Reservable, Busy, InWave, retainedMask, Grounds
<1>8. \A r \in Slots : LifeMoves(t, r)
  BY <1>7, <1>3, <1>6 DEF LifeMoves, Keep
<1>9. \A r \in Slots :
        /\ GateMoves(t, r) /\ InboxMoves(t, r) /\ OwnerMoves(t, r)
        /\ StateMoves(t, r) /\ FreeMoves(t, r)
  BY <1>3, <1>6 DEF GateMoves, InboxMoves, OwnerMoves, StateMoves, FreeMoves
<1>10. SlotMoves(t)
  BY <1>8, <1>9 DEF SlotMoves
<1>11. QueueTypes'
  BY <1>1 DEF ReserveWave, queueVars, Types, QueueTypes, Grounds
<1>12. SlotSound(slot(t)') /\ life[slot(t)'] \in Words
  BY <1>1, <1>2 DEF Inv, Types, SlotTypes, Grounds
<1>13. snap'[t] = <<>> /\ Len(snap'[t]) <= MaxFlush
  BY <1>1, <1>2 DEF ThreadSound, Returns, Pushing, Grounds
<1>14. life'[slot(t)'].gen = gen(t)' /\ life'[slot(t)'].phase = "scheduled"
  BY <1>2, <1>6 DEF Word
<1>15. Heard(slot(t)')
  BY <1>12, <1>2 DEF SlotSound, Reservable
<1>16. Awaited(slot(t))'
  BY <1>2, <1>3, <1>15 DEF Awaited, Heard, At, Registers, Others, slot
<1>17. ThreadSound(t)'
  BY <1>2, <1>13, <1>14, <1>16 DEF ThreadSound, Returns, MakerSound, SenderSound, OwnerSound,
    ReclaimerSound, ActivationSound, WaveSound, Making, Admitted, Pinning, Entering, Activating,
    InWave, Owning, Pushing, At
<1>18. RoleMoves(t)
  BY <1>1, <1>2, <1>3 DEF slotVars, RoleMoves, Making, Pinning, Reserving, Pushing, At, slot, gen,
    Keeps, Grounds
<1>19. Carries(t)
  BY <1>1, <1>2, <1>3, <1>7 DEF ReserveWave, Carries, Busy, Pushing, Activating, InWave, At,
    queueVars, Word, Scheduled, Wakens, Same, Step
<1>20. QED
  BY <1>2, <1>5, <1>10, <1>11, <1>17, <1>18, <1>19 DEF Moves, Types, Registers

LEMMA JoinWaveMoves ==
    ASSUME Inv, NEW t \in Threads, JoinWave(t)
    PROVE  Moves(t) /\ Carries(t)
<1>1. Grounds(t)
  BY GroundsHold
<1>2. /\ Registers(t)
      /\ \/ pc'[t] = "member" /\ waveOwner[slot(t)] = None /\ waveOwner'
             = Set(waveOwner, slot(t), t)
         \/ pc'[t] = "waveBack" /\ waveOwner' = waveOwner
      /\ Keeps(t)
      /\ ret'[t] = ret[t]
      /\ snap' = snap
  BY <1>1 DEF JoinWave, Goto, Set, argVars, ThreadTypes, LocalTypes, Registers, Others, Keeps,
    Grounds
<1>3. /\ UNCHANGED <<life, gate, inbox, carry, state, payload, free, nodeState>>
      /\ \A r \in Slots : r # slot(t) => waveOwner'[r] = waveOwner[r]
  BY <1>1 DEF JoinWave, At, Set, slot, SlotTypes, Types, Grounds
<1>4. waveOwner' \in [Slots -> Threads \cup {None}]
  BY <1>1, <1>2 DEF Types, SlotTypes, Set, Grounds
<1>5. SlotTypes'
  BY <1>1, <1>3, <1>4 DEF Types, SlotTypes, Grounds
<1>6. /\ \A r \in Slots : r # slot(t) => waveOwner'[r] = waveOwner[r]
  BY <1>1, <1>3 DEF Grounds
<1>7. \A r \in Slots : LifeMoves(t, r)
  BY <1>3, <1>6 DEF LifeMoves, Keep
<1>8. \A r \in Slots : OwnerMoves(t, r)
  BY <1>1, <1>2, <1>3, <1>6 DEF OwnerMoves, JoinWave, At, slot, gen, Grounds
<1>9. \A r \in Slots :
        /\ GateMoves(t, r) /\ InboxMoves(t, r)
        /\ StateMoves(t, r) /\ FreeMoves(t, r)
  BY <1>3, <1>6 DEF GateMoves, InboxMoves, StateMoves, FreeMoves
<1>10. SlotMoves(t)
  BY <1>7, <1>9, <1>8 DEF SlotMoves
<1>11. QueueTypes'
  BY <1>1 DEF JoinWave, queueVars, Types, QueueTypes, Grounds
<1>12. ThreadSound(t)'
  <2>1. /\ At(t, "waveCheck") /\ slot(t)' = slot(t) /\ gen(t)' = gen(t)
        /\ life'[slot(t)].gen = gen(t) /\ life'[slot(t)].phase = "scheduled"
    BY <1>1, <1>2, <1>3 DEF JoinWave, ThreadSound, WaveSound, InWave, At, Keeps, slot, gen,
      Grounds
  <2>2. Awaited(slot(t)) /\ ~At(t, "signal")
    BY <1>1, <2>1 DEF ThreadSound, WaveSound, InWave, At, Grounds
  <2>3. Awaited(slot(t))'
    BY <1>1, <1>2, <1>3, <2>1, <2>2, HeardStays DEF Awaited, Registers, Grounds
  <2>4. pc'[t] = "member" => waveOwner'[slot(t)] = t
    BY <1>1, <1>2 DEF Types, SlotTypes, Set, Grounds
  <2>5. snap'[t] = <<>> /\ Len(snap'[t]) <= MaxFlush
    BY <1>1, <1>2, <2>1 DEF ThreadSound, Returns, At, Pushing, Grounds
  <2>6. QED
    BY <1>2, <2>1, <2>3, <2>4, <2>5 DEF ThreadSound, Returns, MakerSound, SenderSound, OwnerSound,
      ReclaimerSound, ActivationSound, WaveSound, Making, Admitted, Pinning, Entering, Activating,
      InWave, Owning, Pushing, At
<1>13. RoleMoves(t)
  BY <1>1, <1>2, <1>3 DEF JoinWave, slotVars, RoleMoves, Making, Pinning, Reserving, Pushing, At,
    slot, gen, Keeps, Grounds
<1>14. Carries(t)
  BY <1>1, <1>2, <1>3 DEF JoinWave, Carries, Busy, Pushing, Activating, InWave, At, slot, Keeps,
    queueVars
<1>15. QED
  BY <1>2, <1>5, <1>10, <1>11, <1>12, <1>13, <1>14 DEF Moves, Types, Registers

LEMMA CancelMemberMoves ==
    ASSUME Inv, NEW t \in Threads, CancelMember(t)
    PROVE  Moves(t) /\ Carries(t)
<1>1. Grounds(t)
  BY GroundsHold
<1>2. /\ Registers(t)
      /\ pc'[t] = "waveBack"
      /\ Keeps(t)
      /\ ret'[t] = ret[t]
      /\ snap' = snap
  BY <1>1 DEF CancelMember, Goto, Set, argVars, ThreadTypes, LocalTypes, Registers, Others, Keeps,
    Grounds
<1>3. /\ UNCHANGED <<life, gate, inbox, carry, state, payload, free, nodeState>>
      /\ waveOwner' = [r \in Slots |-> IF r = slot(t) THEN None ELSE waveOwner[r]]
  BY <1>1 DEF CancelMember, At, Set, slot, SlotTypes, Types, Grounds
<1>4. waveOwner' \in [Slots -> Threads \cup {None}]
  BY ActorAssumption, <1>1, <1>3 DEF Types, SlotTypes, Grounds
<1>5. SlotTypes'
  BY <1>1, <1>3, <1>4 DEF Types, SlotTypes, Grounds
<1>6. /\ \A r \in Slots : r # slot(t) => waveOwner'[r] = waveOwner[r]
      /\ waveOwner'[slot(t)] = None
  BY <1>1, <1>3 DEF Grounds
<1>7. \A r \in Slots : LifeMoves(t, r)
  BY <1>3, <1>6 DEF LifeMoves, Keep
<1>8. \A r \in Slots : OwnerMoves(t, r)
  BY <1>1, <1>2, <1>3, <1>6 DEF OwnerMoves, CancelMember, At, slot, gen, Owning, Grounds
<1>9. \A r \in Slots :
        /\ GateMoves(t, r) /\ InboxMoves(t, r)
        /\ StateMoves(t, r) /\ FreeMoves(t, r)
  BY <1>3, <1>6 DEF GateMoves, InboxMoves, StateMoves, FreeMoves
<1>10. SlotMoves(t)
  BY <1>7, <1>9, <1>8 DEF SlotMoves
<1>11. QueueTypes'
  BY <1>1 DEF CancelMember, queueVars, Types, QueueTypes, Grounds
<1>12. ThreadSound(t)'
  BY <1>1, <1>2, <1>3 DEF CancelMember, slotVars, SlotSound, ThreadSound, Returns, MakerSound,
    SenderSound, OwnerSound, ReclaimerSound, ActivationSound, WaveSound, Making, Admitted,
    Pinning, Reserving, Entering, Activating, InWave, Owning, Pushing, Busy, At, slot, gen,
    Joined, Drained, Awaited, Heard, Untouched, RetireOpens, Reclaimable, HasInbox, Active,
    Word, retireModeMask, retainedMask, Keeps, Others, Registers, Confirms, Unmoved, Types,
    SlotTypes, QueueTypes, ThreadTypes, LocalTypes, Words, Starts, Scheduled, Signals, Queues,
    Grounds
<1>13. RoleMoves(t)
  BY <1>1, <1>2, <1>3 DEF CancelMember, slotVars, RoleMoves, Making, Pinning, Reserving, Pushing,
    At, slot, gen, Keeps, Grounds
<1>14. Carries(t)
  BY <1>1, <1>2, <1>3 DEF CancelMember, Carries, Busy, Pushing, Activating, InWave, At, slot,
    Keeps, queueVars
<1>15. QED
  BY <1>2, <1>5, <1>10, <1>11, <1>12, <1>13, <1>14 DEF Moves, Types, Registers

LEMMA RunMemberMoves ==
    ASSUME Inv, NEW t \in Threads, RunMember(t)
    PROVE  Moves(t) /\ Carries(t)
<1>1. Grounds(t)
  BY GroundsHold
<1>2. /\ Registers(t)
      /\ pc'[t] = "operation"
      /\ Keeps(t)
      /\ ret'[t] = ret[t]
      /\ snap' = snap
  BY <1>1 DEF RunMember, Goto, argVars, Set, ThreadTypes, LocalTypes, Registers, Others, Keeps,
    Grounds
<1>3. UNCHANGED slotVars
  BY <1>1 DEF RunMember, slotVars, Grounds
<1>4. SlotTypes' /\ SlotMoves(t)
  BY <1>1, <1>3, QuietMoves DEF Types, Grounds
<1>5. QueueTypes'
  BY <1>1 DEF RunMember, queueVars, Types, QueueTypes, Grounds
<1>6. ThreadSound(t)'
  BY <1>1, <1>2, <1>3 DEF RunMember, slotVars, ThreadSound, Returns, MakerSound, SenderSound,
    OwnerSound, ReclaimerSound, ActivationSound, WaveSound, Making, Admitted, Pinning, Entering,
    Activating, InWave, Owning, Pushing, At, slot, gen, Awaited, Heard, Keeps, Others, Registers,
    Grounds
<1>7. RoleMoves(t)
  BY <1>1, <1>2, <1>3 DEF RunMember, slotVars, RoleMoves, Making, Pinning, Reserving, Pushing, At,
    slot, gen, Keeps, Grounds
<1>8. Carries(t)
  BY <1>1, <1>2, <1>3 DEF RunMember, Carries, Busy, Pushing, Activating, InWave, At, slot, Keeps,
    queueVars
<1>9. QED
  BY <1>2, <1>4, <1>5, <1>6, <1>7, <1>8 DEF Moves, Types, Registers

LEMMA EndWaveWorkMoves ==
    ASSUME Inv, NEW t \in Threads, EndWaveWork(t)
    PROVE  Moves(t) /\ Carries(t)
<1>1. Grounds(t)
  BY GroundsHold
<1>2. CASE Interrupted(life[slot(t)])
  <2>1. /\ Registers(t)
        /\ pc'[t] = "count"
        /\ ret'[t] = IF At(t, "operation") THEN "leaveWave" ELSE "idle"
        /\ Keeps(t)
        /\ snap' = snap
    BY <1>2, <1>1 DEF EndWaveWork, At, Goto, PushReady, Return, Scheduled, Set, Word, argVars,
      gen, queueVars, retainedMask, slot, Forget, Types, SlotTypes, ThreadTypes, LocalTypes,
      Words, Registers, Others, Keeps, Grounds
  <2>2. /\ UNCHANGED <<gate, inbox, carry, waveOwner, state, payload, free, nodeState>>
        /\ life' = [r \in Slots |-> IF r = slot(t) THEN Scheduled(life[r]) ELSE life[r]]
    BY <1>2, <1>1 DEF EndWaveWork, At, Set, slot, SlotTypes, Types, Grounds
  <2>3. life' \in [Slots -> Words]
    BY <1>2, ActorAssumption, <1>1, <2>2 DEF Types, SlotTypes, Words, Word, Phases, Flags,
      Scheduled, retainedMask, Grounds
  <2>4. SlotTypes'
    BY <1>2, <1>1, <2>2, <2>3 DEF Types, SlotTypes, Grounds
  <2>5. /\ \A r \in Slots : r # slot(t) => life'[r] = life[r]
        /\ life'[slot(t)] = Scheduled(life[slot(t)])
    BY <1>2, <1>1, <2>2 DEF Grounds
  <2>6. Advances(t, slot(t))
    BY <1>2, <1>1, <2>1, <2>5 DEF Advances, Same, Step, Word, EndWaveWork, ThreadSound, At, slot,
      gen, WaveSound, InWave, Busy, Activating, Pushing, Scheduled, retainedMask, Grounds
  <2>7. \A r \in Slots : LifeMoves(t, r)
    BY <1>2, <2>6, <2>2, <2>5 DEF LifeMoves, Keep
  <2>8. \A r \in Slots :
          /\ GateMoves(t, r) /\ InboxMoves(t, r) /\ OwnerMoves(t, r)
          /\ StateMoves(t, r) /\ FreeMoves(t, r)
    BY <1>2, <2>2, <2>5 DEF GateMoves, InboxMoves, OwnerMoves, StateMoves, FreeMoves
  <2>9. SlotMoves(t)
    BY <1>2, <2>7, <2>8 DEF SlotMoves
  <2>10. QueueTypes'
    BY <1>2, <1>1 DEF EndWaveWork, queueVars, Types, QueueTypes, Grounds
  <2>11. ThreadSound(t)'
    BY <1>2, <1>1, <2>1, <2>2 DEF EndWaveWork, slotVars, SlotSound, ThreadSound, Returns,
      MakerSound, SenderSound, OwnerSound, ReclaimerSound, ActivationSound, WaveSound, Making,
      Admitted, Pinning, Reserving, Entering, Activating, InWave, Owning, Pushing, Busy, At, slot,
      gen, Joined, Drained, Awaited, Heard, Untouched, RetireOpens, Reclaimable, HasInbox, Active,
      Word, retireModeMask, retainedMask, Keeps, Others, Registers, Confirms, Unmoved, Types,
      SlotTypes, QueueTypes, ThreadTypes, LocalTypes, Words, Starts, Scheduled, Signals, Queues,
      Grounds
  <2>12. RoleMoves(t)
    BY <1>2, <1>1, <2>1, <2>2 DEF EndWaveWork, slotVars, RoleMoves, Making, Pinning, Reserving,
      Pushing, At, slot, gen, Keeps, Grounds
  <2>13. Carries(t)
    BY <1>2, <1>1, <2>1, <2>2, <2>6 DEF EndWaveWork, Carries, Busy, Pushing, Activating, InWave,
      At, slot, Keeps, slotVars, queueVars, gen, Word, Scheduled, Advances, Same, Step, Grounds
  <2>14. QED
    BY <2>1, <2>4, <2>9, <2>10, <2>11, <2>12, <2>13 DEF Moves, Types, Registers
<1>3. CASE ~Interrupted(life[slot(t)]) /\ At(t, "operation")
  <2>1. /\ Registers(t)
        /\ pc'[t] = "leaveWave"
        /\ Keeps(t)
        /\ ret'[t] = ret[t]
        /\ snap' = snap
    BY <1>3, <1>1 DEF EndWaveWork, Goto, Set, argVars, ThreadTypes, LocalTypes, Registers, Others,
      Keeps, Grounds
  <2>2. /\ UNCHANGED <<gate, inbox, carry, waveOwner, state, payload, free, nodeState>>
        /\ life' = [r \in Slots |-> IF r = slot(t)
               THEN Word(life[r].gen, "idle", life[r].flags \cap retainedMask) ELSE life[r]]
    BY <1>3, <1>1 DEF EndWaveWork, At, Set, slot, SlotTypes, Types, Grounds
  <2>3. life' \in [Slots -> Words]
    BY <1>3, ActorAssumption, <1>1, <2>2 DEF Types, SlotTypes, Words, Word, Phases, Flags,
      Scheduled, retainedMask, Grounds
  <2>4. SlotTypes'
    BY <1>3, <1>1, <2>2, <2>3 DEF Types, SlotTypes, Grounds
  <2>5. /\ \A r \in Slots : r # slot(t) => life'[r] = life[r]
        /\ life'[slot(t)] = Word(life[slot(t)].gen, "idle", life[slot(t)].flags \cap retainedMask)
    BY <1>3, <1>1, <2>2 DEF Grounds
  <2>6. Advances(t, slot(t))
    BY <1>3, <1>1, <2>1, <2>5 DEF Advances, Same, Step, Word, EndWaveWork, ThreadSound, At,
      slot, gen, WaveSound, InWave, Busy, Activating, Pushing, Interrupted, retainedMask,
      Awaited, Grounds
  <2>7. \A r \in Slots : LifeMoves(t, r)
    BY <1>3, <2>6, <2>2, <2>5 DEF LifeMoves, Keep
  <2>8. \A r \in Slots :
          /\ GateMoves(t, r) /\ InboxMoves(t, r) /\ OwnerMoves(t, r)
          /\ StateMoves(t, r) /\ FreeMoves(t, r)
    BY <1>3, <2>2, <2>5 DEF GateMoves, InboxMoves, OwnerMoves, StateMoves, FreeMoves
  <2>9. SlotMoves(t)
    BY <1>3, <2>7, <2>8 DEF SlotMoves
  <2>10. QueueTypes'
    BY <1>3, <1>1 DEF EndWaveWork, queueVars, Types, QueueTypes, Grounds
  <2>11. ThreadSound(t)'
    BY <1>3, <1>1, <2>1, <2>2 DEF EndWaveWork, slotVars, SlotSound, ThreadSound, Returns,
      MakerSound, SenderSound, OwnerSound, ReclaimerSound, ActivationSound, WaveSound, Making,
      Admitted, Pinning, Reserving, Entering, Activating, InWave, Owning, Pushing, Busy, At, slot,
      gen, Joined, Drained, Awaited, Heard, Untouched, RetireOpens, Reclaimable, HasInbox, Active,
      Word, retireModeMask, retainedMask, Keeps, Others, Registers, Confirms, Unmoved, Types,
      SlotTypes, QueueTypes, ThreadTypes, LocalTypes, Words, Starts, Scheduled, Signals, Queues,
      Grounds
  <2>12. RoleMoves(t)
    BY <1>3, <1>1, <2>1, <2>2 DEF slotVars, RoleMoves, Making, Pinning, Reserving, Pushing, At,
      slot, gen, Keeps, Grounds
  <2>13. Carries(t)
    BY <1>3, <1>1, <2>1, <2>2, <2>6 DEF EndWaveWork, Carries, Busy, Pushing, Activating, InWave,
      At, slot, Keeps, slotVars, queueVars, gen, Word, Scheduled, Advances, Same, Step, Grounds
  <2>14. QED
    BY <2>1, <2>4, <2>9, <2>10, <2>11, <2>12, <2>13 DEF Moves, Types, Registers
<1>4. CASE ~Interrupted(life[slot(t)]) /\ ~At(t, "operation")
  <2>1. /\ Registers(t)
        /\ pc'[t] = "idle"
        /\ ret'[t] = "idle"
        /\ snap' = snap
    BY <1>4, <1>1, ReturnGoes DEF EndWaveWork, Goto, Set, argVars, ThreadTypes, LocalTypes,
      Registers, Others, Keeps, Grounds
  <2>2. /\ UNCHANGED <<gate, inbox, carry, waveOwner, state, payload, free, nodeState>>
        /\ life' = [r \in Slots |-> IF r = slot(t)
               THEN Word(life[r].gen, "idle", life[r].flags \cap retainedMask) ELSE life[r]]
    BY <1>4, <1>1 DEF EndWaveWork, At, Set, slot, SlotTypes, Types, Grounds
  <2>3. life' \in [Slots -> Words]
    BY <1>4, ActorAssumption, <1>1, <2>2 DEF Types, SlotTypes, Words, Word, Phases, Flags,
      Scheduled, retainedMask, Grounds
  <2>4. SlotTypes'
    BY <1>4, <1>1, <2>2, <2>3 DEF Types, SlotTypes, Grounds
  <2>5. /\ \A r \in Slots : r # slot(t) => life'[r] = life[r]
        /\ life'[slot(t)] = Word(life[slot(t)].gen, "idle", life[slot(t)].flags \cap retainedMask)
    BY <1>4, <1>1, <2>2 DEF Grounds
  <2>6. Advances(t, slot(t))
    BY <1>4, <1>1, <2>1, <2>5 DEF Advances, Same, Step, Word, EndWaveWork, ThreadSound, At,
      slot, gen, WaveSound, InWave, Busy, Activating, Pushing, Interrupted, retainedMask,
      Awaited, Grounds
  <2>7. \A r \in Slots : LifeMoves(t, r)
    BY <1>4, <2>6, <2>2, <2>5 DEF LifeMoves, Keep
  <2>8. \A r \in Slots :
          /\ GateMoves(t, r) /\ InboxMoves(t, r) /\ OwnerMoves(t, r)
          /\ StateMoves(t, r) /\ FreeMoves(t, r)
    BY <1>4, <2>2, <2>5 DEF GateMoves, InboxMoves, OwnerMoves, StateMoves, FreeMoves
  <2>9. SlotMoves(t)
    BY <1>4, <2>7, <2>8 DEF SlotMoves
  <2>10. QueueTypes'
    BY <1>4, <1>1 DEF EndWaveWork, queueVars, Types, QueueTypes, Grounds
  <2>11. ThreadSound(t)'
    BY <1>4, <1>1, <2>1, IdleSound DEF ThreadSound, Returns, MakerSound, SenderSound, OwnerSound,
      ReclaimerSound, ActivationSound, WaveSound, EndWaveWork, At, Pushing, Starts, Grounds
  <2>12. RoleMoves(t)
    BY <1>4, <1>1, <2>1, <2>2 DEF EndWaveWork, slotVars, RoleMoves, Making, Pinning, Reserving,
      Pushing, At, slot, gen, Keeps, Grounds
  <2>13. Carries(t)
    BY <1>4, <1>1, <2>1, <2>2, <2>6 DEF EndWaveWork, Carries, Busy, Pushing, Activating, InWave,
      At, slot, Keeps, slotVars, queueVars, gen, Word, Scheduled, Advances, Same, Step, Grounds
  <2>14. QED
    BY <2>1, <2>4, <2>9, <2>10, <2>11, <2>12, <2>13 DEF Moves, Types, Registers
<1>5. QED
  BY <1>2, <1>3, <1>4

LEMMA LeaveWaveMoves ==
    ASSUME Inv, NEW t \in Threads, LeaveWave(t)
    PROVE  Moves(t) /\ Carries(t)
<1>1. Grounds(t)
  BY GroundsHold
<1>2. /\ Registers(t)
      /\ pc'[t] = "idle"
      /\ ret'[t] = "idle"
      /\ snap' = snap
  BY <1>1, ReturnGoes DEF LeaveWave, Set, ThreadTypes, LocalTypes, Registers, Others, Keeps,
    Grounds
<1>3. /\ UNCHANGED <<life, gate, inbox, carry, state, payload, free, nodeState>>
      /\ waveOwner' = [r \in Slots |-> IF r = slot(t) THEN None ELSE waveOwner[r]]
  BY <1>1 DEF LeaveWave, At, Set, queueVars, slot, SlotTypes, Types, Grounds
<1>4. waveOwner' \in [Slots -> Threads \cup {None}]
  BY ActorAssumption, <1>1, <1>3 DEF Types, SlotTypes, Grounds
<1>5. SlotTypes'
  BY <1>1, <1>3, <1>4 DEF Types, SlotTypes, Grounds
<1>6. /\ \A r \in Slots : r # slot(t) => waveOwner'[r] = waveOwner[r]
      /\ waveOwner'[slot(t)] = None
  BY <1>1, <1>3 DEF Grounds
<1>7. \A r \in Slots : LifeMoves(t, r)
  BY <1>3, <1>6 DEF LifeMoves, Keep
<1>8. \A r \in Slots : OwnerMoves(t, r)
  BY <1>1, <1>2, <1>3, <1>6 DEF OwnerMoves, LeaveWave, At, slot, gen, Owning, Grounds
<1>9. \A r \in Slots :
        /\ GateMoves(t, r) /\ InboxMoves(t, r)
        /\ StateMoves(t, r) /\ FreeMoves(t, r)
  BY <1>3, <1>6 DEF GateMoves, InboxMoves, StateMoves, FreeMoves
<1>10. SlotMoves(t)
  BY <1>7, <1>9, <1>8 DEF SlotMoves
<1>11. QueueTypes'
  BY <1>1 DEF LeaveWave, At, Set, queueVars, slot, Types, QueueTypes, Grounds
<1>12. ThreadSound(t)'
  BY <1>1, <1>2, IdleSound DEF ThreadSound, Returns, MakerSound, SenderSound, OwnerSound,
    ReclaimerSound, ActivationSound, WaveSound, LeaveWave, At, Pushing, Starts, Grounds
<1>13. RoleMoves(t)
  BY <1>1, <1>2, <1>3 DEF LeaveWave, slotVars, RoleMoves, Making, Pinning, Reserving, Pushing, At,
    slot, gen, Keeps, Grounds
<1>14. Carries(t)
  BY <1>1, <1>2, <1>3 DEF LeaveWave, Carries, Busy, Pushing, Activating, InWave, At, queueVars
<1>15. QED
  BY <1>2, <1>5, <1>10, <1>11, <1>12, <1>13, <1>14 DEF Moves, Types, Registers
=============================================================================
