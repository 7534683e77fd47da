---------------------------- MODULE Actors_proofs ----------------------------
(***************************************************************************)
(* The actors, proved for every number of slots, threads, nodes and        *)
(* generations: the inductive invariant of the lifecycle word, and what it *)
(* promises a sender, an owner, an activation and a wave; the count of the *)
(* ready queue; the nodes and the fatal checks; and that the inboxes       *)
(* implement Mailbox.                                                      *)
(***************************************************************************)
EXTENDS ActorMoves_proofs

-----------------------------------------------------------------------------
(* What a step of thread t leaves to the others.                           *)

(* An activation's slot is scheduled or running.                           *)
LEMMA BusyPhase ==
    ASSUME Inv, NEW t \in Threads, Busy(t)
    PROVE  slot(t) \in Slots /\ life[slot(t)].phase \in {"scheduled", "running"}
<1>1. ThreadSound(t) /\ slot(t) \in Slots
  BY DEF Inv, Types, ThreadTypes, slot
<1>2. CASE Pushing(t)
  BY <1>1, <1>2 DEF Inv, TokenSound
<1>3. CASE Activating(t)
  BY <1>1, <1>3 DEF ThreadSound, ActivationSound
<1>4. CASE InWave(t)
  BY <1>1, <1>4 DEF ThreadSound, WaveSound
<1>5. QED
  BY <1>1, <1>2, <1>3, <1>4 DEF Busy

(* A slot has one activation.                                              *)
LEMMA OneBusy ==
    ASSUME Inv, NEW t \in Threads, NEW u \in Threads, Busy(t), Busy(u), slot(t) = slot(u)
    PROVE  t = u
<1>1. slot(t) \in Slots /\ TokenSound(slot(t))
  BY DEF Inv, Types, ThreadTypes, slot
<1>2. Has(t, slot(t)) /\ Has(u, slot(t))
  BY DEF Has
<1>3. QED
  BY <1>1, <1>2 DEF TokenSound

(* createActor and reclaimActor have the slot to themselves: nobody has    *)
(* marked it and no wave owns it.                                          *)
LEMMA MakerPhase ==
    ASSUME Inv, NEW t \in Threads, Making(t)
    PROVE  /\ slot(t) \in Slots /\ life[slot(t)].gen = gen(t) /\ slot(t) \notin free
           /\ life[slot(t)].phase \in {"vacant", "constructing", "reclaiming"}
           /\ life[slot(t)].flags = {} /\ waveOwner[slot(t)] = None
           /\ At(t, "build") => life[slot(t)].phase = "constructing"
<1>1. ThreadSound(t) /\ slot(t) \in Slots
  BY DEF Inv, Types, ThreadTypes, slot
<1>2. MakerSound(t) /\ SlotSound(slot(t))
  BY <1>1 DEF Inv, ThreadSound
<1>3. life[slot(t)].phase \in {"vacant", "constructing", "reclaiming"}
  BY <1>2 DEF MakerSound, Making, At
<1>4. QED
  BY <1>1, <1>2, <1>3 DEF MakerSound, SlotSound, At

(* A gate that joins every sender stays so.                                *)
LEMMA GateStays ==
    ASSUME Inv, NEW t \in Threads, Moves(t), NEW s \in Slots,
           Joined(gate[s]), life[s].phase # "constructing"
    PROVE  Joined(gate'[s])
<1>1. GateMoves(t, s)
  BY DEF Moves, SlotMoves
<1>2. CASE gate'[s] = gate[s]
  BY <1>2
<1>3. CASE Reopens(t, s)
  BY <1>3, MakerPhase DEF Reopens, Making, At
<1>4. CASE Closes(s)
  BY <1>4 DEF Closes, Joined
<1>5. CASE Admits(t, s)
  BY <1>5 DEF Admits, Joined
<1>6. CASE Releases(t, s)
  BY <1>6, NoneReserves DEF Releases, Joined, Reserving, At
<1>7. QED
  BY <1>1, <1>2, <1>3, <1>4, <1>5, <1>6 DEF GateMoves

(* A slot that nobody has a reservation on gets none while it is inactive. *)
LEMMA UntouchedStays ==
    ASSUME Inv, NEW t \in Threads, Moves(t), NEW s \in Slots, Untouched(s),
           life[s].phase \notin Active, ~Reopens(t, s)
    PROVE  Untouched(s)'
<1>1. GateMoves(t, s) /\ RoleMoves(t) /\ Others(t)
  BY DEF Moves, SlotMoves
<1>2. gate'[s].count = 0 /\ (gate[s].closed => gate'[s].closed)
  <2>1. CASE gate'[s] = gate[s]
    BY <2>1 DEF Untouched
  <2>2. CASE Reopens(t, s)
    BY <2>2
  <2>3. CASE Closes(s)
    BY <2>3 DEF Closes, Untouched
  <2>4. CASE Admits(t, s)
    BY <2>4 DEF Admits, Untouched
  <2>5. CASE Releases(t, s)
    BY <2>5, NoneReserves DEF Releases, Untouched, Reserving, At
  <2>6. QED
    BY <1>1, <2>1, <2>2, <2>3, <2>4, <2>5 DEF GateMoves
<1>3. At(t, "reserve")' => slot(t)' # s
  BY <1>1 DEF RoleMoves
<1>4. QED
  BY <1>1, <1>2, <1>3 DEF Untouched, Others, At, slot

(* An empty inbox behind such a gate stays empty.                          *)
LEMMA DrainedStays ==
    ASSUME Inv, NEW t \in Threads, Moves(t), NEW s \in Slots, Drained(s),
           life[s].phase # "constructing", ~Works(t, s)
    PROVE  Drained(s)'
<1>1. InboxMoves(t, s) /\ Joined(gate'[s])
  BY GateStays DEF Moves, SlotMoves, Drained
<1>2. CASE inbox'[s] = inbox[s] /\ carry'[s] = carry[s]
  BY <1>1, <1>2 DEF Drained, Joined
<1>3. CASE Resets(t, s)
  BY <1>1, <1>3 DEF Resets, Drained, Joined
<1>4. CASE Pushes(t, s)
  BY <1>4, NoneReserves DEF Pushes, Drained, Joined, Reserving, At
<1>5. QED
  BY <1>1, <1>2, <1>3, <1>4 DEF InboxMoves

(* Whoever waits for the actor is heard, unless the activation works on it.*)
LEMMA HeardOrPending ==
    ASSUME Inv, NEW t \in Threads, Moves(t), NEW s \in Slots, Heard(s),
           life[s].phase \in Active, ~Works(t, s)
    PROVE  Awaited(s)' \/ (At(t, "signal") /\ ret[t] = "release" /\ slot(t) = s
                             /\ life[s].phase = "idle" /\ life'[s].phase # "idle")
<1>1. InboxMoves(t, s) /\ RoleMoves(t) /\ Others(t)
  BY DEF Moves, SlotMoves
<1>2. CASE inbox'[s] = inbox[s] /\ carry'[s] = carry[s]
  <2>1. CASE inbox[s] = <<>>
    BY <1>2, <2>1 DEF Awaited, Heard
  <2>2. CASE inbox[s] # <<>>
    <3>1. PICK v \in Threads : At(v, "signal") /\ ret[v] = "release" /\ slot(v) = s
      BY <2>2 DEF Heard
    <3>2. CASE v = t
      BY <1>1, <3>1, <3>2 DEF RoleMoves, Awaited
    <3>3. CASE v # t
      BY <1>1, <1>2, <3>1, <3>3 DEF Others, Awaited, Heard, At, slot
    <3>4. QED
      BY <3>2, <3>3
  <2>3. QED
    BY <2>1, <2>2
<1>3. CASE Resets(t, s)
  BY <1>3, MakerPhase DEF Resets, Making, Active, At
<1>4. CASE Pushes(t, s)
  BY <1>4 DEF Pushes, Awaited, Heard, At, slot
<1>5. QED
  BY <1>1, <1>2, <1>3, <1>4 DEF InboxMoves

(* What a running actor must still hear of stays signalled, or will be.    *)
LEMMA AwaitedStays ==
    ASSUME Inv, NEW t \in Threads, Moves(t), NEW s \in Slots, Awaited(s), ~Works(t, s),
           life[s].phase \in {"scheduled", "running"}, life'[s].phase = life[s].phase,
           ~(Busy(t) /\ slot(t) = s)
    PROVE  Awaited(s)'
<1>1. CASE Heard(s)
  BY <1>1, HeardOrPending DEF Active
<1>2. CASE "pending" \in life[s].flags
  <2>1. LifeMoves(t, s)
    BY DEF Moves, SlotMoves
  <2>2. "pending" \in life'[s].flags
    BY <1>2, <2>1 DEF LifeMoves, Keep, Begins, Fails, Opens, Marks, Wakens, Advances, Unpins,
      Ends, Claims, Frees, Step
  <2>3. QED
    BY <2>2 DEF Awaited
<1>3. QED
  BY <1>1, <1>2 DEF Awaited

(* Another thread's step leaves a thread's place to return to.             *)
LEMMA ReturnsStay ==
    ASSUME Inv, NEW t \in Threads, Moves(t), NEW u \in Threads \ {t}
    PROVE  Returns(u)'
<1>1. Returns(u) /\ Others(t)
  BY DEF Inv, ThreadSound, Moves
<1>2. /\ pc'[u] = pc[u] /\ ret'[u] = ret[u] /\ h'[u] = h[u] /\ node'[u] = node[u]
      /\ snap'[u] = snap[u]
  BY <1>1 DEF Others
<1>3. QED
  BY <1>1, <1>2 DEF Returns, Pushing, At

(* Another thread is where it was, and its slot moves along an edge of t.  *)
LEMMA OtherThread ==
    ASSUME Inv, NEW t \in Threads, Moves(t), NEW u \in Threads \ {t}
    PROVE  /\ ThreadSound(u) /\ slot(u) \in Slots /\ SlotSound(slot(u)) /\ Others(t)
           /\ pc'[u] = pc[u] /\ ret'[u] = ret[u] /\ h'[u] = h[u] /\ seen'[u] = seen[u]
           /\ quiet'[u] = quiet[u] /\ node'[u] = node[u] /\ mode'[u] = mode[u]
           /\ again'[u] = again[u] /\ snap'[u] = snap[u]
           /\ LifeMoves(t, slot(u)) /\ GateMoves(t, slot(u)) /\ InboxMoves(t, slot(u))
           /\ OwnerMoves(t, slot(u)) /\ StateMoves(t, slot(u)) /\ FreeMoves(t, slot(u))
<1>1. slot(u) \in Slots
  BY DEF Inv, Types, ThreadTypes, slot
<1>2. ThreadSound(u) /\ SlotSound(slot(u))
  BY <1>1 DEF Inv
<1>3. Others(t) /\ SlotMoves(t)
  BY DEF Moves
<1>4. QED
  BY <1>1, <1>2, <1>3 DEF Others, SlotMoves

(* Another thread's step leaves what a maker relies on.                    *)
LEMMA MakerStays ==
    ASSUME Inv, NEW t \in Threads, Moves(t), NEW u \in Threads \ {t}
    PROVE  MakerSound(u)'
<1>0. PICK s \in Slots : s = slot(u)
  BY OtherThread
<1>1. /\ MakerSound(u) /\ pc'[u] = pc[u] /\ h'[u] = h[u]
      /\ LifeMoves(t, s) /\ StateMoves(t, s) /\ FreeMoves(t, s)
  BY <1>0, OtherThread DEF ThreadSound
<1>2. SUFFICES ASSUME Making(u) PROVE MakerSound(u)'
  BY <1>1 DEF MakerSound, Making, At
<1>3. /\ life[s].gen = gen(u) /\ s \notin free
      /\ life[s].phase \in {"vacant", "constructing", "reclaiming"}
  BY <1>0, <1>2, MakerPhase
<1>4. ~(Making(t) /\ slot(t) = s)
  BY <1>0, <1>2 DEF Inv, Alone, slot
<1>5. Keep(s)
  BY <1>1, <1>3, <1>4 DEF LifeMoves, Begins, Fails, Opens, Marks, Wakens, Advances, Unpins, Ends,
    Claims, Frees, Step, Making, At, Active
<1>6. s \notin free' /\ state'[s] = state[s] /\ payload'[s] = payload[s]
  BY <1>1, <1>3, <1>4 DEF FreeMoves, StateMoves, Making
<1>7. At(u, "build") => Untouched(s)'
  BY <1>0, <1>1, <1>3, <1>4, UntouchedStays DEF MakerSound, Reopens, Active, Making, At
<1>8. QED
  BY <1>0, <1>1, <1>2, <1>3, <1>5, <1>6, <1>7 DEF MakerSound, Making, At, Keep, slot, gen,
    Untouched

(* A sender's reservation keeps its generation active.                     *)
LEMMA SenderStays ==
    ASSUME Inv, NEW t \in Threads, Moves(t), NEW u \in Threads \ {t}
    PROVE  SenderSound(u)'
<1>0. PICK s \in Slots : s = slot(u)
  BY OtherThread
<1>1. /\ SenderSound(u) /\ pc'[u] = pc[u] /\ h'[u] = h[u] /\ ret'[u] = ret[u]
      /\ LifeMoves(t, s)
  BY <1>0, OtherThread DEF ThreadSound
<1>2. SUFFICES ASSUME Admitted(u) PROVE life'[s].gen = gen(u) /\ life'[s].phase \in Active
  BY <1>0, <1>1 DEF SenderSound, Admitted, Pushing, At, slot, gen
<1>3. life[s].gen = gen(u) /\ life[s].phase \in Active
  BY <1>0, <1>1, <1>2 DEF SenderSound
<1>4. ~Drained(s)
  <2>1. Reserving(u)
    BY <1>2 DEF Reserving, Admitted
  <2>2. gate[s].count # 0
    BY <1>0, <1>1, <2>1, NoneReserves
  <2>3. QED
    BY <2>2 DEF Drained, Joined
<1>5. QED
  BY <1>1, <1>3, <1>4 DEF LifeMoves, Keep, Begins, Fails, Opens, Marks, Wakens, Advances,
    Unpins, Ends, Claims, Frees, Step, Same, Active

(* Another thread's step leaves what a retirer with the pin relies on.     *)
LEMMA OwnerStays ==
    ASSUME Inv, NEW t \in Threads, Moves(t), NEW u \in Threads \ {t}
    PROVE  OwnerSound(u)'
<1>0. PICK s \in Slots : s = slot(u)
  BY OtherThread
<1>1. /\ OwnerSound(u) /\ pc'[u] = pc[u] /\ h'[u] = h[u] /\ ret'[u] = ret[u]
      /\ seen'[u] = seen[u] /\ mode'[u] = mode[u]
      /\ LifeMoves(t, s) /\ SlotSound(s)
  BY <1>0, OtherThread DEF ThreadSound
<1>2. Pinning(u) => ~(Pinning(t) /\ slot(t) = s)
  BY <1>0 DEF Inv, Alone
<1>3. Pinning(u) => life[s].gen = gen(u) /\ "op" \in life[s].flags
  BY <1>0, <1>1 DEF OwnerSound
<1>4. ASSUME Pinning(u) PROVE life'[s].gen = gen(u) /\ "op" \in life'[s].flags
  <2>1. CASE Keep(s)
    BY <1>3, <1>4, <2>1 DEF Keep
  <2>2. CASE Begins(t, s) \/ Fails(t, s) \/ Opens(t, s) \/ Claims(t, s) \/ Frees(t, s)
    BY <1>1, <1>3, <1>4, <2>2 DEF Begins, Fails, Opens, Claims, Frees, Step, SlotSound
  <2>3. CASE Marks(s)
    BY <1>3, <1>4, <2>3 DEF Marks, Same
  <2>4. CASE Wakens(t, s)
    BY <1>3, <1>4, <2>4 DEF Wakens, Same, retainedMask
  <2>5. CASE Advances(t, s)
    BY <1>3, <1>4, <2>5 DEF Advances, Same
  <2>6. CASE Unpins(t, s) \/ Ends(t, s)
    BY <1>2, <1>4, <2>6 DEF Unpins, Ends, Pinning, At
  <2>7. QED
    BY <1>1, <2>1, <2>2, <2>3, <2>4, <2>5, <2>6 DEF LifeMoves
<1>5. ASSUME pc[u] \in {"driveJoin", "publish"} PROVE Joined(gate'[s])
  <2>1. Pinning(u) /\ Joined(gate[s])
    BY <1>0, <1>1, <1>5 DEF Pinning, OwnerSound
  <2>2. life[s].phase # "constructing"
    BY <1>1, <1>3, <2>1 DEF SlotSound
  <2>3. QED
    BY <1>1, <2>1, <2>2, GateStays
<1>6. ASSUME At(u, "publish") PROVE life'[s] = seen[u] /\ Drained(s)'
  <2>1. /\ Pinning(u) /\ life[s] = seen[u] /\ Drained(s) /\ life[s].phase = "idle"
        /\ "retire" \in life[s].flags
    BY <1>0, <1>1, <1>6 DEF Pinning, OwnerSound, At
  <2>2. ~(Reserving(t) /\ slot(t) = s)
    BY <2>1, <1>1, NoneReserves DEF Drained, Joined
  <2>3. Keep(s)
    BY <1>1, <1>2, <1>3, <2>1, <2>2 DEF LifeMoves, Begins, Fails, Opens, Marks, Wakens,
      Advances, Unpins, Ends, Claims, Frees, Step, Pinning, At
  <2>4. Drained(s)'
    BY <1>1, <2>1, <2>3, DrainedStays DEF Works, Keep
  <2>5. QED
    BY <2>1, <2>3, <2>4 DEF Keep
<1>7. slot(u)' = s /\ gen(u)' = gen(u) /\ (Pinning(u)' <=> Pinning(u))
  BY <1>0, <1>1 DEF Pinning, Pushing, At, slot, gen
<1>8. QED
  BY <1>1, <1>4, <1>5, <1>6, <1>7 DEF OwnerSound, At

(* A generation only grows, and a word that is retired is reclaimed next.  *)
LEMMA ReclaimerStays ==
    ASSUME Inv, NEW t \in Threads, Moves(t), NEW u \in Threads \ {t}
    PROVE  ReclaimerSound(u)'
<1>0. PICK s \in Slots : s = slot(u)
  BY OtherThread
<1>1. /\ ReclaimerSound(u) /\ pc'[u] = pc[u] /\ h'[u] = h[u] /\ seen'[u] = seen[u]
      /\ LifeMoves(t, s) /\ OwnerMoves(t, s)
  BY <1>0, OtherThread DEF ThreadSound
<1>2. /\ life[s] \in Words /\ life'[s] \in Words /\ gen(u) \in 0 .. MaxGen /\ MaxGen \in Nat
      /\ ThreadSound(t)
  BY ActorAssumption DEF Inv, Moves, Types, SlotTypes, ThreadTypes, gen
<1>3. SUFFICES ASSUME pc[u] \in {"reclaimWave", "claim"}
               PROVE  /\ \/ life'[s].gen > gen(u)
                         \/ life'[s].gen = gen(u) /\ life'[s].phase \in {"reclaiming", "vacant"}
                         \/ life'[s] = seen[u]
                      /\ At(u, "claim") /\ life'[s] = seen[u] => waveOwner'[s] = None
  BY <1>0, <1>1 DEF ReclaimerSound, At, slot, gen
<1>4. /\ seen[u] = Word(gen(u), "retired", {})
      /\ \/ life[s].gen > gen(u)
         \/ life[s].gen = gen(u) /\ life[s].phase \in {"reclaiming", "vacant"}
         \/ life[s] = seen[u]
      /\ At(u, "claim") /\ life[s] = seen[u] => waveOwner[s] = None
  BY <1>0, <1>1, <1>3 DEF ReclaimerSound
<1>5. CASE life[s].gen > gen(u)
  <2>1. life'[s].gen > gen(u)
    BY <1>1, <1>2, <1>5 DEF LifeMoves, Keep, Begins, Fails, Opens, Marks, Wakens, Advances,
      Unpins, Ends, Claims, Frees, Same, Words
  <2>2. life'[s] # seen[u]
    BY <1>2, <1>4, <2>1 DEF Word, Words
  <2>3. QED
    BY <2>1, <2>2
<1>6. CASE life[s].gen = gen(u) /\ life[s].phase \in {"reclaiming", "vacant"}
  <2>1. \/ life'[s].gen > gen(u)
        \/ life'[s].gen = gen(u) /\ life'[s].phase \in {"reclaiming", "vacant"}
    BY <1>1, <1>2, <1>6 DEF LifeMoves, Keep, Begins, Fails, Opens, Marks, Wakens, Advances,
      Unpins, Ends, Claims, Frees, Same, Step, Words, Active
  <2>2. life'[s] # seen[u]
    BY <1>2, <1>4, <2>1 DEF Word, Words
  <2>3. QED
    BY <2>1, <2>2
<1>7. CASE life[s] = seen[u]
  <2>1. life[s].gen = gen(u) /\ life[s].phase = "retired" /\ life[s].flags = {}
    BY <1>4, <1>7 DEF Word
  <2>2. Keep(s) \/ Unpins(t, s) \/ Claims(t, s)
    BY <1>1, <2>1 DEF LifeMoves, Begins, Fails, Opens, Marks, Wakens, Advances, Ends, Frees, Step,
      Active
  <2>3. life'[s] = life[s] \/ (life'[s].gen = gen(u) /\ life'[s].phase = "reclaiming")
    <3>1. CASE Unpins(t, s)
      <4>1. life'[s].gen = life[s].gen /\ life'[s].phase = life[s].phase
            /\ life'[s].flags = life[s].flags
        BY <2>1, <3>1 DEF Unpins, Same
      <4>2. QED
        BY <1>2, <4>1 DEF Words
    <3>2. CASE Keep(s) \/ Claims(t, s)
      BY <2>1, <3>2 DEF Keep, Claims, Step, Same
    <3>3. QED
      BY <2>2, <3>1, <3>2
  <2>4. At(t, "waveCheck") => slot(t) # s
    BY <1>2, <2>1 DEF ThreadSound, WaveSound, InWave, At
  <2>5. waveOwner[s] = None => waveOwner'[s] = None
    BY <1>1, <2>4 DEF OwnerMoves
  <2>6. QED
    BY <1>4, <1>7, <2>1, <2>3, <2>5
<1>8. QED
  BY <1>4, <1>5, <1>6, <1>7

(* The word of a slot stays with its activation.                           *)
LEMMA BusyKept ==
    ASSUME Inv, NEW t \in Threads, Moves(t), NEW u \in Threads \ {t}, Busy(u),
           NEW s \in Slots, s = slot(u)
    PROVE  /\ ~(Busy(t) /\ slot(t) = s) /\ ~Works(t, s)
           /\ life'[s].phase = life[s].phase /\ life'[s].gen = life[s].gen
<1>1. life[s].phase \in {"scheduled", "running"}
  BY BusyPhase
<1>2. ~(Busy(t) /\ slot(t) = s)
  BY OneBusy
<1>3. ~Works(t, s)
  BY <1>2 DEF Works, Busy
<1>4. LifeMoves(t, s)
  BY DEF Moves, SlotMoves
<1>5. QED
  BY <1>1, <1>2, <1>3, <1>4 DEF LifeMoves, Keep, Begins, Fails, Opens, Marks, Wakens, Advances,
    Unpins, Ends, Claims, Frees, Same, Step, Active

(* Another thread's step leaves what an activation relies on.              *)
LEMMA ActivationStays ==
    ASSUME Inv, NEW t \in Threads, Moves(t), NEW u \in Threads \ {t}
    PROVE  ActivationSound(u)'
<1>0. PICK s \in Slots : s = slot(u)
  BY OtherThread
<1>1. /\ ActivationSound(u) /\ pc'[u] = pc[u] /\ ret'[u] = ret[u] /\ h'[u] = h[u]
      /\ seen'[u] = seen[u] /\ quiet'[u] = quiet[u] /\ again'[u] = again[u]
  BY <1>0, OtherThread DEF ThreadSound
<1>2. CASE ~Activating(u)
  BY <1>1, <1>2 DEF ActivationSound, Activating, Entering, At
<1>3. CASE Activating(u)
  <2>1. /\ ~(Busy(t) /\ slot(t) = s) /\ ~Works(t, s)
        /\ life'[s].phase = life[s].phase /\ life'[s].gen = life[s].gen
        /\ life[s].phase \in {"scheduled", "running"}
    BY <1>0, <1>3, BusyKept, BusyPhase DEF Busy
  <2>2. Joined(gate[s]) => Joined(gate'[s])
    BY <2>1, GateStays
  <2>3. Drained(s) => Drained(s)'
    BY <2>1, DrainedStays
  <2>4. Awaited(s) => Awaited(s)'
    BY <2>1, AwaitedStays
  <2>5. s = slot(u)' /\ (Activating(u)' <=> Activating(u)) /\ (Entering(u)' <=> Entering(u))
        /\ gen(u)' = gen(u)
    BY <1>0, <1>1 DEF slot, gen, Activating, Entering, At
  <2>6. /\ At(u, "entryInbox") /\ quiet[u] => Joined(gate'[s])
        /\ At(u, "exitInbox") /\ "retire" \in seen[u].flags /\ quiet[u] => Joined(gate'[s])
    BY <1>0, <1>1, <2>2 DEF ActivationSound
  <2>7. /\ At(u, "retireNow") => Drained(s)'
        /\ At(u, "leave") /\ "retire" \in seen[u].flags /\ quiet[u] => Drained(s)'
        /\ At(u, "leave") /\ "retire" \notin seen[u].flags /\ ~again[u] => Awaited(s)'
    BY <1>0, <1>1, <2>3, <2>4 DEF ActivationSound
  <2>8. /\ Entering(u) =>
              life'[s].gen = gen(u) /\ life'[s].phase = "scheduled" /\ seen[u].gen = gen(u)
        /\ ~Entering(u) => life'[s].gen = gen(u) /\ life'[s].phase = "running"
    BY <1>0, <1>1, <1>3, <2>1 DEF ActivationSound
  <2>9. Drained(slot(u))' = Drained(s)' /\ Awaited(slot(u))' = Awaited(s)'
    BY <2>5
  <2>10. QED
    BY <1>1, <2>5, <2>6, <2>7, <2>8, <2>9 DEF ActivationSound, At
<1>4. QED
  BY <1>2, <1>3

(* Another thread's step leaves what a wave relies on.                     *)
LEMMA WaveStays ==
    ASSUME Inv, NEW t \in Threads, Moves(t), NEW u \in Threads \ {t}
    PROVE  WaveSound(u)'
<1>0. PICK s \in Slots : s = slot(u)
  BY OtherThread
<1>1. /\ WaveSound(u) /\ pc'[u] = pc[u] /\ ret'[u] = ret[u] /\ h'[u] = h[u]
      /\ OwnerMoves(t, s) /\ WaveSound(t)
  BY <1>0, OtherThread DEF ThreadSound, Inv
<1>2. s = slot(u)' /\ (InWave(u)' <=> InWave(u)) /\ (Owning(u)' <=> Owning(u)) /\ gen(u)' = gen(u)
  BY <1>0, <1>1 DEF slot, gen, InWave, Owning, Pushing, At
<1>3. ASSUME InWave(u)
      PROVE  life'[s].gen = gen(u) /\ life'[s].phase = "scheduled" /\ Awaited(s)'
  <2>1. life[s].gen = gen(u) /\ life[s].phase = "scheduled" /\ Awaited(s)
    BY <1>0, <1>1, <1>3 DEF WaveSound
  <2>2. /\ ~(Busy(t) /\ slot(t) = s) /\ ~Works(t, s)
        /\ life'[s].phase = life[s].phase /\ life'[s].gen = life[s].gen
    BY <1>0, <1>3, BusyKept DEF Busy
  <2>3. QED
    BY <2>1, <2>2, AwaitedStays
<1>4. ASSUME Owning(u) PROVE waveOwner'[s] = u
  <2>1. waveOwner[s] = u /\ u # None
    BY <1>0, <1>1, <1>4, ActorAssumption DEF WaveSound
  <2>2. ~(slot(t) = s /\ At(t, "build"))
    BY <2>1, MakerPhase DEF Making, At
  <2>3. ~(slot(t) = s /\ Owning(t))
    BY <1>1, <2>1 DEF WaveSound
  <2>4. QED
    BY <1>1, <2>1, <2>2, <2>3 DEF OwnerMoves
<1>5. Awaited(slot(u))' = Awaited(s)'
  BY <1>2
<1>6. QED
  BY <1>2, <1>3, <1>4, <1>5 DEF WaveSound

(* Every thread, the stepping one included, keeps what it relies on.       *)
LEMMA ThreadStays ==
    ASSUME Inv, NEW t \in Threads, Moves(t), NEW u \in Threads
    PROVE  ThreadSound(u)'
<1>1. CASE u = t
  BY <1>1 DEF Moves
<1>2. CASE u # t
  BY <1>2, ReturnsStay, MakerStays, SenderStays, OwnerStays, ReclaimerStays, ActivationStays,
    WaveStays
    DEF ThreadSound
<1>3. QED
  BY <1>1, <1>2

-----------------------------------------------------------------------------
(* What holds of a slot holds after a step.                                *)

(* A push, and what an activation does to the inbox, find an active actor. *)
LEMMA InboxStays ==
    ASSUME Inv, NEW t \in Threads, Moves(t), NEW s \in Slots,
           inbox[s] = <<>>, carry[s] = <<>>, ~Works(t, s), ~(At(t, "push") /\ slot(t) = s)
    PROVE  inbox'[s] = <<>> /\ carry'[s] = <<>>
<1>1. InboxMoves(t, s)
  BY DEF Moves, SlotMoves
<1>2. QED
  BY <1>1 DEF InboxMoves, Resets, Pushes

(* A slot outside the active and retired phases has no mark and no owner.  *)
LEMMA UnownedStays ==
    ASSUME Inv, NEW t \in Threads, Moves(t), NEW s \in Slots
    PROVE  life'[s].phase \in {"vacant", "constructing", "reclaiming"} =>
              life'[s].flags = {} /\ waveOwner'[s] = None
<1>1. LifeMoves(t, s) /\ OwnerMoves(t, s) /\ SlotSound(s) /\ WaveSound(t)
  BY DEF Moves, SlotMoves, Inv, ThreadSound
<1>2. SUFFICES ASSUME life'[s].phase \in {"vacant", "constructing", "reclaiming"}
               PROVE  life'[s].flags = {} /\ waveOwner'[s] = None
  OBVIOUS
<1>3. /\ life[s].phase \in {"vacant", "constructing", "reclaiming", "retired"}
      /\ life'[s].flags = {} /\ waveOwner[s] = None
  BY <1>1, <1>2 DEF SlotSound, LifeMoves, Keep, Begins, Fails, Opens, Marks, Wakens, Advances,
    Unpins, Ends, Claims, Frees, Step, Active
<1>4. ~(slot(t) = s /\ At(t, "waveCheck"))
  BY <1>1, <1>3 DEF WaveSound, InWave, At
<1>5. QED
  BY <1>1, <1>3, <1>4 DEF OwnerMoves

(* A retired slot keeps at most its pin; an idle one has no pending wake.  *)
LEMMA FlagsStay ==
    ASSUME Inv, NEW t \in Threads, Moves(t), NEW s \in Slots
    PROVE  /\ life'[s].phase = "retired" => life'[s].flags \subseteq {"op"}
           /\ life'[s].phase = "idle" => "pending" \notin life'[s].flags
<1>1. LifeMoves(t, s) /\ SlotSound(s)
  BY DEF Moves, SlotMoves, Inv
<1>2. QED
  BY <1>1 DEF SlotSound, LifeMoves, Keep, Begins, Fails, Opens, Marks, Wakens, Advances, Unpins,
    Ends, Claims, Frees, Step, Active

(* The state and the payload are those of the active generation.           *)
LEMMA StateStays ==
    ASSUME Inv, NEW t \in Threads, Moves(t), NEW s \in Slots, life'[s].phase \in Active
    PROVE  state'[s] = life'[s].gen /\ payload'[s] = life'[s].gen
<1>1. LifeMoves(t, s) /\ StateMoves(t, s) /\ SlotSound(s) /\ MakerSound(t)
  BY DEF Moves, SlotMoves, Inv, ThreadSound
<1>2. CASE Opens(t, s)
  BY <1>1, <1>2 DEF Opens, Same, StateMoves, MakerSound, Making, At
<1>3. CASE ~Opens(t, s)
  <2>1. life[s].phase \in Active /\ life'[s].gen = life[s].gen
    BY <1>1, <1>3 DEF LifeMoves, Keep, Begins, Fails, Marks, Wakens, Advances, Unpins,
      Ends, Claims, Frees, Step, Same, Active
  <2>2. ~(slot(t) = s /\ pc[t] \in {"build", "destroy"})
    BY <2>1, MakerPhase DEF Making, Active
  <2>3. QED
    BY <1>1, <2>1, <2>2 DEF StateMoves, SlotSound
<1>4. QED
  BY <1>2, <1>3

(* Only vacant slots are on the free list.                                 *)
LEMMA FreeStays ==
    ASSUME Inv, NEW t \in Threads, Moves(t), NEW s \in Slots, s \in free'
    PROVE  life'[s].phase = "vacant"
<1>1. LifeMoves(t, s) /\ FreeMoves(t, s) /\ SlotSound(s)
  BY DEF Moves, SlotMoves, Inv
<1>2. CASE s \in free
  <2>1. life[s].phase = "vacant" /\ ~Begins(t, s)
    BY <1>1, <1>2, MakerPhase DEF SlotSound, Begins, Making, At
  <2>2. QED
    BY <1>1, <2>1 DEF LifeMoves, Keep, Fails, Opens, Marks, Wakens, Advances, Unpins,
      Ends, Claims, Frees, Step, Active
<1>3. CASE s \notin free
  BY <1>1, <1>3 DEF FreeMoves
<1>4. QED
  BY <1>2, <1>3

(* An actor that is over, or not begun, has an empty inbox and, from its   *)
(* retirement to its reclamation, a gate that joined every sender.         *)
LEMMA OverStays ==
    ASSUME Inv, NEW t \in Threads, Moves(t), NEW s \in Slots, life'[s].phase \notin Active
    PROVE  /\ inbox'[s] = <<>> /\ carry'[s] = <<>>
           /\ life'[s].phase \in {"retired", "reclaiming"} => Joined(gate'[s])
<1>1. LifeMoves(t, s) /\ SlotSound(s) /\ SenderSound(t)
  BY DEF Moves, SlotMoves, Inv, ThreadSound
<1>2. ~Works(t, s)
  BY DEF Works, Active
<1>3. CASE life[s].phase \in Active
  <2>1. Drained(s) /\ ~(At(t, "push") /\ slot(t) = s)
    BY <1>1, <1>3 DEF LifeMoves, Keep, Begins, Fails, Opens, Marks, Wakens, Advances, Unpins,
      Ends, Claims, Frees, Step, Active, Busy, Pushing, Activating, InWave, At
  <2>2. inbox'[s] = <<>> /\ carry'[s] = <<>>
    BY <1>2, <2>1, InboxStays DEF Drained
  <2>3. Joined(gate'[s])
    BY <1>3, <2>1, GateStays DEF Drained, Active
  <2>4. QED
    BY <2>2, <2>3
<1>4. CASE life[s].phase \notin Active
  <2>1. ~(At(t, "push") /\ slot(t) = s)
    BY <1>1, <1>4 DEF SenderSound, Admitted, At
  <2>2. inbox'[s] = <<>> /\ carry'[s] = <<>>
    BY <1>1, <1>2, <1>4, <2>1, InboxStays DEF SlotSound
  <2>3. life'[s].phase \in {"retired", "reclaiming"} => life[s].phase \in {"retired", "reclaiming"}
    BY <1>1, <1>4 DEF LifeMoves, Keep, Begins, Fails, Opens, Marks, Wakens, Advances, Unpins,
      Ends, Claims, Frees, Step, Active
  <2>4. QED
    BY <1>1, <2>2, <2>3, GateStays DEF SlotSound
<1>5. QED
  BY <1>3, <1>4

(* Nobody is left behind at a slot that becomes vacant.                    *)
LEMMA VacantStays ==
    ASSUME Inv, NEW t \in Threads, Moves(t), NEW s \in Slots, life'[s].phase = "vacant"
    PROVE  Untouched(s)'
<1>1. LifeMoves(t, s) /\ SlotSound(s) /\ MakerSound(t)
  BY DEF Moves, SlotMoves, Inv, ThreadSound
<1>2. life[s].phase = "vacant" \/ Fails(t, s) \/ Frees(t, s)
  BY <1>1 DEF LifeMoves, Keep, Begins, Opens, Marks, Wakens, Advances, Unpins,
      Ends, Claims, Step, Active
<1>3. Untouched(s) /\ life[s].phase \notin Active
  BY <1>1, <1>2 DEF SlotSound, Fails, Frees, Step, MakerSound, Untouched, Joined, Active
<1>4. ~Reopens(t, s)
  <2>1. CASE life[s].phase = "vacant"
    BY <2>1, MakerPhase DEF Reopens, Making, At
  <2>2. CASE Fails(t, s) \/ Frees(t, s)
    BY <2>2 DEF Reopens, Keep, Fails, Frees, Step
  <2>3. QED
    BY <1>2, <2>1, <2>2
<1>5. QED
  BY <1>3, <1>4, UntouchedStays

(* An idle actor stays heard, and becomes idle only when it is.            *)
LEMMA IdleStays ==
    ASSUME Inv, NEW t \in Threads, Moves(t), NEW s \in Slots, life'[s].phase = "idle"
    PROVE  Heard(s)'
<1>1. LifeMoves(t, s) /\ SlotSound(s)
  BY DEF Moves, SlotMoves, Inv
<1>2. ~Works(t, s) /\ "pending" \notin life'[s].flags
  BY FlagsStay DEF Works
<1>3. CASE Opens(t, s)
  <2>1. inbox'[s] = <<>> /\ carry'[s] = <<>>
    BY <1>1, <1>2, <1>3, InboxStays DEF Opens, Step, SlotSound, Active, At
  <2>2. QED
    BY <2>1 DEF Heard
<1>4. CASE ~Opens(t, s)
  <2>1. life[s].phase \in Active /\ Heard(s)
    BY <1>1, <1>4 DEF SlotSound, LifeMoves, Keep, Begins, Fails, Marks, Wakens, Advances, Unpins,
      Ends, Claims, Frees, Step, Active
  <2>2. Awaited(s)'
    BY <1>2, <2>1, HeardOrPending
  <2>3. QED
    BY <1>2, <2>2 DEF Awaited
<1>5. QED
  BY <1>3, <1>4

(* A step keeps what holds of every slot.                                  *)
LEMMA SlotStays ==
    ASSUME Inv, NEW t \in Threads, Moves(t), NEW s \in Slots
    PROVE  SlotSound(s)'
<1>1. life'[s].phase \in {"vacant", "constructing", "reclaiming"} =>
          life'[s].flags = {} /\ waveOwner'[s] = None
  BY UnownedStays
<1>2. /\ life'[s].phase = "retired" => life'[s].flags \subseteq {"op"}
      /\ life'[s].phase = "idle" => "pending" \notin life'[s].flags
  BY FlagsStay
<1>3. life'[s].phase \in Active => state'[s] = life'[s].gen /\ payload'[s] = life'[s].gen
  BY StateStays
<1>4. s \in free' => life'[s].phase = "vacant"
  BY FreeStays
<1>5. /\ life'[s].phase \notin Active => inbox'[s] = <<>> /\ carry'[s] = <<>>
      /\ life'[s].phase \in {"retired", "reclaiming"} => Joined(gate'[s])
  BY OverStays DEF Active
<1>6. life'[s].phase = "vacant" => Untouched(s)'
  BY VacantStays
<1>7. life'[s].phase = "idle" => Heard(s)'
  BY IdleStays
<1>8. QED
  BY <1>1, <1>2, <1>3, <1>4, <1>5, <1>6, <1>7 DEF SlotSound

-----------------------------------------------------------------------------
(* One maker and one owner; as many reservations as the gate counts.       *)

(* A step keeps makers and retirers alone in their slots.                  *)
LEMMA AloneStays ==
    ASSUME Inv, NEW t \in Threads, Moves(t)
    PROVE  Alone'
<1>1. RoleMoves(t) /\ Others(t) /\ Alone
  BY DEF Moves, Inv
<1>2. \A u \in Threads \ {t} : /\ slot(u)' = slot(u) /\ (Making(u)' <=> Making(u))
                               /\ (Pinning(u)' <=> Pinning(u))
  BY <1>1 DEF Others, slot, Making, Pinning, Pushing, At
<1>3. ASSUME NEW u \in Threads \ {t}, slot(u)' = slot(t)'
      PROVE  ~(Making(t)' /\ Making(u)') /\ ~(Pinning(t)' /\ Pinning(u)')
  <2>1. Making(u) => /\ slot(u) \notin free
                     /\ life[slot(u)].phase \in {"vacant", "constructing", "reclaiming"}
    BY MakerPhase
  <2>2. Pinning(u) => "op" \in life[slot(u)].flags
    BY DEF Inv, ThreadSound, OwnerSound
  <2>3. QED
    BY <1>1, <1>2, <1>3, <2>1, <2>2 DEF RoleMoves, Alone
<1>4. QED
  BY <1>1, <1>2, <1>3 DEF Alone

(* A step keeps the gate's count that of the reservations.                 *)
LEMMA CountStays ==
    ASSUME Inv, NEW t \in Threads, Moves(t)
    PROVE  ReservationsCounted'
<1>1. RoleMoves(t) /\ Others(t) /\ MakerSound(t)
  BY DEF Moves, Inv, ThreadSound
<1>2. SUFFICES ASSUME NEW s \in Slots
               PROVE  gate'[s].count = Cardinality({u \in Threads : Reserving(u) /\ slot(u) = s})'
  BY DEF ReservationsCounted
<1> DEFINE R == {u \in Threads : Reserving(u) /\ slot(u) = s}
           Q == {u \in Threads : Reserving(u)' /\ slot(u)' = s}
<1>3. GateMoves(t, s) /\ gate[s].count = Cardinality(R) /\ IsFiniteSet(R)
  BY ActorAssumption, FS_Subset DEF Moves, SlotMoves, Inv, ReservationsCounted
<1>4. \A u \in Threads \ {t} : u \in Q <=> u \in R
  BY <1>1 DEF Others, slot, Reserving, Pushing, At
<1>5. CASE At(t, "reserve") /\ slot(t) = s /\ Reserving(t)'
  <2>1. t \notin R /\ t \in Q
    BY <1>1, <1>5 DEF Reserving, RoleMoves, Pushing, At
  <2>2. Q = R \cup {t}
    BY <1>4, <2>1
  <2>3. Cardinality(Q) = Cardinality(R) + 1
    BY <1>3, <2>1, <2>2, FS_AddElement
  <2>4. QED
    BY <1>1, <1>3, <1>5, <2>3 DEF RoleMoves
<1>6. CASE At(t, "release") /\ slot(t) = s
  <2>1. t \in R /\ t \notin Q
    BY <1>1, <1>6 DEF Reserving, RoleMoves, At
  <2>2. Q = R \ {t}
    BY <1>4, <2>1
  <2>3. Cardinality(Q) = Cardinality(R) - 1
    BY <1>3, <2>1, <2>2, FS_RemoveElement
  <2>4. QED
    BY <1>1, <1>3, <1>6, <2>3 DEF RoleMoves
<1>7. CASE ~(At(t, "reserve") /\ slot(t) = s /\ Reserving(t)') /\ ~(At(t, "release") /\ slot(t) = s)
  <2>1. t \in R <=> t \in Q
    BY <1>1, <1>7 DEF RoleMoves, Reserving, Pushing, At
  <2>2. Q = R
    BY <1>4, <2>1
  <2>3. gate'[s].count = gate[s].count
    BY <1>1, <1>3, <1>7 DEF GateMoves, Reopens, Closes, Admits, Releases, MakerSound, Untouched,
      Reserving, At
  <2>4. QED
    BY <1>3, <2>2, <2>3
<1>8. QED
  BY <1>5, <1>6, <1>7

-----------------------------------------------------------------------------
(* One activation.  A step that carries leaves every token where it is, or *)
(* makes or ends the one of its own thread.                                *)

(* A step that only carries its tokens keeps them sound.                   *)
LEMMA CalmTokens ==
    ASSUME Inv, NEW t \in Threads, Moves(t), Carries(t)
    PROVE  (\A s \in Slots : TokenSound(s)') /\ TokensOnce'
<1>1. TokensOnce'
  BY DEF Inv, TokensOnce, Carries
<1>2. SUFFICES ASSUME NEW s \in Slots PROVE TokenSound(s)'
  BY <1>1
<1>3. TokenSound(s) /\ LifeMoves(t, s) /\ Others(t)
  BY DEF Inv, Moves, SlotMoves
<1>4. (Queued(s)' <=> Queued(s)) /\ (Published(s)' <=> Published(s)) /\ snap' = snap
      /\ ready' = ready /\ readyCarry' = readyCarry /\ farm' = farm
  BY DEF Carries, Queued, Published
<1>5. \A u \in Threads \ {t} : Has(u, s)' <=> Has(u, s)
  BY <1>3, <1>4 DEF Others, Has, Busy, Pushing, Activating, InWave, At, slot
<1>6. \/ Has(t, s)' => Has(t, s)
      \/ life[s].phase = "idle" /\ life'[s].phase = "scheduled" /\ s \notin Range(snap[t])
  BY <1>3, <1>4 DEF Carries, Has, TokenSound
<1>7. \A u \in Threads : Has(u, s) => life[s].phase \in {"scheduled", "running"}
  BY <1>3, BusyPhase DEF Has, TokenSound
<1>8. ~(Queued(s) /\ Published(s)) /\ ~(s \in Range(ready) /\ s \in Range(readyCarry))
  BY <1>3 DEF TokenSound
<1>9. \A u \in Threads : Has(u, s)' => ~Queued(s) /\ ~Published(s)
  BY <1>3, <1>5, <1>6 DEF TokenSound
<1>10. \A u, v \in Threads : Has(u, s)' /\ Has(v, s)' => u = v
  BY <1>3, <1>5, <1>6, <1>7 DEF TokenSound
<1>11. \A u \in Threads : ~(s \in Range(snap[u]) /\ Busy(u)' /\ slot(u)' = s)
  <2>1. TAKE u \in Threads
  <2>2. CASE u # t
    BY <1>3, <2>2 DEF TokenSound, Others, Busy, Pushing, Activating, InWave, At, slot
  <2>3. CASE u = t
    BY <1>3, <2>3 DEF TokenSound, Carries
  <2>4. QED
    BY <2>2, <2>3
<1>12. ASSUME Queued(s) \/ Published(s) \/ \E u \in Threads : s \in Range(snap[u])
       PROVE  life'[s].phase = "scheduled" /\ life'[s].gen = life[s].gen
  <2>1. life[s].phase = "scheduled"
    BY <1>3, <1>12 DEF TokenSound
  <2>2. ~(Busy(t) /\ slot(t) = s)
    BY <1>3, <1>12 DEF TokenSound, Has
  <2>3. QED
    BY <1>3, <2>1, <2>2 DEF LifeMoves, Keep, Begins, Fails, Opens, Marks, Wakens, Advances,
      Unpins, Ends, Claims, Frees, Same, Step, Active
<1>13. ASSUME NEW u \in Threads, Pushing(u)', slot(u)' = s
       PROVE  life'[s].phase = "scheduled"
  <2>1. CASE u = t
    BY <1>13, <2>1 DEF Carries
  <2>2. CASE u # t
    <3>1. Pushing(u) /\ slot(u) = s
      BY <1>3, <1>13, <2>2 DEF Others, Pushing, slot
    <3>2. life[s].phase = "scheduled"
      BY <1>3, <3>1 DEF TokenSound
    <3>3. QED
      BY <2>2, <3>1, <3>2, BusyKept DEF Busy
  <2>3. QED
    BY <2>1, <2>2
<1>14. ASSUME life'[s].phase \in {"scheduled", "running"}
       PROVE  Queued(s) \/ Published(s) \/ \E u \in Threads : Has(u, s)'
  <2>1. CASE life[s].phase \in {"scheduled", "running"}
    <3>1. SUFFICES ASSUME NEW u \in Threads, Has(u, s)
                   PROVE  Has(u, s)'
      BY <1>3, <2>1 DEF TokenSound
    <3>2. CASE u = t
      BY <1>4, <1>14, <3>1, <3>2 DEF Carries, Has
    <3>3. QED
      BY <1>5, <3>1, <3>2
  <2>2. CASE Wakens(t, s)
    BY <2>2 DEF Wakens, Has
  <2>3. QED
    BY <1>3, <1>14, <2>1, <2>2 DEF LifeMoves, Keep, Begins, Fails, Opens, Marks, Advances, Unpins,
      Ends, Claims, Frees, Step, Active
<1>15. \A g \in 0 .. MaxGen : farm[s][g] > 0 => farm[s][g] = 1 /\ g = life'[s].gen
  BY <1>3, <1>12 DEF TokenSound, Published
<1>16. QED
  BY <1>3, <1>4, <1>8, <1>9, <1>10, <1>11, <1>12, <1>13, <1>14, <1>15 DEF TokenSound

-----------------------------------------------------------------------------
(* What the queue operations do to the elements of a sequence.             *)

(* What putting an element in front does to the range and to injectivity.  *)
LEMMA ConsRange ==
    ASSUME NEW S, NEW q \in Seq(S), NEW x \in S
    PROVE  /\ Range(<<x>> \o q) = {x} \cup Range(q)
           /\ IsInjective(q) /\ x \notin Range(q) => IsInjective(<<x>> \o q)
<1> DEFINE p == <<x>> \o q
<1>1. p \in Seq(S) /\ Len(p) = Len(q) + 1 /\ p[1] = x
  OBVIOUS
<1>2. \A i \in 1 .. Len(q) : p[i + 1] = q[i]
  OBVIOUS
<1>3. \A j \in 1 .. Len(p) : j = 1 \/ (j - 1 \in 1 .. Len(q) /\ p[j] = q[j - 1])
  BY <1>1, <1>2
<1>4. DOMAIN p = 1 .. Len(p) /\ DOMAIN q = 1 .. Len(q)
  BY <1>1
<1>5. Range(p) = {x} \cup Range(q)
  <2>1. Range(p) \subseteq {x} \cup Range(q)
    BY <1>1, <1>3, <1>4 DEF Range
  <2>2. x \in Range(p)
    BY <1>1, <1>4 DEF Range
  <2>3. Range(q) \subseteq Range(p)
    <3>1. \A i \in 1 .. Len(q) : i + 1 \in 1 .. Len(p) /\ p[i + 1] = q[i]
      BY <1>1, <1>2
    <3>2. QED
      BY <1>4, <3>1 DEF Range
  <2>4. QED
    BY <2>1, <2>2, <2>3
<1>6. ASSUME IsInjective(q), x \notin Range(q)
      PROVE  IsInjective(p)
  <2>1. ASSUME NEW i \in 1 .. Len(p), NEW j \in 1 .. Len(p), p[i] = p[j] PROVE i = j
    <3>1. \A k \in 1 .. Len(q) : q[k] # x
      BY <1>4, <1>6 DEF Range
    <3>2. \A k, l \in 1 .. Len(q) : q[k] = q[l] => k = l
      BY <1>4, <1>6 DEF IsInjective
    <3>3. i = 1 <=> j = 1
      BY <1>1, <1>3, <2>1, <3>1
    <3>4. CASE i # 1 /\ j # 1
      <4>1. i - 1 = j - 1
        BY <1>3, <2>1, <3>2, <3>4
      <4>2. QED
        BY <1>1, <4>1
    <3>5. QED
      BY <3>3, <3>4
  <2>2. QED
    BY <1>4, <2>1 DEF IsInjective
<1>7. QED
  BY <1>5, <1>6

(* What appending does to the range and to injectivity.                    *)
LEMMA AppendRange ==
    ASSUME NEW S, NEW q \in Seq(S), NEW x \in S
    PROVE  /\ Range(Append(q, x)) = {x} \cup Range(q)
           /\ IsInjective(q) /\ x \notin Range(q) => IsInjective(Append(q, x))
<1> DEFINE p == Append(q, x)
<1>1. p \in Seq(S) /\ Len(p) = Len(q) + 1 /\ p[Len(q) + 1] = x /\ Len(q) \in Nat
  OBVIOUS
<1>2. \A i \in 1 .. Len(q) : p[i] = q[i]
  OBVIOUS
<1>3. DOMAIN p = 1 .. Len(p) /\ DOMAIN q = 1 .. Len(q)
  BY <1>1
<1>4. \A j \in 1 .. Len(p) : j = Len(q) + 1 \/ j \in 1 .. Len(q)
  BY <1>1
<1>5. Range(p) = {x} \cup Range(q)
  BY <1>1, <1>2, <1>3, <1>4 DEF Range
<1>6. ASSUME IsInjective(q), x \notin Range(q)
      PROVE  IsInjective(p)
  BY <1>1, <1>2, <1>3, <1>4, <1>6 DEF IsInjective, Range
<1>7. QED
  BY <1>5, <1>6

(* What dropping a written prefix does to the range and to injectivity.    *)
LEMMA SuffixRange ==
    ASSUME NEW S, NEW q \in Seq(S), IsInjective(q), NEW n \in 0 .. Len(q)
    PROVE  /\ Unwritten(q, n) \in Seq(S) /\ IsInjective(Unwritten(q, n))
           /\ Range(Unwritten(q, n)) = Range(q) \ {q[i] : i \in 1 .. n}
<1> DEFINE p == Unwritten(q, n)
<1>1. Len(q) \in Nat /\ n \in Nat /\ n <= Len(q)
  OBVIOUS
<1>2. p = [i \in 1 .. Len(q) - n |-> q[n + i]]
  BY <1>1 DEF Unwritten
<1>3. p \in Seq(S) /\ Len(p) = Len(q) - n /\ DOMAIN p = 1 .. Len(q) - n
  <2>1. \A i \in 1 .. Len(q) - n : n + i \in 1 .. Len(q)
    BY <1>1
  <2>2. \A i \in 1 .. Len(q) - n : q[n + i] \in S
    BY <2>1
  <2>3. Len(q) - n \in Nat
    BY <1>1
  <2>4. QED
    BY <1>2, <2>2, <2>3
<1>4. \A i, j \in 1 .. Len(q) : q[i] = q[j] => i = j
  BY DEF IsInjective
<1>5. IsInjective(p)
  <2>1. ASSUME NEW i \in 1 .. Len(q) - n, NEW j \in 1 .. Len(q) - n, p[i] = p[j] PROVE i = j
    <3>1. q[n + i] = q[n + j] /\ n + i \in 1 .. Len(q) /\ n + j \in 1 .. Len(q)
      BY <1>1, <1>2, <2>1
    <3>2. n + i = n + j
      BY <1>4, <3>1
    <3>3. QED
      BY <1>1, <3>2
  <2>2. QED
    BY <1>3, <2>1 DEF IsInjective
<1>6. Range(p) = Range(q) \ {q[i] : i \in 1 .. n}
  <2>1. ASSUME NEW x \in Range(p) PROVE x \in Range(q) \ {q[i] : i \in 1 .. n}
    <3>1. PICK j \in 1 .. Len(q) - n : x = q[n + j]
      BY <1>2, <1>3 DEF Range
    <3>2. n + j \in 1 .. Len(q) /\ n + j \notin 1 .. n
      BY <1>1
    <3>3. x \in Range(q)
      BY <3>1, <3>2 DEF Range
    <3>4. \A i \in 1 .. n : i \in 1 .. Len(q) /\ q[i] # x
      BY <1>1, <1>4, <3>1, <3>2
    <3>5. QED
      BY <3>3, <3>4
  <2>2. ASSUME NEW x \in Range(q), x \notin {q[i] : i \in 1 .. n} PROVE x \in Range(p)
    <3>1. PICK k \in 1 .. Len(q) : x = q[k]
      BY DEF Range
    <3>2. k \notin 1 .. n
      BY <2>2, <3>1
    <3>3. k - n \in 1 .. Len(q) - n /\ n + (k - n) = k
      BY <1>1, <3>2
    <3>4. p[k - n] = x
      BY <1>2, <3>1, <3>3
    <3>5. QED
      BY <1>3, <3>3, <3>4 DEF Range
  <2>3. QED
    BY <2>1, <2>2
<1>7. QED
  BY <1>1, <1>3, <1>5, <1>6

(* What dropping the head does to the range and to injectivity.            *)
LEMMA TailRange ==
    ASSUME NEW S, NEW q \in Seq(S), IsInjective(q), q # <<>>
    PROVE  /\ Tail(q) \in Seq(S) /\ IsInjective(Tail(q))
           /\ Head(q) \in S /\ Head(q) \in Range(q) /\ Range(Tail(q)) = Range(q) \ {Head(q)}
<1>1. Len(q) \in Nat /\ Len(q) >= 1 /\ Head(q) = q[1] /\ 1 \in 0 .. Len(q)
  OBVIOUS
<1>2. Tail(q) = Unwritten(q, 1)
  BY <1>1 DEF Unwritten
<1>3. {q[i] : i \in 1 .. 1} = {Head(q)}
  BY <1>1
<1>4. Head(q) \in Range(q)
  BY <1>1 DEF Range
<1>5. /\ Unwritten(q, 1) \in Seq(S) /\ IsInjective(Unwritten(q, 1))
      /\ Range(Unwritten(q, 1)) = Range(q) \ {q[i] : i \in 1 .. 1}
  BY <1>1, SuffixRange
<1>6. /\ Tail(q) \in Seq(S) /\ IsInjective(Tail(q))
      /\ Range(Tail(q)) = Range(q) \ {Head(q)}
  BY <1>2, <1>3, <1>5, Zenon
<1>7. Head(q) \in S
  BY <1>1
<1>8. QED
  BY <1>4, <1>6, <1>7

-----------------------------------------------------------------------------
(* The steps that hand a token on.                                         *)

(* The activation of slot s is in a queue, in the Farm or with thread t,   *)
(* in one place.                                                           *)
OnePlace(t, s) ==
    /\ ~(s \in Range(ready) /\ s \in Range(readyCarry))
    /\ ~(Queued(s) /\ Published(s))
    /\ Has(t, s) => ~Queued(s) /\ ~Published(s)
    /\ ~(s \in Range(snap[t]) /\ Busy(t) /\ slot(t) = s)
    /\ Queued(s) \/ Published(s) \/ Has(t, s)

(* A step leaves the tokens in the hands of other threads.                 *)
LEMMA OthersTokens ==
    ASSUME NEW t \in Threads, Others(t), NEW u \in Threads \ {t}, NEW s \in Slots
    PROVE  /\ snap'[u] = snap[u] /\ (Has(u, s)' <=> Has(u, s))
           /\ (Busy(u)' /\ slot(u)' = s <=> Busy(u) /\ slot(u) = s)
           /\ (Pushing(u)' /\ slot(u)' = s <=> Pushing(u) /\ slot(u) = s)
<1>1. pc'[u] = pc[u] /\ ret'[u] = ret[u] /\ h'[u] = h[u] /\ snap'[u] = snap[u]
  BY DEF Others
<1>2. QED
  BY <1>1 DEF Has, Busy, Pushing, Activating, InWave, At, slot

(* A token that stays where it is.                                         *)
LEMMA TokenElsewhere ==
    ASSUME Inv, NEW t \in Threads, Others(t), NEW s \in Slots, life' = life,
           \A g \in 0 .. MaxGen : farm'[s][g] = farm[s][g],
           s \in Range(ready') <=> s \in Range(ready),
           s \in Range(readyCarry') <=> s \in Range(readyCarry),
           s \in Range(snap'[t]) <=> s \in Range(snap[t]),
           Busy(t)' /\ slot(t)' = s <=> Busy(t) /\ slot(t) = s,
           Pushing(t)' /\ slot(t)' = s => Pushing(t) /\ slot(t) = s
    PROVE  TokenSound(s)'
<1>1. TokenSound(s)
  BY DEF Inv
<1>2. (Queued(s)' <=> Queued(s)) /\ (Published(s)' <=> Published(s))
  BY DEF Queued, Published
<1>3. \A u \in Threads : /\ s \in Range(snap'[u]) <=> s \in Range(snap[u])
                         /\ Busy(u)' /\ slot(u)' = s <=> Busy(u) /\ slot(u) = s
                         /\ Pushing(u)' /\ slot(u)' = s => Pushing(u) /\ slot(u) = s
  BY OthersTokens
<1>4. \A u \in Threads : Has(u, s)' <=> Has(u, s)
  BY <1>3 DEF Has
<1>5. QED
  BY <1>1, <1>2, <1>3, <1>4 DEF TokenSound

(* A token that thread t moves from one place to another.                  *)
LEMMA TokenMoved ==
    ASSUME Inv, NEW t \in Threads, Others(t), NEW s \in Slots, life' = life,
           life[s].phase = "scheduled", Queued(s) \/ Published(s) \/ Has(t, s), OnePlace(t, s)',
           \A g \in 0 .. MaxGen : farm'[s][g] > 0 => farm'[s][g] = 1 /\ g = life[s].gen
    PROVE  TokenSound(s)'
<1>1. TokenSound(s)
  BY DEF Inv
<1>2. \A u \in Threads \ {t} : ~Has(u, s)
  BY <1>1 DEF TokenSound
<1>3. \A u \in Threads \ {t} : ~Has(u, s)'
  BY <1>2, OthersTokens
<1>4. \A u \in Threads : s \in Range(snap'[u]) \/ (Busy(u)' /\ slot(u)' = s) <=> Has(u, s)'
  BY DEF Has
<1>5. \A u, v \in Threads : Has(u, s)' /\ Has(v, s)' => u = v
  BY <1>3
<1>6. \A u \in Threads : ~(s \in Range(snap'[u]) /\ Busy(u)' /\ slot(u)' = s)
  BY <1>3, <1>4 DEF OnePlace
<1>7. \A u \in Threads : Has(u, s)' => ~Queued(s)' /\ ~Published(s)'
  BY <1>3 DEF OnePlace
<1>8. QED
  BY <1>5, <1>6, <1>7 DEF TokenSound, OnePlace

(* pushReady's link puts the thread's activation in the queue.             *)
LEMMA LinkTokens ==
    ASSUME Inv, NEW t \in Threads, LinkReady(t), Others(t)
    PROVE  (\A s \in Slots : TokenSound(s)') /\ TokensOnce'
<1>1. /\ ready \in Seq(Slots) /\ slot(t) \in Slots /\ TokenSound(slot(t)) /\ TokensOnce
      /\ ThreadTypes /\ Returns(t)
  BY DEF Inv, Types, QueueTypes, ThreadTypes, slot, ThreadSound
<1>2. /\ At(t, "link") /\ Resume(t) /\ ready' = <<slot(t)>> \o ready
      /\ UNCHANGED <<life, readyCarry, farm, stale>>
  BY DEF LinkReady, slotVars
<1>3. pc'[t] = ret[t] /\ snap' = snap
  BY <1>1, <1>2, ResumeGoes
<1>4. Pushing(t) /\ Busy(t) /\ ~Busy(t)' /\ ~Pushing(t)'
  BY <1>1, <1>2, <1>3 DEF Returns, Pushing, Busy, Activating, InWave, At
<1>5. /\ ~Queued(slot(t)) /\ ~Published(slot(t)) /\ slot(t) \notin Range(snap[t])
      /\ life[slot(t)].phase = "scheduled"
      /\ Has(t, slot(t))
  BY <1>1, <1>4 DEF TokenSound, Has
<1>6. Range(ready') = {slot(t)} \cup Range(ready) /\ IsInjective(ready')
  BY <1>1, <1>2, <1>5, ConsRange DEF Queued, TokensOnce
<1>7. TokensOnce'
  BY <1>1, <1>2, <1>3, <1>6 DEF TokensOnce
<1>8. ASSUME NEW s \in Slots, s # slot(t) PROVE TokenSound(s)'
  BY <1>2, <1>3, <1>4, <1>6, <1>8, TokenElsewhere
<1>9. ASSUME NEW s \in Slots, s = slot(t) PROVE TokenSound(s)'
  <2>1. Queued(s)' /\ ~Published(s)' /\ ~Has(t, s)' /\ s \notin Range(readyCarry')
    BY <1>2, <1>3, <1>4, <1>5, <1>6, <1>9 DEF Queued, Published, Has
  <2>2. OnePlace(t, s)'
    BY <1>4, <2>1 DEF OnePlace
  <2>3. \A g \in 0 .. MaxGen : farm'[s][g] > 0 => farm'[s][g] = 1 /\ g = life[s].gen
    BY <1>1, <1>2, <1>9 DEF TokenSound
  <2>4. QED
    BY <1>2, <1>5, <1>9, <2>2, <2>3, TokenMoved
<1>10. QED
  BY <1>7, <1>8, <1>9

(* detachReady moves the queue's activations to the carry.                 *)
LEMMA DetachTokens ==
    ASSUME Inv, NEW t \in Threads, Detach(t), Others(t)
    PROVE  (\A s \in Slots : TokenSound(s)') /\ TokensOnce'
<1>1. /\ readyCarry = <<>> /\ readyCarry' = ready /\ ready' = <<>>
      /\ UNCHANGED <<life, farm, stale, snap, pc, ret, h>>
  BY DEF Detach, slotVars, threadVars
<1>2. Range(<<>>) = {} /\ IsInjective(<<>>)
  BY DEF Range, IsInjective
<1>3. TokensOnce'
  BY <1>1, <1>2 DEF Inv, TokensOnce
<1>4. (Busy(t)' <=> Busy(t)) /\ (Pushing(t)' <=> Pushing(t)) /\ slot(t)' = slot(t)
  BY <1>1 DEF Busy, Pushing, Activating, InWave, At, slot
<1>5. ASSUME NEW s \in Slots, s \notin Range(ready) PROVE TokenSound(s)'
  BY <1>1, <1>2, <1>4, <1>5, TokenElsewhere
<1>6. ASSUME NEW s \in Slots, s \in Range(ready) PROVE TokenSound(s)'
  <2>1. TokenSound(s) /\ Queued(s)
    BY <1>6 DEF Inv, Queued
  <2>2. /\ Queued(s)' /\ s \notin Range(ready')
        /\ ~Published(s)' /\ ~Has(t, s)'
    BY <1>1, <1>2, <1>4, <1>6, <2>1 DEF TokenSound, Queued, Published, Has
  <2>3. OnePlace(t, s)'
    BY <1>4, <2>2 DEF OnePlace, Has
  <2>4. /\ life[s].phase = "scheduled"
        /\ \A g \in 0 .. MaxGen : farm'[s][g] > 0 => farm'[s][g] = 1 /\ g = life[s].gen
    BY <1>1, <2>1 DEF TokenSound
  <2>5. QED
    BY <1>1, <2>1, <2>3, <2>4, TokenMoved
<1>7. QED
  BY <1>3, <1>5, <1>6

(* flush takes activations from the carry.                                 *)
LEMMA TakeTokens ==
    ASSUME Inv, NEW t \in Threads, TakeOne(t), Others(t)
    PROVE  (\A s \in Slots : TokenSound(s)') /\ TokensOnce'
<1> DEFINE x == Head(readyCarry)
<1>1. /\ readyCarry \in Seq(Slots) /\ snap[t] \in Seq(Slots) /\ TokensOnce
      /\ snap \in [Threads -> Seq(Slots)]
  BY DEF Inv, Types, QueueTypes, ThreadTypes, LocalTypes
<1>2. /\ readyCarry # <<>> /\ readyCarry' = Tail(readyCarry) /\ At(t, "take")
      /\ snap' = Set(snap, t, Append(snap[t], x))
      /\ UNCHANGED <<life, ready, farm, stale, pc, ret, h>>
  BY DEF TakeOne, slotVars
<1>3. /\ x \in Slots /\ x \in Range(readyCarry)
      /\ Range(readyCarry') = Range(readyCarry) \ {x} /\ IsInjective(readyCarry')
  BY <1>1, <1>2, TailRange DEF TokensOnce
<1>4. snap'[t] = Append(snap[t], x) /\ \A u \in Threads \ {t} : snap'[u] = snap[u]
  BY <1>1, <1>2 DEF Set
<1>5. TokenSound(x) /\ Queued(x)
  BY <1>3 DEF Inv, Queued
<1>6. /\ x \notin Range(ready) /\ ~Published(x) /\ ~Has(t, x) /\ life[x].phase = "scheduled"
  BY <1>3, <1>5 DEF TokenSound
<1>7. Range(snap'[t]) = {x} \cup Range(snap[t]) /\ IsInjective(snap'[t])
  BY <1>1, <1>3, <1>4, <1>6, AppendRange DEF TokensOnce, Has
<1>8. TokensOnce'
  BY <1>1, <1>2, <1>3, <1>4, <1>7 DEF TokensOnce
<1>9. ~Busy(t) /\ ~Busy(t)' /\ ~Pushing(t)'
  BY <1>2 DEF Busy, Pushing, Activating, InWave, At
<1>10. ASSUME NEW s \in Slots, s # x PROVE TokenSound(s)'
  BY <1>2, <1>3, <1>7, <1>9, <1>10, TokenElsewhere
<1>11. ASSUME NEW s \in Slots, s = x PROVE TokenSound(s)'
  <2>1. Has(t, s)' /\ ~Queued(s)' /\ ~Published(s)'
    BY <1>2, <1>3, <1>6, <1>7, <1>11 DEF Has, Queued, Published
  <2>2. OnePlace(t, s)'
    BY <1>9, <2>1 DEF OnePlace, Queued
  <2>3. \A g \in 0 .. MaxGen : farm'[s][g] > 0 => farm'[s][g] = 1 /\ g = life[s].gen
    BY <1>2, <1>5, <1>11 DEF TokenSound
  <2>4. QED
    BY <1>2, <1>5, <1>6, <1>11, <2>2, <2>3, TokenMoved
<1>12. QED
  BY <1>8, <1>10, <1>11

(* flush puts an activation that it could not write back.                  *)
LEMMA BackTokens ==
    ASSUME Inv, NEW t \in Threads, PushBack(t), snap[t] # <<>>, Others(t)
    PROVE  (\A s \in Slots : TokenSound(s)') /\ TokensOnce'
<1> DEFINE x == Head(snap[t])
<1>1. snap[t] \in Seq(Slots) /\ TokensOnce /\ snap \in [Threads -> Seq(Slots)] /\ ThreadTypes
  BY DEF Inv, Types, ThreadTypes, LocalTypes
<1>2. /\ At(t, "pushBack") /\ h' = Set(h, t, [slot |-> x, gen |-> 0])
      /\ snap' = Set(snap, t, Tail(snap[t])) /\ PushReady(t, "pushBack")
      /\ UNCHANGED <<life, ready, readyCarry, farm, stale>>
  BY DEF PushBack, slotVars, queueVars
<1>3. x \in Slots /\ x \in Range(snap[t]) /\ Range(Tail(snap[t])) = Range(snap[t]) \ {x}
      /\ IsInjective(Tail(snap[t]))
  BY <1>1, TailRange DEF TokensOnce
<1>4. snap'[t] = Tail(snap[t]) /\ \A u \in Threads \ {t} : snap'[u] = snap[u]
  BY <1>1, <1>2 DEF Set
<1>5. TokensOnce'
  BY <1>1, <1>2, <1>3, <1>4 DEF TokensOnce
<1>6. ~Busy(t) /\ Busy(t)' /\ slot(t)' = x
  BY <1>1, <1>2 DEF Busy, Pushing, Activating, InWave, At, slot, Set, PushReady, Goto, ThreadTypes
<1>7. ASSUME NEW s \in Slots, s # x PROVE TokenSound(s)'
  BY <1>2, <1>3, <1>4, <1>6, <1>7, TokenElsewhere
<1>8. ASSUME NEW s \in Slots, s = x PROVE TokenSound(s)'
  <2>1. TokenSound(s) /\ Has(t, s) /\ life[s].phase = "scheduled"
    BY <1>3, <1>8 DEF Inv, Has, TokenSound
  <2>2. Has(t, s)' /\ s \notin Range(snap'[t]) /\ ~Queued(s)' /\ ~Published(s)'
    BY <1>2, <1>3, <1>4, <1>6, <1>8, <2>1 DEF TokenSound, Has, Queued, Published
  <2>3. OnePlace(t, s)'
    BY <2>2 DEF OnePlace, Queued
  <2>4. \A g \in 0 .. MaxGen : farm'[s][g] > 0 => farm'[s][g] = 1 /\ g = life[s].gen
    BY <1>2, <2>1 DEF TokenSound
  <2>5. QED
    BY <1>2, <2>1, <2>3, <2>4, TokenMoved
<1>9. QED
  BY <1>5, <1>7, <1>8

(* The Farm takes over the activations that flush writes.                  *)
LEMMA WriteTokens ==
    ASSUME Inv, NEW t \in Threads, WriteBodies(t), Moves(t)
    PROVE  (\A s \in Slots : TokenSound(s)') /\ TokensOnce'
<1> DEFINE q == snap[t]
<1>1. /\ q \in Seq(Slots) /\ TokensOnce /\ snap \in [Threads -> Seq(Slots)] /\ ThreadTypes
      /\ farm \in [Slots -> [0 .. MaxGen -> Nat]] /\ IsInjective(q)
  BY DEF Inv, Types, QueueTypes, ThreadTypes, LocalTypes, TokensOnce
<1>2. PICK n \in 0 .. Len(q) :
        /\ farm' = [s \in Slots |-> [g \in 0 .. MaxGen |-> farm[s][g] +
              Cardinality({i \in 1 .. n : q[i] = s /\ payload[s] = g})]]
        /\ snap' = Set(snap, t, Unwritten(q, n))
  BY DEF WriteBodies
<1>3. /\ At(t, "write") /\ Goto(t, "pushBack")
      /\ UNCHANGED <<life, payload, ready, readyCarry, stale, ret, h>>
  BY DEF WriteBodies, slotVars
<1> DEFINE P == {q[i] : i \in 1 .. n}
<1>4. Others(t)
  BY DEF Moves
<1>5. IsInjective(Unwritten(q, n)) /\ Range(Unwritten(q, n)) = Range(q) \ P
  BY <1>1, SuffixRange
<1>6. snap'[t] = Unwritten(q, n) /\ \A u \in Threads \ {t} : snap'[u] = snap[u]
  BY <1>1, <1>2 DEF Set
<1>7. TokensOnce'
  BY <1>1, <1>2, <1>3, <1>5, <1>6 DEF TokensOnce
<1>8. ~Busy(t) /\ ~Busy(t)' /\ ~Pushing(t)'
  BY <1>1, <1>3 DEF Busy, Pushing, Activating, InWave, At, Goto, Set, ThreadTypes
<1>9. ASSUME NEW s \in Slots, s \notin P PROVE TokenSound(s)'
  <2>1. \A g \in 0 .. MaxGen : {i \in 1 .. n : q[i] = s /\ payload[s] = g} = {}
    BY <1>9
  <2>2. ASSUME NEW g \in 0 .. MaxGen PROVE farm'[s][g] = farm[s][g]
    <3>1. farm'[s][g] = farm[s][g] + Cardinality({i \in 1 .. n : q[i] = s /\ payload[s] = g})
      BY <1>2
    <3>2. farm'[s][g] = farm[s][g] + Cardinality({})
      BY <2>1, <3>1
    <3>3. farm[s][g] \in Nat
      BY <1>1
    <3>4. QED
      BY <3>2, <3>3, FS_EmptySet
  <2>3. s \in Range(snap'[t]) <=> s \in Range(snap[t])
    BY <1>5, <1>6, <1>9
  <2>4. QED
    BY <1>3, <1>4, <1>8, <2>2, <2>3, TokenElsewhere
<1>10. ASSUME NEW s \in Slots, s \in P PROVE TokenSound(s)'
  <2>1. PICK k \in 1 .. n : q[k] = s
    BY <1>10
  <2>2. k \in DOMAIN q /\ \A i \in 1 .. n : i \in DOMAIN q
    BY <1>1
  <2>3. s \in Range(q) /\ \A i \in 1 .. n : q[i] = s => i = k
    BY <1>1, <2>1, <2>2 DEF Range, IsInjective
  <2>4. /\ TokenSound(s) /\ Has(t, s) /\ life[s].phase = "scheduled" /\ SlotSound(s)
        /\ ~Queued(s) /\ ~Published(s)
    BY <2>3 DEF Inv, Has, TokenSound
  <2>5. payload[s] = life[s].gen /\ life[s].gen \in 0 .. MaxGen
    BY <2>4 DEF SlotSound, Active, Inv, Types, SlotTypes, Words
  <2>6. ASSUME NEW g \in 0 .. MaxGen PROVE farm[s][g] = 0
    <3>1. farm[s][g] \in Nat /\ ~(farm[s][g] > 0)
      BY <1>1, <2>4 DEF Published
    <3>2. QED
      BY <3>1
  <2>7. ASSUME NEW g \in 0 .. MaxGen PROVE farm'[s][g] = IF g = life[s].gen THEN 1 ELSE 0
    <3>1. farm'[s][g] = farm[s][g] + Cardinality({i \in 1 .. n : q[i] = s /\ payload[s] = g})
      BY <1>2
    <3>2. CASE g = life[s].gen
      <4>1. {i \in 1 .. n : q[i] = s /\ payload[s] = g} = {k}
        BY <2>1, <2>3, <2>5, <3>2
      <4>2. QED
        <5>1. farm'[s][g] = farm[s][g] + Cardinality({k})
          BY <3>1, <4>1
        <5>2. Cardinality({k}) = 1
          BY FS_Singleton
        <5>3. QED
          BY <2>6, <3>2, <5>1, <5>2
    <3>3. CASE g # life[s].gen
      <4>1. {i \in 1 .. n : q[i] = s /\ payload[s] = g} = {}
        BY <2>5, <3>3
      <4>2. QED
        <5>1. farm'[s][g] = farm[s][g] + Cardinality({})
          BY <3>1, <4>1
        <5>2. Cardinality({}) = 0
          BY FS_EmptySet
        <5>3. QED
          BY <2>6, <3>3, <5>1, <5>2
    <3>4. QED
      BY <3>2, <3>3
  <2>8. Published(s)' /\ ~Queued(s)' /\ ~Has(t, s)'
    BY <1>3, <1>5, <1>6, <1>8, <1>10, <2>4, <2>5, <2>7 DEF Published, Queued, Has
  <2>9. OnePlace(t, s)'
    BY <1>8, <2>8 DEF OnePlace, Queued
  <2>10. \A g \in 0 .. MaxGen : farm'[s][g] > 0 => farm'[s][g] = 1 /\ g = life[s].gen
    BY <2>7
  <2>11. QED
    BY <1>3, <1>4, <2>4, <2>9, <2>10, TokenMoved
<1>11. QED
  BY <1>7, <1>9, <1>10

(* An activation comes out of the Farm.                                    *)
LEMMA EnterTokens ==
    ASSUME Inv, NEW t \in Threads, Enter(t), Moves(t)
    PROVE  (\A s \in Slots : TokenSound(s)') /\ TokensOnce'
<1>1. /\ TokensOnce /\ ThreadTypes /\ farm \in [Slots -> [0 .. MaxGen -> Nat]]
      /\ life \in [Slots -> Words]
  BY DEF Inv, Types, QueueTypes, SlotTypes
<1>2. PICK r \in Slots, g \in 0 .. MaxGen :
        /\ farm[r][g] > 0
        /\ farm' = [farm EXCEPT ![r][g] = @ - 1]
        /\ EnterOn(t, r, g, life[r])
  BY DEF Enter
<1>3. At(t, "idle") /\ UNCHANGED <<life, ready, readyCarry>>
  BY DEF Enter, Starts, slotVars, At
<1>4. TokenSound(r) /\ Published(r)
  BY <1>2 DEF Inv, Published
<1>5. /\ farm[r][g] = 1 /\ life[r].gen = g /\ life[r].phase = "scheduled"
      /\ ~Queued(r) /\ ~Has(t, r)
  BY <1>2, <1>4 DEF TokenSound
<1>0. Others(t) /\ EnterOn(t, r, life[r].gen, life[r]) /\ life[r] \in Words
      /\ life[r].phase = "scheduled"
  BY <1>1, <1>2, <1>5 DEF Moves
<1>11. /\ snap' = snap /\ stale' = stale /\ h'[t] = [slot |-> r, gen |-> life[r].gen]
       /\ pc'[t] \in {"entryGate", "run"}
  BY <1>0, <1>1, EnterOnGoes
<1>6. snap' = snap /\ stale' = stale /\ h'[t].slot = r /\ pc'[t] \in {"entryGate", "run"}
  BY <1>11
<1>7. ~Busy(t) /\ Busy(t)' /\ ~Pushing(t)' /\ slot(t)' = r
  BY <1>3, <1>6 DEF Busy, Pushing, Activating, InWave, At, slot
<1>8. TokensOnce'
  BY <1>1, <1>3, <1>6 DEF TokensOnce
<1>9. ASSUME NEW s \in Slots, s # r PROVE TokenSound(s)'
  <2>1. \A k \in 0 .. MaxGen : farm'[s][k] = farm[s][k]
    BY <1>1, <1>2, <1>9
  <2>2. QED
    BY <1>0, <1>3, <1>6, <1>7, <1>9, <2>1, TokenElsewhere
<1>10. ASSUME NEW s \in Slots, s = r PROVE TokenSound(s)'
  <2>1. \A k \in 0 .. MaxGen : farm[s][k] > 0 => k = g
    BY <1>4, <1>5, <1>10 DEF TokenSound
  <2>2. ASSUME NEW k \in 0 .. MaxGen PROVE farm'[s][k] = 0
    <3>1. farm[s] \in [0 .. MaxGen -> Nat] /\ farm'[s] = [farm[s] EXCEPT ![g] = @ - 1]
      BY <1>1, <1>2, <1>10
    <3>2. farm[s][k] \in Nat /\ (k # g => ~(farm[s][k] > 0))
      BY <2>1, <3>1
    <3>3. farm'[s][k] = IF k = g THEN farm[s][g] - 1 ELSE farm[s][k]
      BY <3>1
    <3>4. QED
      BY <1>5, <1>10, <3>2, <3>3
  <2>3. Has(t, s)' /\ ~Queued(s)' /\ ~Published(s)' /\ s \notin Range(snap'[t])
    BY <1>3, <1>5, <1>6, <1>7, <1>10, <2>2 DEF Has, Queued, Published
  <2>4. OnePlace(t, s)'
    BY <2>3 DEF OnePlace, Queued
  <2>5. QED
    BY <1>0, <1>3, <1>4, <1>5, <1>10, <2>2, <2>4, TokenMoved
<1>12. QED
  BY <1>8, <1>9, <1>10

-----------------------------------------------------------------------------
(* The first state.                                                        *)

(* The initial state has the types of Types.                               *)
LEMMA InitTypes == ASSUME Init PROVE Types
<1> USE DEF Init, SlotInit, QueueInit, ThreadInit
<1>1. SlotTypes
  BY ActorAssumption, NoWordTyped DEF SlotTypes
<1>2. QueueTypes
  <2>1. ready \in Seq(Slots) /\ readyCarry \in Seq(Slots)
    OBVIOUS
  <2>2. [g \in 0 .. MaxGen |-> 0] \in [0 .. MaxGen -> Nat]
    OBVIOUS
  <2>3. farm \in [Slots -> [0 .. MaxGen -> Nat]]
    BY <2>2
  <2>4. readyCount = 0 /\ stale = 0
    OBVIOUS
  <2>5. draining = FALSE
    OBVIOUS
  <2>6. draining \in BOOLEAN
    BY <2>5
  <2>7. QED
    BY <2>1, <2>3, <2>4, <2>6 DEF QueueTypes
<1>3. ThreadTypes
  <2>1. DOMAIN pc = Threads /\ DOMAIN ret = Threads
    OBVIOUS
  <2>2. h \in [Threads -> [slot : Slots, gen : 0 .. MaxGen]]
    BY NoHandleTyped
  <2>3. seen \in [Threads -> Words]
    BY NoWordTyped
  <2>4. QED
    BY <2>1, <2>2, <2>3 DEF ThreadTypes, LocalTypes
<1>4. QED
  BY <1>1, <1>2, <1>3 DEF Types

(* The initial state satisfies the invariant.                              *)
LEMMA InitInv == ASSUME Init PROVE Inv
<1>1. \A t \in Threads : pc[t] = "idle" /\ ret[t] = "idle" /\ snap[t] = <<>>
  BY DEF Init, ThreadInit
<1>2. \A s \in Slots : /\ life[s] = NoWord /\ gate[s] = [closed |-> FALSE, count |-> 0]
                       /\ inbox[s] = <<>> /\ carry[s] = <<>> /\ waveOwner[s] = None
                       /\ \A g \in 0 .. MaxGen : farm[s][g] = 0
  BY DEF Init, SlotInit, QueueInit
<1>3. ready = <<>> /\ readyCarry = <<>> /\ stale = 0
  BY DEF Init, QueueInit
<1>4. ASSUME NEW t \in Threads
      PROVE  ~Making(t) /\ ~Pinning(t) /\ ~Reserving(t) /\ ~Busy(t) /\ ~Pushing(t)
  BY <1>1 DEF Making, Pinning, Reserving, Busy, Pushing, Activating, InWave, At
<1>5. ASSUME NEW t \in Threads PROVE ThreadSound(t)
  <2>1. pc[t] = "idle" /\ ret[t] = "idle" /\ snap[t] = <<>> /\ 0 <= MaxFlush
    BY <1>1, FlushAssumption
  <2>2. QED
    BY <2>1 DEF ThreadSound, Returns, MakerSound, SenderSound, OwnerSound, ReclaimerSound,
      ActivationSound, WaveSound, Making, Admitted, Pinning, Entering, Activating, InWave, Owning,
      Pushing, At
<1>6. ASSUME NEW s \in Slots PROVE SlotSound(s)
  <2>1. life[s].phase = "vacant" /\ life[s].flags = {}
    BY <1>2 DEF NoWord, Word
  <2>2. Untouched(s)
    BY <1>1, <1>2 DEF Untouched, At
  <2>3. waveOwner[s] = None /\ inbox[s] = <<>> /\ carry[s] = <<>>
    BY <1>2
  <2>4. QED
    BY <2>1, <2>2, <2>3 DEF SlotSound, Active
<1>7. Alone
  BY <1>4 DEF Alone
<1>8. ReservationsCounted
  <2> SUFFICES ASSUME NEW s \in Slots
               PROVE  gate[s].count = Cardinality({t \in Threads : Reserving(t) /\ slot(t) = s})
    BY DEF ReservationsCounted
  <2>1. {t \in Threads : Reserving(t) /\ slot(t) = s} = {}
    BY <1>4
  <2>2. gate[s].count = 0
    BY <1>2
  <2>3. QED
    BY <2>1, <2>2, FS_EmptySet
<1>9. Range(<<>>) = {} /\ IsInjective(<<>>)
  BY DEF Range, IsInjective
<1>10. ASSUME NEW s \in Slots PROVE TokenSound(s)
  <2>1. ~Queued(s) /\ ~Published(s) /\ \A t \in Threads : ~Has(t, s) /\ s \notin Range(snap[t])
    BY <1>1, <1>2, <1>3, <1>4, <1>9 DEF Queued, Published, Has
  <2>2. life[s].phase = "vacant"
    BY <1>2 DEF NoWord, Word
  <2>3. QED
    BY <1>2, <1>4, <2>1, <2>2 DEF TokenSound, Queued
<1>11. TokensOnce
  BY <1>1, <1>3, <1>9 DEF TokensOnce
<1>12. QED
  BY <1>5, <1>6, <1>7, <1>8, <1>10, <1>11, InitTypes DEF Inv

(* A stuttering step keeps the invariant.                                  *)
LEMMA StutterInv == ASSUME Inv, UNCHANGED vars PROVE Inv'
<1> USE DEF vars, slotVars, queueVars, threadVars
<1>1. Types'
  BY DEF Inv, Types, SlotTypes, QueueTypes, ThreadTypes, LocalTypes
<1>2. (\A t \in Threads : ThreadSound(t))' /\ (\A s \in Slots : SlotSound(s))'
  <2>1. ASSUME NEW t \in Threads PROVE ThreadSound(t)'
    <3>1. ThreadSound(t)
      BY DEF Inv
    <3>2. Returns(t)' /\ MakerSound(t)' /\ SenderSound(t)'
      BY <3>1 DEF ThreadSound, Returns, MakerSound, SenderSound, Making, Admitted, Pushing, At,
        slot, gen, Untouched
    <3>3. OwnerSound(t)' /\ ReclaimerSound(t)'
      BY <3>1 DEF ThreadSound, OwnerSound, ReclaimerSound, Pinning, Pushing, At, slot, gen,
        Drained, Joined
    <3>4. ActivationSound(t)'
      BY <3>1 DEF ThreadSound, ActivationSound, Activating, Entering, At, slot, gen, Drained,
        Joined, Awaited, Heard
    <3>5. WaveSound(t)'
      BY <3>1 DEF ThreadSound, WaveSound, InWave, Owning, Pushing, At, slot, gen, Awaited, Heard
    <3>6. QED
      BY <3>2, <3>3, <3>4, <3>5 DEF ThreadSound
  <2>2. ASSUME NEW s \in Slots PROVE SlotSound(s)'
    <3>1. SlotSound(s)
      BY DEF Inv
    <3>2. QED
      BY <3>1 DEF SlotSound, Untouched, Heard, Drained, Joined, At, slot
  <2>3. QED
    BY <2>1, <2>2
<1>3. Alone' /\ ReservationsCounted'
  BY DEF Inv, Alone, ReservationsCounted, Making, Pinning, Reserving, Pushing, At, slot
<1>4. (\A s \in Slots : TokenSound(s))' /\ TokensOnce'
  BY DEF Inv, TokenSound, TokensOnce, Queued, Published, Has, Busy, Pushing, Activating, InWave,
    At, slot
<1>5. QED
  BY <1>1, <1>2, <1>3, <1>4 DEF Inv

-----------------------------------------------------------------------------
(* What the invariant says of the actors.                                  *)

(* GenerationHeld follows from the invariant.                              *)
LEMMA HeldByInv == ASSUME Inv PROVE GenerationHeld
<1>1. ASSUME NEW t \in Threads, Admitted(t)
      PROVE  /\ life[slot(t)].gen = gen(t) /\ life[slot(t)].phase \in Active
             /\ gate[slot(t)].count > 0
  <2>1. slot(t) \in Slots /\ SenderSound(t)
    BY DEF Inv, Types, ThreadTypes, slot, ThreadSound
  <2>2. Reserving(t)
    BY <1>1 DEF Reserving, Admitted
  <2>3. gate[slot(t)].count \in Nat /\ gate[slot(t)].count # 0
    BY <2>1, <2>2, NoneReserves DEF Inv, Types, SlotTypes
  <2>4. QED
    BY <1>1, <2>1, <2>3 DEF SenderSound
<1>2. ASSUME NEW t \in Threads, Pinning(t)
      PROVE  life[slot(t)].gen = gen(t) /\ "op" \in life[slot(t)].flags
  BY <1>2 DEF Inv, ThreadSound, OwnerSound
<1>3. ASSUME NEW t \in Threads, InCallback(t)
      PROVE  state[slot(t)] = gen(t) /\ life[slot(t)].gen = gen(t)
  <2>1. slot(t) \in Slots /\ ActivationSound(t) /\ WaveSound(t) /\ SlotSound(slot(t))
    BY DEF Inv, Types, ThreadTypes, slot, ThreadSound
  <2>2. life[slot(t)].gen = gen(t) /\ life[slot(t)].phase \in {"scheduled", "running"}
    BY <1>3, <2>1 DEF InCallback, ActivationSound, WaveSound, Activating, Entering, InWave
  <2>3. QED
    BY <2>1, <2>2 DEF SlotSound, Active
<1>4. ASSUME NEW s \in Slots PROVE Cardinality(ThreadsOn(s, Pinning)) <= 1
  <2> DEFINE P == {t \in Threads : Pinning(t) /\ slot(t) = s}
  <2>1. \A t, u \in P : t = u
    BY DEF Inv, Alone
  <2>2. CASE P = {}
    BY <2>2, FS_EmptySet DEF ThreadsOn
  <2>3. CASE P # {}
    <3>1. PICK t : P = {t}
      BY <2>1, <2>3
    <3>2. Cardinality(P) = 1
      BY <3>1, FS_Singleton
    <3>3. QED
      BY <3>2 DEF ThreadsOn
  <2>4. QED
    BY <2>2, <2>3
<1>5. QED
  BY <1>1, <1>2, <1>3, <1>4 DEF GenerationHeld

(* StoreAlone follows from the invariant.                                  *)
LEMMA AloneByInv == ASSUME Inv PROVE StoreAlone
  BY DEF Inv, ThreadSound, OwnerSound, StoreAlone

(* NothingStranded follows from the invariant.                             *)
LEMMA StrandedByInv == ASSUME Inv PROVE NothingStranded
<1>1. ASSUME NEW s \in Slots, life[s].phase = "idle", inbox[s] # <<>>
      PROVE  \E t \in Threads : At(t, "signal") /\ slot(t) = s /\ gen(t) = life[s].gen
  <2>1. PICK t \in Threads : At(t, "signal") /\ ret[t] = "release" /\ slot(t) = s
    BY <1>1 DEF Inv, SlotSound, Heard
  <2>2. gen(t) = life[s].gen
    BY <2>1 DEF Inv, ThreadSound, SenderSound, Admitted
  <2>3. QED
    BY <2>1, <2>2
<1>2. ASSUME NEW s \in Slots, life[s].phase = "idle" PROVE carry[s] = <<>>
  BY <1>2 DEF Inv, SlotSound, Heard
<1>3. ASSUME NEW s \in Slots, life[s].phase \in {"retired", "reclaiming"} PROVE Drained(s)
  BY <1>3 DEF Inv, SlotSound, Drained, Active
<1>4. QED
  BY <1>1, <1>2, <1>3 DEF NothingStranded

(* NeverStale follows from the invariant.                                  *)
LEMMA StaleByInv == ASSUME Inv PROVE NeverStale
  BY DEF Inv, TokensOnce, TokenSound, NeverStale

(* No step takes an actor to idle over a pending signal.                   *)
LEMMA WakeKept ==
    ASSUME Inv, NEW t \in Threads, Moves(t), NEW s \in Slots, "pending" \in life[s].flags
    PROVE  life'[s].phase # "idle"
<1>1. LifeMoves(t, s) /\ SlotSound(s)
  BY DEF Inv, Moves, SlotMoves
<1>2. QED
  BY <1>1 DEF SlotSound, LifeMoves, Keep, Begins, Fails, Opens, Marks, Wakens, Advances, Unpins,
    Ends, Claims, Frees, Step

-----------------------------------------------------------------------------
(* One activation: the places of a token, counted.                         *)

(* In a sequence without repetition a slot occurs at most once.            *)
LEMMA TimesOnce ==
    ASSUME NEW q \in Seq(Slots), IsInjective(q), NEW s \in Slots
    PROVE  Times(q, s) = IF s \in Range(q) THEN 1 ELSE 0
<1> DEFINE I == {i \in DOMAIN q : q[i] = s}
<1>1. CASE s \in Range(q)
  <2>1. PICK i \in DOMAIN q : q[i] = s
    BY <1>1 DEF Range
  <2>2. I = {i}
    BY <2>1 DEF IsInjective
  <2>3. Cardinality(I) = 1
    BY <2>2, FS_Singleton
  <2>4. QED
    BY <1>1, <2>3 DEF Times
<1>2. CASE s \notin Range(q)
  <2>1. I = {}
    BY <1>2 DEF Range
  <2>2. Cardinality(I) = 0
    BY <2>1, FS_EmptySet
  <2>3. QED
    BY <1>2, <2>2 DEF Times
<1>3. QED
  BY <1>1, <1>2

(* At most one of the threads, or none.                                    *)
LEMMA OneOrNone ==
    ASSUME NEW S, \A x, y \in S : x = y
    PROVE  Cardinality(S) = IF S = {} THEN 0 ELSE 1
<1>1. CASE S = {}
  BY <1>1, FS_EmptySet
<1>2. CASE S # {}
  <2>1. PICK x : S = {x}
    BY <1>2
  <2>2. QED
    BY <1>2, <2>1, FS_Singleton
<1>3. QED
  BY <1>1, <1>2

(* OneActivation follows from the invariant.                               *)
LEMMA OneByInv == ASSUME Inv PROVE OneActivation
<1>1. SUFFICES ASSUME NEW s \in Slots
               PROVE  Activations(s) = IF life[s].phase \in {"scheduled", "running"} THEN 1 ELSE 0
  BY DEF OneActivation
<1>2. TokenSound(s) /\ TokensOnce
  BY DEF Inv
<1> DEFINE Sn == {x \in Threads \X (1 .. MaxFlush) :
                     x[2] \in DOMAIN snap[x[1]] /\ snap[x[1]][x[2]] = s}
           Fa == {x \in (0 .. MaxGen) \X (1 .. 3) : x[2] <= farm[s][x[1]]}
           Pu == {t \in Threads : Pushing(t) /\ slot(t) = s}
           Ac == {t \in Threads : Activating(t) /\ slot(t) = s}
           Wa == {t \in Threads : InWave(t) /\ slot(t) = s}
           one(b) == IF b THEN 1 ELSE 0
<1>3. /\ Times(ready, s) = one(s \in Range(ready))
      /\ Times(readyCarry, s) = one(s \in Range(readyCarry))
  BY <1>2, TimesOnce DEF Inv, Types, QueueTypes, TokensOnce
<1>4. Cardinality(Sn) = one(\E t \in Threads : s \in Range(snap[t]))
  <2>1. ASSUME NEW x \in Sn, NEW y \in Sn PROVE x = y
    <3>1. /\ x[1] \in Threads /\ x[2] \in DOMAIN snap[x[1]] /\ snap[x[1]][x[2]] = s
          /\ y[1] \in Threads /\ y[2] \in DOMAIN snap[y[1]] /\ snap[y[1]][y[2]] = s
          /\ x = <<x[1], x[2]>> /\ y = <<y[1], y[2]>>
      OBVIOUS
    <3>2. s \in Range(snap[x[1]]) /\ s \in Range(snap[y[1]])
      BY <3>1 DEF Range
    <3>3. x[1] = y[1]
      BY <1>2, <3>1, <3>2 DEF TokenSound, Has
    <3>4. x[2] = y[2]
      BY <1>2, <3>1, <3>3 DEF TokensOnce, IsInjective
    <3>5. QED
      BY <3>1, <3>3, <3>4
  <2>2. Sn = {} <=> ~\E t \in Threads : s \in Range(snap[t])
    <3>1. ASSUME NEW t \in Threads, s \in Range(snap[t]) PROVE Sn # {}
      <4>1. PICK i \in DOMAIN snap[t] : snap[t][i] = s
        BY <3>1 DEF Range
      <4>2. snap[t] \in Seq(Slots) /\ Len(snap[t]) <= MaxFlush
        BY DEF Inv, Types, ThreadTypes, LocalTypes, ThreadSound, Returns
      <4>3. i \in 1 .. MaxFlush
        BY <4>1, <4>2, FlushAssumption
      <4>4. <<t, i>> \in Sn
        BY <4>1, <4>3
      <4>5. QED
        BY <4>4
    <3>2. ASSUME NEW x \in Sn PROVE x[1] \in Threads /\ s \in Range(snap[x[1]])
      BY DEF Range
    <3>3. QED
      BY <3>1, <3>2
  <2>3. QED
    BY <2>1, <2>2, OneOrNone
<1>5. Cardinality(Fa) = one(Published(s))
  <2>1. \A g \in 0 .. MaxGen :
           /\ farm[s][g] \in Nat
           /\ farm[s][g] > 0 => farm[s][g] = 1 /\ g = life[s].gen
    <3>1. \A g \in 0 .. MaxGen : farm[s][g] \in Nat
      BY DEF Inv, Types, QueueTypes
    <3>2. QED
      BY <1>2, <3>1 DEF TokenSound
  <2>2. \A x \in Fa : x = <<life[s].gen, 1>>
    <3>1. ASSUME NEW x \in Fa PROVE x[1] = life[s].gen /\ x[2] = 1 /\ x = <<x[1], x[2]>>
      BY <2>1
    <3>2. QED
      BY <3>1
  <2>3. ASSUME NEW g \in 0 .. MaxGen, farm[s][g] > 0 PROVE <<g, 1>> \in Fa
    BY <2>1, <2>3
  <2>4. ASSUME NEW x \in Fa PROVE x[1] \in 0 .. MaxGen /\ farm[s][x[1]] > 0
    BY <2>1
  <2>5. Fa = {} <=> ~Published(s)
    BY <2>3, <2>4 DEF Published
  <2>6. QED
    BY <2>2, <2>5, OneOrNone
<1>6. \A t, u \in Threads : Busy(t) /\ Busy(u) /\ slot(t) = s /\ slot(u) = s => t = u
  BY OneBusy
<1>7. /\ Cardinality(Pu) = one(\E t \in Threads : Pushing(t) /\ slot(t) = s)
      /\ Cardinality(Ac) = one(\E t \in Threads : Activating(t) /\ slot(t) = s)
      /\ Cardinality(Wa) = one(\E t \in Threads : InWave(t) /\ slot(t) = s)
  <2>1. /\ \A t, u \in Pu : t = u
        /\ \A t, u \in Ac : t = u
        /\ \A t, u \in Wa : t = u
    BY <1>6 DEF Busy
  <2>2. QED
    BY <2>1, OneOrNone
<1>8. Activations(s) = Times(ready, s) + Times(readyCarry, s) + Cardinality(Sn)
        + Cardinality(Fa) + Cardinality(Pu) + Cardinality(Ac) + Cardinality(Wa)
  BY DEF Activations, ThreadsOn
<1>9. \A t \in Threads : /\ ~(Pushing(t) /\ Activating(t))
                         /\ ~(Pushing(t) /\ InWave(t))
                         /\ ~(Activating(t) /\ InWave(t))
  BY DEF Pushing, Activating, InWave, At
<1> DEFINE r == s \in Range(ready)
           c == s \in Range(readyCarry)
           p == Published(s)
           n == \E t \in Threads : s \in Range(snap[t])
           k == \E t \in Threads : Pushing(t) /\ slot(t) = s
           a == \E t \in Threads : Activating(t) /\ slot(t) = s
           w == \E t \in Threads : InWave(t) /\ slot(t) = s
<1>10. /\ ~(r /\ c) /\ ~((r \/ c) /\ p) /\ ~((r \/ c \/ p) /\ (n \/ k \/ a \/ w))
       /\ ~(n /\ (k \/ a \/ w))
  <2>1. \A t, u \in Threads : s \in Range(snap[t]) /\ Busy(u) /\ slot(u) = s => FALSE
    BY <1>2 DEF TokenSound, Has
  <2>2. QED
    BY <1>2, <2>1 DEF TokenSound, Has, Busy, Queued
<1>11. ~(k /\ a) /\ ~(k /\ w) /\ ~(a /\ w)
  BY <1>6, <1>9 DEF Busy
<1>12. (r \/ c \/ p \/ n \/ k \/ a \/ w) <=> life[s].phase \in {"scheduled", "running"}
  <2>1. life[s].phase \in {"scheduled", "running"} => r \/ c \/ p \/ n \/ k \/ a \/ w
    BY <1>2 DEF TokenSound, Has, Busy, Queued
  <2>2. r \/ c \/ p \/ n => life[s].phase = "scheduled"
    BY <1>2 DEF TokenSound, Queued
  <2>3. k \/ a \/ w => life[s].phase \in {"scheduled", "running"}
    BY BusyPhase DEF Busy
  <2>4. QED
    BY <2>1, <2>2, <2>3
<1> HIDE DEF r, c, p, n, k, a, w, Sn, Fa, Pu, Ac, Wa
<1>13. Activations(s) = one(r) + one(c) + one(n) + one(p) + one(k) + one(a) + one(w)
  BY <1>3, <1>4, <1>5, <1>7, <1>8 DEF r, c, p, n, k, a, w
<1>14. QED
  BY <1>10, <1>11, <1>12, <1>13

-----------------------------------------------------------------------------
(* Every step.                                                             *)

(* The steps that move an activation from one place to the next.           *)
Transfers(t) ==
    \/ LinkReady(t) \/ Detach(t) \/ TakeOne(t) \/ WriteBodies(t) \/ Enter(t)
    \/ PushBack(t) /\ snap[t] # <<>>

(* Every step of a caller is one that the other lemmas speak of.           *)
LEMMA CallerMoves ==
    ASSUME Inv, NEW t \in Threads, CallerNext(t)
    PROVE  Moves(t) /\ Carries(t)
  BY ReserveSlotMoves, ConstructMoves, ConstructFailsMoves, BuildMoves, OpenActorMoves, SendMoves,
    ReserveSubmissionMoves, ConfirmSubmissionMoves, SendMeetsWaveMoves, ClaimNodeMoves,
    PushInboxMoves, SignalMoves, ReleaseSubmissionMoves, WakeMoves, WakeMeetsWaveMoves,
    RetireMoves, RetireMeetsWaveMoves, PinRetireMoves, CloseGateMoves, DriveMoves, DriveGateMoves,
    DriveJoinMoves, PublishRetiredMoves, DriveQueueMoves, UnpinMoves, ReclaimMoves,
    ReclaimMeetsWaveMoves, ClaimReclaimMoves, DestroyMoves, ReturnFreeSlotMoves DEF CallerNext

(* Every step of a runner is one that the other lemmas speak of.           *)
LEMMA RunnerMoves ==
    ASSUME Inv, NEW t \in Threads, RunnerNext(t)
    PROVE  Moves(t) /\ (Carries(t) \/ Transfers(t))
  BY CountReadyMoves, LinkReadyMoves, FlushMoves, DetachMoves, TakeOneMoves, UncountMoves,
    UngateMoves, WriteBodiesMoves, PushBackMoves, EnterMoves, EntryGateMoves, EntryInboxMoves,
    RunMoves, RetireNowMoves, RequeueMoves, PopMoves, CompleteNodeMoves, EndCallbackMoves,
    MarkRetiringMoves, ExitMoves, ExitGateMoves, ExitInboxMoves, LeaveMoves, ReserveWaveMoves,
    JoinWaveMoves, CancelMemberMoves, RunMemberMoves, EndWaveWorkMoves, LeaveWaveMoves DEF
    RunnerNext, Transfers

(* A step that hands a token on keeps the tokens sound.                    *)
LEMMA TransferTokens ==
    ASSUME Inv, NEW t \in Threads, Transfers(t), Moves(t)
    PROVE  (\A s \in Slots : TokenSound(s)') /\ TokensOnce'
<1>1. Others(t)
  BY DEF Moves
<1>2. CASE LinkReady(t)
  BY <1>1, <1>2, LinkTokens
<1>3. CASE Detach(t)
  BY <1>1, <1>3, DetachTokens
<1>4. CASE TakeOne(t)
  BY <1>1, <1>4, TakeTokens
<1>5. CASE WriteBodies(t)
  BY <1>5, WriteTokens
<1>6. CASE Enter(t)
  BY <1>6, EnterTokens
<1>7. CASE PushBack(t) /\ snap[t] # <<>>
  BY <1>1, <1>7, BackTokens
<1>8. QED
  BY <1>2, <1>3, <1>4, <1>5, <1>6, <1>7 DEF Transfers

(* Every step of a thread is one that the other lemmas speak of.           *)
LEMMA StepMoves ==
    ASSUME Inv, NEW t \in Threads, ThreadNext(t)
    PROVE  Moves(t) /\ (Carries(t) \/ Transfers(t))
  BY CallerMoves, RunnerMoves DEF ThreadNext

(* Every step of a thread keeps the invariant.                             *)
LEMMA StepInv == ASSUME Inv, NEW t \in Threads, ThreadNext(t) PROVE Inv'
<1>1. Moves(t) /\ (Carries(t) \/ Transfers(t))
  BY StepMoves
<1>2. \A u \in Threads : ThreadSound(u)'
  BY <1>1, ThreadStays
<1>3. \A s \in Slots : SlotSound(s)'
  BY <1>1, SlotStays
<1>4. Alone' /\ ReservationsCounted'
  BY <1>1, AloneStays, CountStays
<1>5. (\A s \in Slots : TokenSound(s)') /\ TokensOnce'
  BY <1>1, CalmTokens, TransferTokens
<1>6. Types'
  BY <1>1 DEF Moves
<1>7. QED
  BY <1>2, <1>3, <1>4, <1>5, <1>6 DEF Inv

-----------------------------------------------------------------------------
(* Theorems.                                                               *)

(* The inductive invariant: the types, what each thread relies on where it *)
(* is, what a phase says of its slot, that owners are alone, that the gate *)
(* counts the reservations, and that a scheduled or running actor's        *)
(* activation is in one place.                                             *)
THEOREM LifecycleInductive == Spec => []Inv
<1>1. Init => Inv
  BY InitInv
<1>2. Inv /\ [Next]_vars => Inv'
  <2>1. CASE UNCHANGED vars
    BY <2>1, StutterInv
  <2>2. ASSUME Inv, NEW t \in Threads, ThreadNext(t) PROVE Inv'
    BY <2>2, StepInv
  <2>3. QED
    BY <2>1, <2>2 DEF Next
<1>3. QED
  BY <1>1, <1>2, PTL DEF Spec

(* A confirmed reservation, an owner's pin and a callback hold the         *)
(* generation they are about (reserveSubmission, requestActorRetire,       *)
(* enter): for any number of slots, threads, nodes and generations.        *)
THEOREM GenerationsAreHeld == Spec => []GenerationHeld
  BY LifecycleInductive, HeldByInv, PTL

(* The plain store of RETIRED in driveActorRetirement overwrites nothing   *)
(* and strands no message.                                                 *)
THEOREM StoreIsAlone == Spec => []StoreAlone
  BY LifecycleInductive, AloneByInv, PTL

(* An idle actor's inbox is empty or about to be signalled, and a retired  *)
(* one's is empty for good (sendActor, signalActor, the exit of enter).    *)
THEOREM NoMessageIsStranded == Spec => []NothingStranded
  BY LifecycleInductive, StrandedByInv, PTL

(* No payload outlives its generation: enter never counts a stale one.     *)
THEOREM NoPayloadIsStale == Spec => []NeverStale
  BY LifecycleInductive, StaleByInv, PTL

(* A scheduled or running actor has exactly one activation, any other none *)
(* (pushReady, takeReady, flush, enter, the wave calls).                   *)
THEOREM ActivationIsUnique == Spec => []OneActivation
  BY LifecycleInductive, OneByInv, PTL

(* No step takes an actor to idle over a pending signal.                   *)
THEOREM WakesAreKept == Spec => WakesKept
<1> DEFINE Kept1 == \A s \in Slots : "pending" \in life[s].flags => life'[s].phase # "idle"
<1>1. Inv /\ [Next]_vars => [Kept1]_vars
  <2>1. ASSUME Inv, NEW t \in Threads, ThreadNext(t) PROVE Kept1
    BY <2>1, StepMoves, WakeKept
  <2>2. QED
    BY <2>1 DEF Next
<1>2. QED
  BY <1>1, LifecycleInductive, PTL DEF Spec, WakesKept

-----------------------------------------------------------------------------
(* The ready queue and its count.                                          *)

(* The queue and its count are as they were, and nobody takes or links.    *)
Quiet(t) ==
    /\ UNCHANGED <<ready, readyCarry, readyCount>>
    /\ ~At(t, "take") /\ ~At(t, "link") /\ ~At(t, "take")' /\ ~At(t, "link")'

(* No step of a caller touches the ready queue or its count.               *)
LEMMA CallersQuiet ==
    ASSUME Inv, NEW t \in Threads, CallerNext(t)
    PROVE  Quiet(t)
<1>1. DOMAIN pc = Threads /\ Returns(t)
  BY DEF Inv, Types, ThreadTypes, ThreadSound
<1>2. CASE ReserveSlot(t)
  <2>1. pc[t] = "idle" /\ UNCHANGED <<ready, readyCarry, readyCount>>
    BY <1>2 DEF ReserveSlot, Starts, queueVars
  <2>2. pc' = Set(pc, t, "construct")
    BY <1>2 DEF ReserveSlot, Open, Goto
  <2>3. QED
    BY <1>1, <2>1, <2>2 DEF Quiet, At, Set
<1>3. CASE Construct(t)
  BY <1>1, <1>3 DEF Construct, Goto, Set, At, queueVars, Quiet
<1>4. CASE ConstructFails(t)
  BY <1>1, <1>4 DEF ConstructFails, Set, Return, At, queueVars, Goto, Quiet
<1>5. CASE Build(t)
  BY <1>1, <1>5 DEF Build, Goto, Set, At, queueVars, Quiet
<1>6. CASE OpenActor(t)
  BY <1>1, <1>6 DEF OpenActor, Set, Return, At, queueVars, Goto, Quiet
<1>7. CASE Send(t)
  <2>1. pc[t] = "idle" /\ UNCHANGED <<ready, readyCarry, readyCount>>
    BY <1>7 DEF Send, Starts, queueVars
  <2>2. pc' = Set(pc, t, "reserve")
    BY <1>7 DEF Send, Open, Goto
  <2>3. QED
    BY <1>1, <2>1, <2>2 DEF Quiet, At, Set
<1>8. CASE ReserveSubmission(t)
  BY <1>1, <1>8 DEF ReserveSubmission, Goto, Return, At, queueVars, Set, Quiet
<1>9. CASE ConfirmSubmission(t)
  BY <1>1, <1>9 DEF ConfirmSubmission, Goto, At, queueVars, Set, Quiet
<1>10. CASE SendMeetsWave(t)
  BY <1>1, <1>10 DEF SendMeetsWave, Goto, At, queueVars, Set, Quiet
<1>11. CASE ClaimNode(t)
  BY <1>1, <1>11 DEF ClaimNode, Goto, Set, At, queueVars, Quiet
<1>12. CASE PushInbox(t)
  BY <1>1, <1>12 DEF PushInbox, Goto, Set, At, queueVars, Quiet
<1>13. CASE Signal(t)
  BY <1>1, <1>13 DEF Signal, Set, Resume, PushReady, At, queueVars, Goto, Return, Quiet, Returns,
    Pushing
<1>14. CASE ReleaseSubmission(t)
  BY <1>1, <1>14 DEF ReleaseSubmission, Return, At, queueVars, Goto, Set, Quiet
<1>15. CASE Wake(t)
  <2>1. pc[t] = "idle" /\ UNCHANGED <<ready, readyCarry, readyCount>>
    BY <1>15 DEF Wake, Starts, queueVars
  <2>2. pc' = Set(pc, t, "wakeWave")
    BY <1>15 DEF Wake, Open, Goto
  <2>3. QED
    BY <1>1, <2>1, <2>2 DEF Quiet, At, Set
<1>16. CASE WakeMeetsWave(t)
  BY <1>1, <1>16 DEF WakeMeetsWave, Goto, Return, At, queueVars, Set, Quiet
<1>17. CASE Retire(t)
  <2>1. pc[t] = "idle" /\ UNCHANGED <<ready, readyCarry, readyCount>>
    BY <1>17 DEF Retire, Starts, queueVars
  <2>2. pc' = Set(pc, t, "retireWave")
    BY <1>17 DEF Retire, Open, Goto
  <2>3. QED
    BY <1>1, <2>1, <2>2 DEF Quiet, At, Set
<1>18. CASE RetireMeetsWave(t)
  BY <1>1, <1>18 DEF RetireMeetsWave, Goto, Return, At, queueVars, Set, Quiet
<1>19. CASE PinRetire(t)
  BY <1>1, <1>19 DEF PinRetire, Goto, Set, Return, At, queueVars, Quiet
<1>20. CASE CloseGate(t)
  BY <1>1, <1>20 DEF CloseGate, Resume, At, queueVars, Goto, Return, Set, Quiet, Returns, Pushing
<1>21. CASE Drive(t)
  BY <1>1, <1>21 DEF Drive, DriveOn, At, queueVars, Goto, Set, Quiet
<1>22. CASE DriveGate(t)
  BY <1>1, <1>22 DEF DriveGate, Goto, At, queueVars, Set, Quiet
<1>23. CASE DriveJoin(t)
  BY <1>1, <1>23 DEF DriveJoin, Goto, DriveOn, At, queueVars, Set, Quiet
<1>24. CASE PublishRetired(t)
  BY <1>1, <1>24 DEF PublishRetired, Set, Return, At, queueVars, Goto, Quiet
<1>25. CASE DriveQueue(t)
  BY <1>1, <1>25 DEF DriveQueue, Set, PushReady, DriveOn, At, queueVars, Goto, Quiet
<1>26. CASE Unpin(t)
  BY <1>1, <1>26 DEF Unpin, Return, At, queueVars, Goto, Set, Quiet
<1>27. CASE Reclaim(t)
  <2>1. pc[t] = "idle" /\ UNCHANGED <<ready, readyCarry, readyCount>>
    BY <1>27 DEF Reclaim, Starts, queueVars
  <2>2. pc' = Set(pc, t, "reclaimWave")
    BY <1>27 DEF Reclaim, Open, Goto
  <2>3. QED
    BY <1>1, <2>1, <2>2 DEF Quiet, At, Set
<1>28. CASE ReclaimMeetsWave(t)
  BY <1>1, <1>28 DEF ReclaimMeetsWave, Goto, Return, At, queueVars, Set, Quiet
<1>29. CASE ClaimReclaim(t)
  BY <1>1, <1>29 DEF ClaimReclaim, Goto, Set, Return, At, queueVars, Quiet
<1>30. CASE Destroy(t)
  BY <1>1, <1>30 DEF Destroy, Goto, Set, At, queueVars, Quiet
<1>31. CASE ReturnFreeSlot(t)
  BY <1>1, <1>31 DEF ReturnFreeSlot, Set, Return, At, queueVars, Goto, Quiet
<1>32. QED
  BY <1>2, <1>3, <1>4, <1>5, <1>6, <1>7, <1>8, <1>9, <1>10, <1>11, <1>12, <1>13, <1>14, <1>15,
    <1>16, <1>17, <1>18, <1>19, <1>20, <1>21, <1>22, <1>23, <1>24, <1>25, <1>26, <1>27, <1>28,
    <1>29, <1>30, <1>31 DEF CallerNext

(* The other steps of a runner do not touch the queue or its count.        *)
LEMMA RunnersQuiet ==
    ASSUME Inv, NEW t \in Threads, RunnerNext(t), ~CountReady(t), ~LinkReady(t),
           ~Flush(t), ~Detach(t), ~TakeOne(t), ~Uncount(t)
    PROVE  Quiet(t)
<1>1. DOMAIN pc = Threads /\ Returns(t)
  BY DEF Inv, Types, ThreadTypes, ThreadSound
<1>2. CASE Ungate(t)
  BY <1>1, <1>2 DEF Ungate, Goto, At, Set, Quiet
<1>3. CASE WriteBodies(t)
  BY <1>1, <1>3 DEF WriteBodies, Goto, Set, At, Quiet
<1>4. CASE PushBack(t)
  BY <1>1, <1>4 DEF PushBack, Set, Return, PushReady, At, queueVars, Goto, Quiet
<1>5. CASE Enter(t)
  <2>1. pc[t] = "idle" /\ UNCHANGED <<ready, readyCarry, readyCount>>
    BY <1>5 DEF Enter, Starts, queueVars
  <2>2. \E l \in {"entryGate", "run", "idle"} : pc' = Set(pc, t, l)
    BY <1>5 DEF Enter, EnterOn, Stale, Return, Goto
  <2>3. QED
    BY <1>1, <2>1, <2>2 DEF Quiet, At, Set
<1>6. CASE EntryGate(t)
  BY <1>1, <1>6 DEF EntryGate, Goto, Set, At, queueVars, Quiet
<1>7. CASE EntryInbox(t)
  BY <1>1, <1>7 DEF EntryInbox, Goto, At, queueVars, Set, Quiet
<1>8. CASE Run(t)
  BY <1>1, <1>8 DEF Run, Goto, Set, At, EntryCas, EnterOn, Stale, Return, Quiet
<1>9. CASE RetireNow(t)
  BY <1>1, <1>9 DEF RetireNow, Return, At, EntryCas, Goto, Set, EnterOn, Stale, Quiet
<1>10. CASE Requeue(t)
  BY <1>1, <1>10 DEF Requeue, PushReady, At, EntryCas, Goto, Set, EnterOn, Stale, Return, Quiet
<1>11. CASE Pop(t)
  BY <1>1, <1>11 DEF Pop, Goto, Set, At, queueVars, Quiet
<1>12. CASE CompleteNode(t)
  BY <1>1, <1>12 DEF CompleteNode, Goto, Set, At, queueVars, Quiet
<1>13. CASE EndCallback(t)
  BY <1>1, <1>13 DEF EndCallback, Goto, Set, At, queueVars, Quiet
<1>14. CASE MarkRetiring(t)
  BY <1>1, <1>14 DEF MarkRetiring, Goto, Set, At, queueVars, Quiet
<1>15. CASE Exit(t)
  BY <1>1, <1>15 DEF Exit, At, ExitOn, Goto, Set, Stale, Return, Quiet
<1>16. CASE ExitGate(t)
  BY <1>1, <1>16 DEF ExitGate, Goto, Set, At, queueVars, Quiet
<1>17. CASE ExitInbox(t)
  BY <1>1, <1>17 DEF ExitInbox, Goto, Set, At, queueVars, Quiet
<1>18. CASE Leave(t)
  BY <1>1, <1>18 DEF Leave, Set, Return, PushReady, At, ExitOn, Goto, Stale, Quiet
<1>19. CASE ReserveWave(t)
  <2>1. pc[t] = "idle" /\ UNCHANGED <<ready, readyCarry, readyCount>>
    BY <1>19 DEF ReserveWave, Starts, queueVars
  <2>2. pc' = Set(pc, t, "waveCheck")
    BY <1>19 DEF ReserveWave, Open, Goto
  <2>3. QED
    BY <1>1, <2>1, <2>2 DEF Quiet, At, Set
<1>20. CASE JoinWave(t)
  BY <1>1, <1>20 DEF JoinWave, Goto, Set, At, queueVars, Quiet
<1>21. CASE CancelMember(t)
  BY <1>1, <1>21 DEF CancelMember, Goto, Set, At, queueVars, Quiet
<1>22. CASE RunMember(t)
  BY <1>1, <1>22 DEF RunMember, Goto, At, queueVars, Set, Quiet
<1>23. CASE EndWaveWork(t)
  BY <1>1, <1>23 DEF EndWaveWork, Goto, Set, Return, PushReady, At, queueVars, Quiet
<1>24. CASE LeaveWave(t)
  BY <1>1, <1>24 DEF LeaveWave, Set, Return, At, queueVars, Goto, Quiet
<1>25. QED
  BY <1>2, <1>3, <1>4, <1>5, <1>6, <1>7, <1>8, <1>9, <1>10, <1>11, <1>12, <1>13, <1>14, <1>15,
    <1>16, <1>17, <1>18, <1>19, <1>20, <1>21, <1>22, <1>23, <1>24 DEF RunnerNext

Takes ==
    {x \in Threads \X (1 .. MaxFlush) : At(x[1], "take") /\ x[2] \in DOMAIN snap[x[1]]}
Links == {t \in Threads : At(t, "link")}

(* The pairs that TakeOne counts are finitely many.                        *)
LEMMA PairsFinite ==
    ASSUME NEW S, S \subseteq Threads \X (1 .. MaxFlush)
    PROVE  IsFiniteSet(S) /\ Cardinality(S) \in Nat
<1>1. IsFiniteSet(1 .. MaxFlush)
  BY FlushAssumption, FS_Interval
<1>2. IsFiniteSet(Threads \X (1 .. MaxFlush))
  BY <1>1, ActorAssumption, FS_Product
<1>3. QED
  BY <1>2, FS_Subset, FS_CardinalityType

(* A set of threads is finite.                                             *)
LEMMA ThreadsFinite ==
    ASSUME NEW S, S \subseteq Threads
    PROVE  IsFiniteSet(S) /\ Cardinality(S) \in Nat
  BY ActorAssumption, FS_Subset, FS_CardinalityType

(* What others do there stays.                                             *)
LEMMA OthersCounted ==
    ASSUME NEW t \in Threads, Others(t), NEW u \in Threads \ {t}, NEW i
    PROVE  /\ At(u, "link")' <=> At(u, "link")
           /\ (At(u, "take") /\ i \in DOMAIN snap[u])' <=> At(u, "take") /\ i \in DOMAIN snap[u]
  BY DEF Others, At

(* A step that is not about a link leaves the pending links.               *)
LEMMA LinksStay ==
    ASSUME NEW t \in Threads, Others(t), At(t, "link")' <=> At(t, "link")
    PROVE  Links' = Links
<1>1. \A u \in Threads : At(u, "link")' <=> At(u, "link")
  BY OthersCounted
<1>2. QED
  BY <1>1 DEF Links

(* A step that is not about a take leaves the takes not yet uncounted.     *)
LEMMA TakesStay ==
    ASSUME NEW t \in Threads, Others(t),
           \A i \in 1 .. MaxFlush : (At(t, "take") /\ i \in DOMAIN snap[t])'
                                      <=> At(t, "take") /\ i \in DOMAIN snap[t]
    PROVE  Takes' = Takes
<1>1. ASSUME NEW x \in Threads \X (1 .. MaxFlush)
      PROVE  (At(x[1], "take") /\ x[2] \in DOMAIN snap[x[1]])'
               <=> At(x[1], "take") /\ x[2] \in DOMAIN snap[x[1]]
  <2>1. x[1] \in Threads /\ x[2] \in 1 .. MaxFlush
    OBVIOUS
  <2>2. CASE x[1] = t
    BY <2>1, <2>2
  <2>3. CASE x[1] # t
    BY <2>1, <2>3, OthersCounted
  <2>4. QED
    BY <2>2, <2>3
<1>2. QED
  BY <1>1 DEF Takes

(* ReadyCounted, with the two sets named.                                  *)
LEMMA CountedIs ==
    ReadyCounted <=> readyCount
        = Len(ready) + Len(readyCarry) + Cardinality(Takes) + Cardinality(Links)
  BY DEF ReadyCounted, Takes, Links

(* ReadyCounted of the next state, with the two sets named.                *)
LEMMA CountedNext ==
    ReadyCounted' <=> readyCount'
        = Len(ready') + Len(readyCarry') + Cardinality(Takes') + Cardinality(Links')
  BY DEF ReadyCounted, Takes, Links

(* A step that leaves the queue leaves its count right.                    *)
LEMMA QuietCounted ==
    ASSUME NEW t \in Threads, Others(t), Quiet(t), ReadyCounted
    PROVE  ReadyCounted'
<1>1. Links' = Links
  BY LinksStay DEF Quiet
<1>2. Takes' = Takes
  BY TakesStay DEF Quiet
<1>3. QED
  BY <1>1, <1>2, CountedIs, CountedNext DEF Quiet

(* The terms of the count are numbers.                                     *)
LEMMA LengthsTyped ==
    ASSUME Inv
    PROVE  /\ Len(ready) \in Nat /\ Len(readyCarry) \in Nat /\ readyCount \in Int
           /\ Cardinality(Takes) \in Nat /\ Cardinality(Links) \in Nat
<1>1. Takes \subseteq Threads \X (1 .. MaxFlush) /\ Links \subseteq Threads
  BY DEF Takes, Links
<1>2. QED
  BY <1>1, PairsFinite, ThreadsFinite DEF Inv, Types, QueueTypes

(* pushReady counts before it links.                                       *)
LEMMA CountCounted ==
    ASSUME Inv, NEW t \in Threads, CountReady(t), Others(t), ReadyCounted
    PROVE  ReadyCounted'
<1>1. DOMAIN pc = Threads
  BY DEF Inv, Types, ThreadTypes
<1>2. At(t, "count") /\ At(t, "link")' /\ readyCount' = readyCount + 1
  BY <1>1 DEF CountReady, At, Goto, Set
<1>3. UNCHANGED <<ready, readyCarry>>
  BY DEF CountReady
<1>4. Takes' = Takes
  BY <1>2, TakesStay DEF At
<1>5. Links' = Links \cup {t} /\ t \notin Links
  <2>1. \A u \in Threads : At(u, "link")' <=> (u = t \/ At(u, "link"))
    BY <1>2, OthersCounted
  <2>2. QED
    BY <1>2, <2>1 DEF Links, At
<1>6. Cardinality(Links') = Cardinality(Links) + 1
  BY <1>5, ThreadsFinite, FS_AddElement DEF Links
<1>7. QED
  BY <1>2, <1>3, <1>4, <1>6, LengthsTyped, CountedIs, CountedNext

(* The link turns a pending link into a queued activation.                 *)
LEMMA LinkCounted ==
    ASSUME Inv, NEW t \in Threads, LinkReady(t), Others(t), ReadyCounted
    PROVE  ReadyCounted'
<1>1. DOMAIN pc = Threads /\ Returns(t) /\ ready \in Seq(Slots) /\ slot(t) \in Slots
  BY DEF Inv, Types, ThreadTypes, QueueTypes, ThreadSound, slot
<1>2. At(t, "link") /\ pc'[t] \in {"release", "unpin", "pushBack", "idle", "leaveWave"}
  BY <1>1 DEF LinkReady, Resume, Return, Goto, Set, At, Returns, Pushing
<1>3. ready' = <<slot(t)>> \o ready /\ UNCHANGED <<readyCarry, readyCount>>
  BY DEF LinkReady
<1>4. Takes' = Takes
  BY <1>2, TakesStay DEF At
<1>5. Links' = Links \ {t} /\ t \in Links
  <2>1. \A u \in Threads : At(u, "link")' <=> (u # t /\ At(u, "link"))
    BY <1>2, OthersCounted DEF At
  <2>2. QED
    BY <1>2, <2>1 DEF Links
<1>6. Cardinality(Links') = Cardinality(Links) - 1
  BY <1>5, ThreadsFinite, FS_RemoveElement DEF Links
<1>7. Len(ready') = Len(ready) + 1
  BY <1>1, <1>3
<1>8. QED
  BY <1>3, <1>4, <1>6, <1>7, LengthsTyped, CountedIs, CountedNext

(* flush starts with nothing taken.                                        *)
LEMMA FlushCounted ==
    ASSUME Inv, NEW t \in Threads, Flush(t), Others(t), ReadyCounted
    PROVE  ReadyCounted'
<1>1. DOMAIN pc = Threads /\ Returns(t)
  BY DEF Inv, Types, ThreadTypes, ThreadSound
<1>2. pc[t] = "idle" /\ pc'[t] = "take" /\ snap' = snap
  BY <1>1 DEF Flush, Starts, Goto, Set, argVars
<1>3. DOMAIN snap'[t] = {}
  BY <1>1, <1>2 DEF Returns, Pushing
<1>4. Takes' = Takes
  BY <1>2, <1>3, TakesStay DEF At
<1>5. Links' = Links
  BY <1>2, LinksStay DEF At
<1>6. UNCHANGED <<ready, readyCarry, readyCount>>
  BY DEF Flush
<1>7. QED
  BY <1>4, <1>5, <1>6, CountedIs, CountedNext

(* Detaching moves the queue to the carry.                                 *)
LEMMA DetachCounted ==
    ASSUME Inv, NEW t \in Threads, Detach(t), Others(t), ReadyCounted
    PROVE  ReadyCounted'
<1>1. readyCarry = <<>> /\ readyCarry' = ready /\ ready' = <<>> /\ readyCount' = readyCount
  BY DEF Detach
<1>2. pc' = pc /\ snap' = snap
  BY DEF Detach, threadVars
<1>3. Takes' = Takes /\ Links' = Links
  BY <1>2, TakesStay, LinksStay DEF At
<1>4. Len(readyCarry) = 0 /\ Len(ready') = 0
  BY <1>1
<1>5. QED
  BY <1>1, <1>3, <1>4, LengthsTyped, CountedIs, CountedNext

(* Taking from the carry turns a queued activation into a taken one.       *)
LEMMA TakeCounted ==
    ASSUME Inv, NEW t \in Threads, TakeOne(t), Others(t), ReadyCounted
    PROVE  ReadyCounted'
<1> DEFINE n == Len(snap[t])
<1>1. /\ snap[t] \in Seq(Slots) /\ n \in Nat /\ DOMAIN snap = Threads
      /\ readyCarry \in Seq(Slots)
  BY DEF Inv, Types, ThreadTypes, LocalTypes, QueueTypes
<1>2. At(t, "take") /\ n < MaxFlush /\ readyCarry # <<>> /\ readyCarry' = Tail(readyCarry)
  BY DEF TakeOne
<1>3. pc' = pc /\ snap' = Set(snap, t, Append(snap[t], Head(readyCarry)))
  BY DEF TakeOne
<1>4. UNCHANGED <<ready, readyCount>>
  BY DEF TakeOne
<1>5. snap'[t] = Append(snap[t], Head(readyCarry)) /\ Head(readyCarry) \in Slots
  BY <1>1, <1>2, <1>3 DEF Set
<1>6. DOMAIN snap'[t] = 1 .. n + 1 /\ DOMAIN snap[t] = 1 .. n
  BY <1>1, <1>5
<1>7. n + 1 \in 1 .. MaxFlush /\ n + 1 \notin 1 .. n
  BY <1>1, <1>2, FlushAssumption
<1>8. Takes' = Takes \cup {<<t, n + 1>>} /\ <<t, n + 1>> \notin Takes
  <2>1. ASSUME NEW x \in Threads \X (1 .. MaxFlush)
        PROVE  (At(x[1], "take") /\ x[2] \in DOMAIN snap[x[1]])'
                 <=> \/ x = <<t, n + 1>>
                     \/ At(x[1], "take") /\ x[2] \in DOMAIN snap[x[1]]
    <3>1. x = <<x[1], x[2]>> /\ x[1] \in Threads /\ x[2] \in 1 .. MaxFlush
      OBVIOUS
    <3>2. CASE x[1] = t
      <4>1. x[2] \in 1 .. n + 1 <=> (x[2] = n + 1 \/ x[2] \in 1 .. n)
        BY <1>1, <3>1
      <4>2. x = <<t, n + 1>> <=> x[2] = n + 1
        BY <3>1, <3>2
      <4>3. At(t, "take")'
        BY <1>2, <1>3 DEF At
      <4>4. QED
        BY <1>2, <1>6, <3>2, <4>1, <4>2, <4>3
    <3>3. CASE x[1] # t
      <4>1. x # <<t, n + 1>>
        BY <3>3
      <4>2. QED
        BY <3>1, <3>3, <4>1, OthersCounted
    <3>4. QED
      BY <3>2, <3>3
  <2>2. <<t, n + 1>> \in Threads \X (1 .. MaxFlush)
    BY <1>7
  <2>3. Takes' = Takes \cup {<<t, n + 1>>}
    BY <2>1, <2>2 DEF Takes
  <2>4. <<t, n + 1>> \notin Takes
    BY <1>6, <1>7 DEF Takes
  <2>5. QED
    BY <2>3, <2>4
<1>9. Cardinality(Takes') = Cardinality(Takes) + 1
  <2>1. Takes \subseteq Threads \X (1 .. MaxFlush)
    BY DEF Takes
  <2>2. IsFiniteSet(Takes)
    BY <2>1, PairsFinite
  <2>3. QED
    BY <1>8, <2>2, FS_AddElement
<1>10. Links' = Links
  BY <1>3, LinksStay DEF At
<1>11. Len(readyCarry') = Len(readyCarry) - 1
  BY <1>1, <1>2
<1>12. QED
  BY <1>4, <1>9, <1>10, <1>11, LengthsTyped, CountedIs, CountedNext

(* The pairs of the flush are as many as the slots it took.                *)
LEMMA RowCounted ==
    ASSUME NEW t, NEW n \in Nat
    PROVE  /\ IsFiniteSet({t} \X (1 .. n))
           /\ Cardinality({t} \X (1 .. n)) = n
<1>1. IsFiniteSet(1 .. n) /\ Cardinality(1 .. n) = n
  BY FS_Interval
<1>2. IsFiniteSet({t}) /\ Cardinality({t}) = 1
  BY FS_Singleton
<1>3. QED
  BY <1>1, <1>2, FS_Product

(* flush uncounts what it took, all at once.                               *)
LEMMA UncountCounted ==
    ASSUME Inv, NEW t \in Threads, Uncount(t), Others(t), ReadyCounted
    PROVE  ReadyCounted'
<1> DEFINE n == Len(snap[t])
           row == {t} \X (1 .. n)
<1>1. snap[t] \in Seq(Slots) /\ n \in Nat /\ n <= MaxFlush /\ DOMAIN pc = Threads
  BY DEF Inv, Types, ThreadTypes, LocalTypes, ThreadSound, Returns
<1>2. At(t, "take") /\ pc'[t] = "ungate" /\ snap' = snap
  BY <1>1 DEF Uncount, Goto, Set, At, argVars
<1>3. UNCHANGED <<ready, readyCarry>> /\ readyCount' = readyCount - n
  BY DEF Uncount, Taken
<1>4. DOMAIN snap[t] = 1 .. n
  BY <1>1
<1>5. Links' = Links
  BY <1>2, LinksStay DEF At
<1>6. Takes' = Takes \ row
  <2>1. ASSUME NEW x \in Threads \X (1 .. MaxFlush)
        PROVE  (At(x[1], "take") /\ x[2] \in DOMAIN snap[x[1]])'
                 <=> x \notin row /\ At(x[1], "take") /\ x[2] \in DOMAIN snap[x[1]]
    <3>1. x = <<x[1], x[2]>> /\ x[1] \in Threads /\ x[2] \in 1 .. MaxFlush
      OBVIOUS
    <3>2. CASE x[1] = t
      <4>1. x \in row <=> x[2] \in 1 .. n
        BY <3>1, <3>2
      <4>2. ~At(t, "take")'
        BY <1>2 DEF At
      <4>3. QED
        BY <1>4, <3>2, <4>1, <4>2
    <3>3. CASE x[1] # t
      <4>1. x \notin row
        BY <3>1, <3>3
      <4>2. QED
        BY <3>1, <3>3, <4>1, OthersCounted
    <3>4. QED
      BY <3>2, <3>3
  <2>2. QED
    BY <2>1 DEF Takes
<1>7. row \subseteq Takes
  <2>1. ASSUME NEW x \in row
        PROVE  x \in Takes
    <3>1. x = <<t, x[2]>> /\ x[2] \in 1 .. n /\ x[1] = t
      OBVIOUS
    <3>2. x[2] \in 1 .. MaxFlush
      BY <1>1, <3>1, FlushAssumption
    <3>3. QED
      BY <1>2, <1>4, <3>1, <3>2 DEF Takes
  <2>2. QED
    BY <2>1
<1>8. IsFiniteSet(row) /\ Cardinality(row) = n
  <2> HIDE DEF n
  <2>1. QED
    BY <1>1, RowCounted
<1>9. Cardinality(Takes') = Cardinality(Takes) - n
  <2>1. Takes \subseteq Threads \X (1 .. MaxFlush)
    BY DEF Takes
  <2>2. IsFiniteSet(Takes) /\ Cardinality(Takes) \in Nat
    BY <2>1, PairsFinite
  <2>3. Cardinality(Takes \ row) = Cardinality(Takes) - Cardinality(Takes \cap row)
    BY <2>2, FS_Difference
  <2>4. Takes \cap row = row
    BY <1>7
  <2>5. QED
    BY <1>6, <1>8, <2>3, <2>4
<1>10. n \in Nat /\ readyCount' = readyCount - n
  BY <1>1, <1>3
<1>11. Len(ready') = Len(ready) /\ Len(readyCarry') = Len(readyCarry)
  BY <1>3
<1>12. QED
  <2> HIDE DEF n
  <2>1. QED
    BY <1>5, <1>9, <1>10, <1>11, LengthsTyped, CountedIs, CountedNext

(* Every step of a thread keeps the count right.                           *)
LEMMA StepCounted ==
    ASSUME Inv, NEW t \in Threads, ThreadNext(t), ReadyCounted
    PROVE  ReadyCounted'
<1>1. Others(t)
  BY StepMoves DEF Moves
<1>2. CASE CountReady(t)
  BY <1>1, <1>2, CountCounted
<1>3. CASE LinkReady(t)
  BY <1>1, <1>3, LinkCounted
<1>4. CASE Flush(t)
  BY <1>1, <1>4, FlushCounted
<1>5. CASE Detach(t)
  BY <1>1, <1>5, DetachCounted
<1>6. CASE TakeOne(t)
  BY <1>1, <1>6, TakeCounted
<1>7. CASE Uncount(t)
  BY <1>1, <1>7, UncountCounted
<1>8. CASE /\ ~CountReady(t) /\ ~LinkReady(t) /\ ~Flush(t)
           /\ ~Detach(t) /\ ~TakeOne(t) /\ ~Uncount(t)
  <2>1. Quiet(t)
    BY <1>8, CallersQuiet, RunnersQuiet DEF ThreadNext
  <2>2. QED
    BY <1>1, <2>1, QuietCounted
<1>9. QED
  BY <1>2, <1>3, <1>4, <1>5, <1>6, <1>7, <1>8

(* The count is right initially.                                           *)
LEMMA InitCounted == Init => ReadyCounted
<1> SUFFICES ASSUME Init PROVE ReadyCounted
  OBVIOUS
<1>1. ready = <<>> /\ readyCarry = <<>> /\ readyCount = 0 /\ pc = [t \in Threads |-> "idle"]
  BY DEF Init, QueueInit, ThreadInit
<1>2. Takes = {} /\ Links = {}
  <2>1. \A t \in Threads : ~At(t, "take") /\ ~At(t, "link")
    BY <1>1 DEF At
  <2>2. QED
    BY <2>1 DEF Takes, Links
<1>3. Cardinality({}) = 0
  BY FS_EmptySet
<1>4. QED
  BY <1>1, <1>2, <1>3, CountedIs

(* A stuttering step keeps the count right.                                *)
LEMMA StutterCounted == ASSUME UNCHANGED vars, ReadyCounted PROVE ReadyCounted'
<1>1. UNCHANGED <<ready, readyCarry, readyCount, pc, snap>>
  BY DEF vars, queueVars, threadVars
<1>2. Takes' = Takes /\ Links' = Links
  BY <1>1 DEF Takes, Links, At
<1>3. QED
  BY <1>1, <1>2, CountedIs, CountedNext

(* readyCount counts what flush may take, and the pushes that have counted *)
(* and not linked yet (pushReady, takeReady): when it is zero and nothing  *)
(* is being pushed, the ready queue is empty.                              *)
THEOREM ReadyIsCounted == Spec => []ReadyCounted
<1>1. Init => ReadyCounted
  BY InitCounted
<1>2. Inv /\ ReadyCounted /\ [Next]_vars => ReadyCounted'
  BY StepCounted, StutterCounted DEF Next
<1>3. QED
  BY <1>1, <1>2, LifecycleInductive, PTL DEF Spec

-----------------------------------------------------------------------------
(* The nodes.                                                              *)

(* The inboxes, what is left of them and the nodes stay as they are, and   *)
(* so does what the thread has at hand, if it does not drop it.            *)
Still(t) ==
    /\ UNCHANGED <<inbox, carry, nodeState>>
    /\ local'[t] \in {local[t], <<>>}
    /\ pc[t] \notin {"push", "process", "callback"}
    /\ pc'[t] \notin {"push", "process", "callback"}

(* The other steps of a caller leave nodes and inboxes alone.              *)
LEMMA CallersStill ==
    ASSUME Inv, NEW t \in Threads, CallerNext(t), ~Build(t), ~ClaimNode(t), ~PushInbox(t)
    PROVE  Still(t)
<1>1. DOMAIN pc = Threads /\ DOMAIN local = Threads /\ Returns(t)
  BY DEF Inv, Types, ThreadTypes, LocalTypes, ThreadSound
<1>2. CASE ReserveSlot(t)
  <2>1. pc[t] = "idle" /\ UNCHANGED <<inbox, carry, nodeState, local>>
    BY <1>2 DEF ReserveSlot, Starts, slotVars, argVars, threadVars
  <2>2. pc' = Set(pc, t, "construct")
    BY <1>2 DEF ReserveSlot, Open, Goto
  <2>3. QED
    BY <1>1, <2>1, <2>2 DEF Still, At, Set
<1>3. CASE Construct(t)
  BY <1>1, <1>3 DEF Construct, Goto, Set, At, argVars, Still
<1>4. CASE ConstructFails(t)
  BY <1>1, <1>4 DEF ConstructFails, Set, Return, At, Goto, Forget, Still
<1>5. CASE OpenActor(t)
  BY <1>1, <1>5 DEF OpenActor, Set, Return, At, Goto, Forget, Still
<1>6. CASE Send(t)
  <2>1. pc[t] = "idle" /\ UNCHANGED <<inbox, carry, nodeState, local>>
    BY <1>6 DEF Send, Starts, slotVars, argVars, threadVars
  <2>2. pc' = Set(pc, t, "reserve")
    BY <1>6 DEF Send, Open, Goto
  <2>3. QED
    BY <1>1, <2>1, <2>2 DEF Still, At, Set
<1>7. CASE ReserveSubmission(t)
  BY <1>1, <1>7 DEF ReserveSubmission, Goto, Return, At, argVars, Set, Forget, Still
<1>8. CASE ConfirmSubmission(t)
  BY <1>1, <1>8 DEF ConfirmSubmission, Goto, At, slotVars, argVars, Set, Still
<1>9. CASE SendMeetsWave(t)
  BY <1>1, <1>9 DEF SendMeetsWave, Goto, At, slotVars, argVars, Set, Still
<1>10. CASE Signal(t)
  BY <1>1, <1>10 DEF Signal, Set, Resume, PushReady, At, argVars, Goto, Return, Forget, Still,
    Returns, Pushing
<1>11. CASE ReleaseSubmission(t)
  BY <1>1, <1>11 DEF ReleaseSubmission, Return, At, Goto, Set, Forget, Still
<1>12. CASE Wake(t)
  <2>1. pc[t] = "idle" /\ UNCHANGED <<inbox, carry, nodeState, local>>
    BY <1>12 DEF Wake, Starts, slotVars, argVars, threadVars
  <2>2. pc' = Set(pc, t, "wakeWave")
    BY <1>12 DEF Wake, Open, Goto
  <2>3. QED
    BY <1>1, <2>1, <2>2 DEF Still, At, Set
<1>13. CASE WakeMeetsWave(t)
  BY <1>1, <1>13 DEF WakeMeetsWave, Goto, Return, At, slotVars, argVars, Set, Forget, Still
<1>14. CASE Retire(t)
  <2>1. pc[t] = "idle" /\ UNCHANGED <<inbox, carry, nodeState, local>>
    BY <1>14 DEF Retire, Starts, slotVars, argVars, threadVars
  <2>2. pc' = Set(pc, t, "retireWave")
    BY <1>14 DEF Retire, Open, Goto
  <2>3. QED
    BY <1>1, <2>1, <2>2 DEF Still, At, Set
<1>15. CASE RetireMeetsWave(t)
  BY <1>1, <1>15 DEF RetireMeetsWave, Goto, Return, At, slotVars, argVars, Set, Forget, Still
<1>16. CASE PinRetire(t)
  BY <1>1, <1>16 DEF PinRetire, Goto, Set, Return, Forget, At, argVars, Still
<1>17. CASE CloseGate(t)
  BY <1>1, <1>17 DEF CloseGate, Resume, At, Goto, Return, argVars, Set, Forget, Still, Returns,
    Pushing
<1>18. CASE Drive(t)
  BY <1>1, <1>18 DEF Drive, DriveOn, At, slotVars, Goto, Set, Forget, argVars, Still
<1>19. CASE DriveGate(t)
  BY <1>1, <1>19 DEF DriveGate, Goto, At, slotVars, argVars, Set, Still
<1>20. CASE DriveJoin(t)
  BY <1>1, <1>20 DEF DriveJoin, Goto, DriveOn, At, slotVars, argVars, Set, Forget, Still
<1>21. CASE PublishRetired(t)
  BY <1>1, <1>21 DEF PublishRetired, Set, Return, At, Goto, Forget, Still
<1>22. CASE DriveQueue(t)
  BY <1>1, <1>22 DEF DriveQueue, Set, Forget, PushReady, DriveOn, At, Goto, argVars, Still
<1>23. CASE Unpin(t)
  BY <1>1, <1>23 DEF Unpin, Return, At, Goto, Set, Forget, Still
<1>24. CASE Reclaim(t)
  <2>1. pc[t] = "idle" /\ UNCHANGED <<inbox, carry, nodeState, local>>
    BY <1>24 DEF Reclaim, Starts, slotVars, argVars, threadVars
  <2>2. pc' = Set(pc, t, "reclaimWave")
    BY <1>24 DEF Reclaim, Open, Goto
  <2>3. QED
    BY <1>1, <2>1, <2>2 DEF Still, At, Set
<1>25. CASE ReclaimMeetsWave(t)
  BY <1>1, <1>25 DEF ReclaimMeetsWave, Goto, Return, At, slotVars, argVars, Set, Forget, Still
<1>26. CASE ClaimReclaim(t)
  BY <1>1, <1>26 DEF ClaimReclaim, Goto, Set, Return, Forget, At, Still
<1>27. CASE Destroy(t)
  BY <1>1, <1>27 DEF Destroy, Goto, Set, At, argVars, Still
<1>28. CASE ReturnFreeSlot(t)
  BY <1>1, <1>28 DEF ReturnFreeSlot, Set, Return, At, Goto, Forget, Still
<1>29. QED
  BY <1>2, <1>3, <1>4, <1>5, <1>6, <1>7, <1>8, <1>9, <1>10, <1>11, <1>12, <1>13, <1>14, <1>15,
    <1>16, <1>17, <1>18, <1>19, <1>20, <1>21, <1>22, <1>23, <1>24, <1>25, <1>26, <1>27, <1>28 DEF
    CallerNext

(* The other steps of a runner leave nodes and inboxes alone.              *)
LEMMA RunnersStill ==
    ASSUME Inv, NEW t \in Threads, RunnerNext(t), ~Run(t), ~Pop(t), ~CompleteNode(t),
           ~EndCallback(t)
    PROVE  Still(t)
<1>1. DOMAIN pc = Threads /\ DOMAIN local = Threads /\ Returns(t)
  BY DEF Inv, Types, ThreadTypes, LocalTypes, ThreadSound
<1>2. CASE CountReady(t)
  BY <1>1, <1>2 DEF CountReady, Goto, At, slotVars, argVars, Set, Still
<1>3. CASE LinkReady(t)
  BY <1>1, <1>3 DEF LinkReady, Resume, At, slotVars, Goto, Return, argVars, Set, Forget, Still,
    Returns, Pushing
<1>4. CASE Flush(t)
  BY <1>1, <1>4 DEF Flush, Goto, Starts, slotVars, argVars, Set, Still
<1>5. CASE Detach(t)
  BY <1>1, <1>5 DEF Detach, At, slotVars, threadVars, Still
<1>6. CASE TakeOne(t)
  BY <1>1, <1>6 DEF TakeOne, Set, At, slotVars, Still
<1>7. CASE Uncount(t)
  BY <1>1, <1>7 DEF Uncount, Goto, At, slotVars, argVars, Set, Still
<1>8. CASE Ungate(t)
  BY <1>1, <1>8 DEF Ungate, Goto, At, slotVars, argVars, Set, Still
<1>9. CASE WriteBodies(t)
  BY <1>1, <1>9 DEF WriteBodies, Goto, Set, At, slotVars, Still
<1>10. CASE PushBack(t)
  BY <1>1, <1>10 DEF PushBack, Set, Return, PushReady, At, slotVars, Goto, Forget, Still
<1>11. CASE Enter(t)
  <2>1. pc[t] = "idle" /\ UNCHANGED <<inbox, carry, nodeState>>
    BY <1>11 DEF Enter, Starts, slotVars
  <2>2. \E l \in {"entryGate", "run", "idle"} : pc' = Set(pc, t, l)
    BY <1>11 DEF Enter, EnterOn, Stale, Return, Goto
  <2>3. local' = local \/ local' = Set(local, t, <<>>)
    BY <1>11 DEF Enter, EnterOn, Stale, Return, Forget, argVars
  <2>4. QED
    BY <1>1, <2>1, <2>2, <2>3 DEF Still, At, Set
<1>12. CASE EntryGate(t)
  BY <1>1, <1>12 DEF EntryGate, Goto, Set, At, slotVars, argVars, Still
<1>13. CASE EntryInbox(t)
  BY <1>1, <1>13 DEF EntryInbox, Goto, At, slotVars, argVars, Set, Still
<1>14. CASE RetireNow(t)
  BY <1>1, <1>14 DEF RetireNow, Return, At, EntryCas, Goto, Set, Forget, EnterOn, Stale, argVars,
    Still
<1>15. CASE Requeue(t)
  BY <1>1, <1>15 DEF Requeue, Forget, PushReady, At, EntryCas, Set, Goto, EnterOn, Stale, argVars,
    Return, Still
<1>16. CASE MarkRetiring(t)
  BY <1>1, <1>16 DEF MarkRetiring, Goto, Set, At, argVars, Still
<1>17. CASE Exit(t)
  BY <1>1, <1>17 DEF Exit, At, ExitOn, slotVars, Goto, Set, Stale, argVars, Return, Forget, Still
<1>18. CASE ExitGate(t)
  BY <1>1, <1>18 DEF ExitGate, Goto, Set, At, slotVars, argVars, Still
<1>19. CASE ExitInbox(t)
  BY <1>1, <1>19 DEF ExitInbox, Goto, Set, At, slotVars, Still
<1>20. CASE Leave(t)
  BY <1>1, <1>20 DEF Leave, Set, Return, Forget, PushReady, At, ExitOn, NextPhase, Goto, Stale,
    argVars, Still
<1>21. CASE ReserveWave(t)
  <2>1. pc[t] = "idle" /\ UNCHANGED <<inbox, carry, nodeState, local>>
    BY <1>21 DEF ReserveWave, Starts, slotVars, argVars, threadVars
  <2>2. pc' = Set(pc, t, "waveCheck")
    BY <1>21 DEF ReserveWave, Open, Goto
  <2>3. QED
    BY <1>1, <2>1, <2>2 DEF Still, At, Set
<1>22. CASE JoinWave(t)
  BY <1>1, <1>22 DEF JoinWave, Goto, Set, At, argVars, Still
<1>23. CASE CancelMember(t)
  BY <1>1, <1>23 DEF CancelMember, Goto, Set, At, argVars, Still
<1>24. CASE RunMember(t)
  BY <1>1, <1>24 DEF RunMember, Goto, At, slotVars, argVars, Set, Still
<1>25. CASE EndWaveWork(t)
  BY <1>1, <1>25 DEF EndWaveWork, Goto, Set, Return, PushReady, At, argVars, Forget, Still
<1>26. CASE LeaveWave(t)
  BY <1>1, <1>26 DEF LeaveWave, Set, Return, At, Goto, Forget, Still
<1>27. QED
  BY <1>2, <1>3, <1>4, <1>5, <1>6, <1>7, <1>8, <1>9, <1>10, <1>11, <1>12, <1>13, <1>14, <1>15,
    <1>16, <1>17, <1>18, <1>19, <1>20, <1>21, <1>22, <1>23, <1>24, <1>25, <1>26 DEF RunnerNext

(* Where a node is: pushed to slot s or left there, about to be pushed or  *)
(* at hand in the callback of t, or being processed there.                 *)
Stored(s, n) == n \in Range(inbox[s]) \/ n \in Range(carry[s])
Held(t, n) == n \in Range(local[t]) \/ (At(t, "push") /\ node[t] = n)
Processed(t, n) == At(t, "process") /\ node[t] = n

(* A queued node is in at most one place, and one processed in none.       *)
NodeSound(n) ==
    /\ \A s \in Slots : Stored(s, n) => nodeState[n] = "queued"
    /\ \A t \in Threads : Held(t, n) => nodeState[n] = "queued"
    /\ \A t \in Threads : Processed(t, n) => nodeState[n] = "processing"
    /\ \A s, r \in Slots : Stored(s, n) /\ Stored(r, n) => s = r
    /\ \A s \in Slots : ~(n \in Range(inbox[s]) /\ n \in Range(carry[s]))
    /\ \A s \in Slots, t \in Threads : ~(Stored(s, n) /\ Held(t, n))
    /\ \A t, u \in Threads : Held(t, n) /\ Held(u, n) => t = u
    /\ \A t \in Threads : ~(n \in Range(local[t]) /\ At(t, "push") /\ node[t] = n)
    /\ \A t, u \in Threads : Processed(t, n) /\ Processed(u, n) => t = u

NodesOnce ==
    /\ \A s \in Slots : IsInjective(inbox[s]) /\ IsInjective(carry[s])
    /\ \A t \in Threads : IsInjective(local[t])

NodesInv == (\A n \in Nodes : NodeSound(n)) /\ NodesOnce

(* Another thread holds and processes what it did.                         *)
LEMMA OthersHold ==
    ASSUME NEW t \in Threads, Others(t), NEW u \in Threads \ {t}, NEW n
    PROVE  /\ Held(u, n)' <=> Held(u, n)
           /\ Processed(u, n)' <=> Processed(u, n)
           /\ (n \in Range(local[u]) /\ At(u, "push") /\ node[u] = n)'
                 <=> n \in Range(local[u]) /\ At(u, "push") /\ node[u] = n
  BY DEF Others, Held, Processed, At, Range

(* The node is where it was, nowhere, or moved between the thread and its  *)
(* slot, and is in one place after.                                        *)
Passes(t, n) ==
    /\ nodeState'[n] = nodeState[n]
    /\ \A s \in Slots \ {slot(t)} :
          /\ n \in Range(inbox'[s]) => n \in Range(inbox[s])
          /\ n \in Range(carry'[s]) => n \in Range(carry[s])
    /\ n \in Range(inbox'[slot(t)]) \/ n \in Range(carry'[slot(t)]) \/ Held(t, n)'
          => Stored(slot(t), n) \/ Held(t, n)
    /\ ~(n \in Range(inbox'[slot(t)]) /\ n \in Range(carry'[slot(t)]))
    /\ ~((n \in Range(inbox'[slot(t)]) \/ n \in Range(carry'[slot(t)])) /\ Held(t, n)')
    /\ ~(n \in Range(local[t]) /\ At(t, "push") /\ node[t] = n)'
    /\ Processed(t, n)' => Processed(t, n)

(* A node that its step passes on soundly stays sound.                     *)
LEMMA NodePasses ==
    ASSUME NEW t \in Threads, slot(t) \in Slots, Others(t), NEW n \in Nodes, NodeSound(n),
           Passes(t, n)
    PROVE  NodeSound(n)'
<1>0. PICK r \in Slots : r = slot(t)
  OBVIOUS
<1>1. \A s \in Slots \ {r} : Stored(s, n)' => Stored(s, n)
  BY <1>0 DEF Passes, Stored
<1>2. Stored(r, n)' \/ Held(t, n)' => Stored(r, n) \/ Held(t, n)
  BY <1>0 DEF Passes, Stored
<1>3. ~(Stored(r, n)' /\ Held(t, n)')
  BY <1>0 DEF Passes, Stored
<1>4. \A u \in Threads \ {t} : Held(u, n)' <=> Held(u, n)
  BY OthersHold
<1>5. \A s \in Slots : Stored(s, n)' => nodeState'[n] = "queued"
  BY <1>1, <1>2 DEF Passes, NodeSound
<1>6. \A u \in Threads : Held(u, n)' => nodeState'[n] = "queued"
  BY <1>2, <1>4 DEF Passes, NodeSound
<1>7. \A u \in Threads : Processed(u, n)' => Processed(u, n)
  BY OthersHold DEF Passes
<1>8. /\ \A s, q \in Slots : Stored(s, n)' /\ Stored(q, n)' => s = q
      /\ \A s \in Slots, u \in Threads : ~(Stored(s, n)' /\ Held(u, n)')
      /\ \A u, v \in Threads : Held(u, n)' /\ Held(v, n)' => u = v
  <2>1. /\ \A s, q \in Slots : Stored(s, n) /\ Stored(q, n) => s = q
        /\ \A s \in Slots, u \in Threads : ~(Stored(s, n) /\ Held(u, n))
        /\ \A u, v \in Threads : Held(u, n) /\ Held(v, n) => u = v
    BY DEF NodeSound
  <2>2. QED
    BY <1>1, <1>2, <1>3, <1>4, <2>1
<1>9. \A s \in Slots : ~(n \in Range(inbox'[s]) /\ n \in Range(carry'[s]))
  BY <1>0 DEF Passes, NodeSound
<1>10. \A u \in Threads : ~(n \in Range(local[u]) /\ At(u, "push") /\ node[u] = n)'
  BY OthersHold DEF Passes, NodeSound
<1>11. \A u, v \in Threads : Processed(u, n)' /\ Processed(v, n)' => u = v
  BY <1>7 DEF NodeSound
<1>12. \A u \in Threads : Processed(u, n)' => nodeState'[n] = "processing"
  BY <1>7 DEF NodeSound, Passes
<1>13. QED
  BY <1>5, <1>6, <1>8, <1>9, <1>10, <1>11, <1>12 DEF NodeSound

(* What others hold stays in order.                                        *)
LEMMA OthersOnce ==
    ASSUME NEW t \in Threads, Others(t), NodesOnce,
           \A s \in Slots : IsInjective(inbox'[s]) /\ IsInjective(carry'[s]),
           IsInjective(local'[t])
    PROVE  NodesOnce'
<1>1. ASSUME NEW u \in Threads PROVE IsInjective(local'[u])
  BY DEF NodesOnce, Others
<1>2. QED
  BY <1>1 DEF NodesOnce

(* The empty sequence has an empty range.                                  *)
LEMMA EmptyRange == Range(<<>>) = {} /\ IsInjective(<<>>)
  BY DEF Range, IsInjective

(* A step that leaves nodes and inboxes alone keeps their invariant.       *)
LEMMA StillNodes ==
    ASSUME Inv, NEW t \in Threads, Others(t), NodesInv, Still(t)
    PROVE  NodesInv'
<1>1. slot(t) \in Slots
  BY GroundsHold DEF Grounds
<1>2. UNCHANGED <<inbox, carry, nodeState>> /\ local'[t] \in {local[t], <<>>}
  BY DEF Still
<1>3. ~At(t, "push")' /\ ~At(t, "process")'
  BY DEF Still, At
<1>4. ASSUME NEW n \in Nodes PROVE NodeSound(n)'
  <2>1. NodeSound(n)
    BY DEF NodesInv
  <2>2. n \in Range(local'[t]) => n \in Range(local[t])
    BY <1>2, EmptyRange
  <2>3. Held(t, n)' => Held(t, n)
    BY <1>3, <2>2 DEF Held
  <2>4. Passes(t, n)
    BY <1>1, <1>2, <1>3, <2>1, <2>3 DEF Passes, NodeSound, Stored, Processed
  <2>5. QED
    BY <1>1, <2>1, <2>4, NodePasses
<1>5. NodesOnce'
  BY <1>2, EmptyRange, OthersOnce DEF NodesInv, NodesOnce
<1>6. QED
  BY <1>4, <1>5 DEF NodesInv

(* The types that the lemmas on nodes need.                                *)
LEMMA LocalsTyped ==
    ASSUME Inv, NEW t \in Threads
    PROVE  /\ DOMAIN pc = Threads /\ DOMAIN local = Threads /\ DOMAIN node = Threads
           /\ DOMAIN inbox = Slots /\ DOMAIN carry = Slots /\ DOMAIN nodeState = Nodes
           /\ slot(t) \in Slots /\ local[t] \in Seq(Nodes) /\ Returns(t)
           /\ \A s \in Slots : inbox[s] \in Seq(Nodes) /\ carry[s] \in Seq(Nodes)
<1>1. /\ local \in [Threads -> Seq(Nodes)] /\ inbox \in [Slots -> Seq(Nodes)]
      /\ carry \in [Slots -> Seq(Nodes)] /\ Returns(t) /\ DOMAIN pc = Threads
  BY DEF Inv, Types, ThreadTypes, LocalTypes, SlotTypes, ThreadSound
<1>2. DOMAIN node = Threads /\ DOMAIN nodeState = Nodes
  BY DEF Inv, Types, ThreadTypes, LocalTypes, SlotTypes
<1>3. slot(t) \in Slots
  BY GroundsHold DEF Grounds
<1>4. QED
  BY <1>1, <1>2, <1>3

(* A node that is neither queued nor being processed is nowhere.           *)
LEMMA NodeAway ==
    ASSUME NEW n \in Nodes, NodeSound(n), nodeState[n] # "queued", NEW t \in Threads,
           NEW s \in Slots
    PROVE  ~Stored(s, n) /\ ~Held(t, n)
  BY DEF NodeSound

(* A claimed node is the sender's alone.                                   *)
LEMMA ClaimNodes ==
    ASSUME Inv, NEW t \in Threads, Others(t), NodesInv, ClaimNode(t)
    PROVE  NodesInv'
<1> DEFINE m == node[t]
<1>1. DOMAIN pc = Threads /\ DOMAIN nodeState = Nodes /\ slot(t) \in Slots /\ Returns(t)
  BY LocalsTyped
<1>2. /\ At(t, "claimNode") /\ m \in Nodes
      /\ UNCHANGED <<inbox, carry, node, local>>
  BY <1>1 DEF ClaimNode, argVars, Returns, At
<1>3. CASE nodeState[m] # "free"
  <2>1. Still(t)
    BY <1>1, <1>2, <1>3 DEF ClaimNode, Still, At, Goto, Set
  <2>2. QED
    BY <2>1, StillNodes
<1>4. CASE nodeState[m] = "free"
  <2>1. nodeState' = Set(nodeState, m, "queued") /\ pc'[t] = "push"
    BY <1>1, <1>4 DEF ClaimNode, Goto, Set
  <2>2. ASSUME NEW n \in Nodes \ {m} PROVE NodeSound(n)'
    <3>1. NodeSound(n) /\ nodeState'[n] = nodeState[n]
      BY <1>1, <2>1 DEF NodesInv, Set
    <3>2. ~At(t, "process")' /\ (Held(t, n)' => Held(t, n)) /\ node'[t] # n
      BY <1>2, <2>1 DEF Held, At
    <3>3. Passes(t, n)
      BY <1>1, <1>2, <3>1, <3>2 DEF Passes, NodeSound, Processed, Stored, At
    <3>4. QED
      BY <1>1, <3>1, <3>3, NodePasses
  <2>3. NodeSound(m)'
    <3>1. NodeSound(m) /\ nodeState'[m] = "queued"
      BY <1>1, <1>2, <2>1 DEF NodesInv, Set
    <3>2. PICK n \in Nodes : n = m
      BY <1>2
    <3>3. \A s \in Slots : ~Stored(s, n)
      BY <1>4, <3>1, <3>2, NodeAway
    <3>4. \A u \in Threads : ~Held(u, n)
      BY <1>1, <1>4, <3>1, <3>2, NodeAway
    <3>5. \A s \in Slots : ~Stored(s, n)'
      BY <1>2, <3>3 DEF Stored
    <3>6. \A u \in Threads \ {t} : ~Held(u, n)'
      BY <3>4, OthersHold
    <3>7. \A u \in Threads : ~Processed(u, n)
      BY <1>4, <3>1, <3>2 DEF NodeSound
    <3>8. \A u \in Threads : ~Processed(u, n)'
      BY <2>1, <3>7, OthersHold DEF Processed, At
    <3>9. n \notin Range(local'[t])
      BY <1>2, <3>4 DEF Held
    <3>10. \A u \in Threads : ~(n \in Range(local[u]) /\ At(u, "push") /\ node[u] = n)'
      BY <3>6, <3>9 DEF Held
    <3>11. \A s \in Slots : ~(n \in Range(inbox'[s]) /\ n \in Range(carry'[s]))
      BY <3>5 DEF Stored
    <3>12. NodeSound(n)'
      BY <3>1, <3>2, <3>5, <3>6, <3>8, <3>10, <3>11 DEF NodeSound
    <3>13. m' = m
      BY <1>2
    <3>14. QED
      BY <3>2, <3>12, <3>13
  <2>4. NodesOnce'
    BY <1>2, OthersOnce DEF NodesInv, NodesOnce
  <2>5. ASSUME NEW n \in Nodes PROVE NodeSound(n)'
    <3>1. m' = m
      BY <1>2
    <3>2. QED
      BY <2>2, <2>3, <3>1
  <2>6. QED
    BY <2>4, <2>5 DEF NodesInv
<1>5. QED
  BY <1>3, <1>4

(* A push moves the node from the sender's hands to the inbox.             *)
LEMMA PushNodes ==
    ASSUME Inv, NEW t \in Threads, Others(t), NodesInv, PushInbox(t)
    PROVE  NodesInv'
<1>0. PICK r \in Slots, m \in Nodes : r = slot(t) /\ m = node[t]
  BY LocalsTyped DEF PushInbox, Returns, At
<1>1. /\ At(t, "push") /\ inbox' = [inbox EXCEPT ![r] = <<m>> \o @]
      /\ pc'[t] = "signal" /\ local'[t] = <<>> /\ UNCHANGED <<carry, nodeState>>
  BY <1>0, LocalsTyped DEF PushInbox, Goto, Forget, Set
<1>2. inbox'[r] = <<m>> \o inbox[r] /\ \A s \in Slots \ {r} : inbox'[s] = inbox[s]
  BY <1>1, LocalsTyped
<1>3. Held(t, m) /\ NodeSound(m) /\ inbox[r] \in Seq(Nodes)
  BY <1>0, <1>1, LocalsTyped DEF NodesInv, Held
<1>4. ~Stored(r, m) /\ m \notin Range(inbox[r])
  BY <1>3 DEF NodeSound, Stored
<1>5. Range(inbox'[r]) = {m} \cup Range(inbox[r]) /\ IsInjective(inbox'[r])
  BY <1>2, <1>3, <1>4, ConsRange DEF NodesInv, NodesOnce
<1>6. ASSUME NEW n \in Nodes PROVE NodeSound(n)'
  <2>1. NodeSound(n)
    BY DEF NodesInv
  <2>2. ~Held(t, n)' /\ ~Processed(t, n)' /\ ~At(t, "push")'
    BY <1>1, EmptyRange DEF Held, Processed, At
  <2>3. n \in Range(inbox'[r]) => Stored(r, n) \/ Held(t, n)
    BY <1>3, <1>5 DEF Stored
  <2>4. ~(n \in Range(inbox'[r]) /\ n \in Range(carry'[r]))
    BY <1>1, <1>4, <1>5, <2>1 DEF NodeSound, Stored
  <2>5. Passes(t, n)
    BY <1>0, <1>1, <1>2, <2>2, <2>3, <2>4 DEF Passes, Stored
  <2>6. QED
    BY <1>0, <2>1, <2>5, NodePasses
<1>7. NodesOnce'
  BY <1>1, <1>2, <1>5, EmptyRange, OthersOnce DEF NodesInv, NodesOnce
<1>8. QED
  BY <1>6, <1>7 DEF NodesInv

(* createActor's reset of an inbox loses no node, it was empty.            *)
LEMMA BuildNodes ==
    ASSUME Inv, NEW t \in Threads, Others(t), NodesInv, Build(t)
    PROVE  NodesInv'
<1>0. PICK r \in Slots : r = slot(t)
  BY LocalsTyped
<1>1. /\ inbox' = Set(inbox, r, <<>>) /\ carry' = Set(carry, r, <<>>)
      /\ pc'[t] = "open" /\ UNCHANGED <<local, nodeState>>
  BY <1>0, LocalsTyped DEF Build, Goto, Set, argVars
<1>2. /\ inbox'[r] = <<>> /\ carry'[r] = <<>>
      /\ \A s \in Slots \ {r} : inbox'[s] = inbox[s] /\ carry'[s] = carry[s]
  BY <1>1, LocalsTyped DEF Set
<1>3. ASSUME NEW n \in Nodes PROVE NodeSound(n)'
  <2>1. NodeSound(n)
    BY DEF NodesInv
  <2>2. ~At(t, "push")' /\ ~At(t, "process")' /\ (Held(t, n)' => Held(t, n))
    BY <1>1 DEF Held, At
  <2>3. Passes(t, n)
    BY <1>0, <1>1, <1>2, <2>2, EmptyRange DEF Passes, Processed
  <2>4. QED
    BY <1>0, <2>1, <2>3, NodePasses
<1>4. NodesOnce'
  BY <1>1, <1>2, EmptyRange, OthersOnce DEF NodesInv, NodesOnce
<1>5. QED
  BY <1>3, <1>4 DEF NodesInv

(* run detaches the inbox into its own hands, in order of arrival.         *)
LEMMA RunNodes ==
    ASSUME Inv, NEW t \in Threads, Others(t), NodesInv, Run(t)
    PROVE  NodesInv'
<1>0. PICK r \in Slots : r = slot(t)
  BY LocalsTyped
<1>1. CASE life[r] # seen[t]
  <2>1. UNCHANGED <<inbox, carry, nodeState>> /\ pc[t] = "run"
    BY <1>0, <1>1 DEF Run, EntryCas, At
  <2>2. EnterOn(t, slot(t), gen(t), life[slot(t)])
    BY <1>0, <1>1 DEF Run, EntryCas
  <2>3. /\ \E l \in {"entryGate", "run", "idle"} : pc' = Set(pc, t, l)
        /\ local' = local \/ local' = Set(local, t, <<>>)
    BY <2>2 DEF EnterOn, Stale, Return, Forget, Goto, argVars
  <2>4. Still(t)
    BY <2>1, <2>3, LocalsTyped DEF Still, Set
  <2>5. QED
    BY <2>4, StillNodes
<1>2. CASE life[r] = seen[t]
  <2>1. /\ local' = Set(local, t, carry[r]) /\ carry' = Set(carry, r, <<>>)
        /\ pc'[t] = "callback" /\ UNCHANGED <<inbox, nodeState>>
    BY <1>0, <1>2, LocalsTyped DEF Run, EntryCas, Goto, Set
  <2>2. /\ local'[t] = carry[r] /\ carry'[r] = <<>>
        /\ \A s \in Slots \ {r} : carry'[s] = carry[s]
    BY <2>1, LocalsTyped DEF Set
  <2>3. ASSUME NEW n \in Nodes PROVE NodeSound(n)'
    <3>1. NodeSound(n)
      BY DEF NodesInv
    <3>2. ~At(t, "push")' /\ ~At(t, "process")' /\ (Held(t, n)' <=> n \in Range(carry[r]))
      BY <2>1, <2>2 DEF Held, At
    <3>3. ~(n \in Range(inbox[r]) /\ n \in Range(carry[r]))
      BY <3>1 DEF NodeSound
    <3>4. Passes(t, n)
      BY <1>0, <2>1, <2>2, <3>2, <3>3, EmptyRange DEF Passes, Processed, Stored
    <3>5. QED
      BY <1>0, <3>1, <3>4, NodePasses
  <2>4. NodesOnce'
    BY <2>1, <2>2, EmptyRange, OthersOnce DEF NodesInv, NodesOnce
  <2>5. QED
    BY <2>3, <2>4 DEF NodesInv
<1>3. QED
  BY <1>1, <1>2

(* The end of a callback goes on to the next message.                      *)
LEMMA EndNodes ==
    ASSUME Inv, NEW t \in Threads, Others(t), NodesInv, EndCallback(t)
    PROVE  NodesInv'
<1>0. PICK r \in Slots : r = slot(t)
  BY LocalsTyped
<1>1. /\ local' = Set(local, t, <<>>) /\ carry' = Set(carry, r, local[t])
      /\ UNCHANGED <<inbox, nodeState>>
  BY <1>0 DEF EndCallback
<1>2. pc'[t] \in {"mark", "exit"}
  BY LocalsTyped DEF EndCallback, Goto, Set
<1>3. /\ local'[t] = <<>> /\ carry'[r] = local[t]
      /\ \A s \in Slots \ {r} : carry'[s] = carry[s]
  BY <1>1, LocalsTyped DEF Set
<1>4. ASSUME NEW n \in Nodes PROVE NodeSound(n)'
  <2>1. NodeSound(n)
    BY DEF NodesInv
  <2>2. ~At(t, "push")' /\ ~At(t, "process")' /\ ~Held(t, n)'
    BY <1>2, <1>3, EmptyRange DEF Held, At
  <2>3. n \in Range(local[t]) => Held(t, n) /\ ~Stored(r, n)
    BY <2>1 DEF NodeSound, Held
  <2>4. Passes(t, n)
    BY <1>0, <1>1, <1>3, <2>2, <2>3 DEF Passes, Processed, Stored
  <2>5. QED
    BY <1>0, <2>1, <2>4, NodePasses
<1>5. NodesOnce'
  BY <1>1, <1>3, EmptyRange, OthersOnce DEF NodesInv, NodesOnce
<1>6. QED
  BY <1>4, <1>5 DEF NodesInv

(* A completed node is free, and was nobody else's.                        *)
LEMMA CompleteNodes ==
    ASSUME Inv, NEW t \in Threads, Others(t), NodesInv, CompleteNode(t)
    PROVE  NodesInv'
<1>0. PICK m \in Nodes : m = node[t]
  BY LocalsTyped DEF CompleteNode, Returns, At
<1>1. /\ At(t, "process") /\ nodeState' = Set(nodeState, m, "free")
      /\ pc'[t] = "callback" /\ UNCHANGED <<inbox, carry, local>>
  BY <1>0, LocalsTyped DEF CompleteNode, Goto, Set
<1>2. ~At(t, "push")' /\ ~At(t, "process")'
  BY <1>1 DEF At
<1>3. ASSUME NEW n \in Nodes PROVE NodeSound(n)'
  <2>1. NodeSound(n) /\ (Held(t, n)' => Held(t, n)) /\ slot(t) \in Slots
    BY <1>1, <1>2, LocalsTyped DEF NodesInv, Held
  <2>2. CASE n # m
    <3>1. nodeState'[n] = nodeState[n]
      BY <1>1, <2>2, LocalsTyped DEF Set
    <3>2. Passes(t, n)
      BY <1>1, <1>2, <2>1, <3>1 DEF Passes, Processed, NodeSound, Stored
    <3>3. QED
      BY <2>1, <3>2, NodePasses
  <2>3. CASE n = m
    <3>1. Processed(t, n) /\ nodeState[n] = "processing"
      BY <1>0, <1>1, <2>1, <2>3 DEF Processed, NodeSound
    <3>2. \A u \in Threads, s \in Slots : ~Held(u, n) /\ ~Stored(s, n)
      BY <2>1, <3>1, NodeAway
    <3>3. \A u \in Threads : ~Held(u, n)'
      BY <2>1, <3>2, OthersHold, LocalsTyped
    <3>4. \A s \in Slots : ~Stored(s, n)'
      BY <1>1, <3>2 DEF Stored
    <3>5. \A u \in Threads : ~Processed(u, n)'
      BY <1>2, <2>1, <3>1, OthersHold DEF NodeSound, Processed
    <3>6. QED
      BY <3>3, <3>4, <3>5 DEF NodeSound, Stored, Held
  <2>4. QED
    BY <2>2, <2>3
<1>4. NodesOnce'
  BY <1>1, OthersOnce DEF NodesInv, NodesOnce
<1>5. QED
  BY <1>3, <1>4 DEF NodesInv

(* Detaching reverses the inbox: the same nodes, each once.                *)
LEMMA DetachedRange ==
    ASSUME NEW q \in Seq(Nodes)
    PROVE  /\ Range(Detached(q)) = Range(q)
           /\ IsInjective(q) => IsInjective(Detached(q))
<1> DEFINE k(i) == Len(q) - i + 1
<1>1. DOMAIN Detached(q) = 1 .. Len(q) /\ Len(q) \in Nat /\ DOMAIN q = 1 .. Len(q)
  BY DEF Detached, Reverse
<1>2. \A i \in 1 .. Len(q) : Detached(q)[i] = q[k(i)]
  BY DEF Detached, Reverse
<1>3. \A i \in 1 .. Len(q) : k(i) \in 1 .. Len(q) /\ k(k(i)) = i
  BY <1>1
<1>4. Range(Detached(q)) = Range(q)
  <2> HIDE DEF k
  <2>1. ASSUME NEW i \in 1 .. Len(q)
        PROVE  Detached(q)[i] \in Range(q) /\ q[i] \in Range(Detached(q))
    BY <1>1, <1>2, <1>3 DEF Range
  <2>2. Range(Detached(q)) \subseteq Range(q) /\ Range(q) \subseteq Range(Detached(q))
    BY <1>1, <2>1 DEF Range
  <2>3. QED
    BY <2>2
<1>5. ASSUME IsInjective(q), NEW i \in 1 .. Len(q), NEW j \in 1 .. Len(q),
             Detached(q)[i] = Detached(q)[j]
      PROVE  i = j
  <2>1. k(i) = k(j)
    <3> HIDE DEF k
    <3>1. QED
      BY <1>1, <1>2, <1>3, <1>5 DEF IsInjective
  <2>2. QED
    BY <1>1, <2>1
<1>6. QED
  BY <1>1, <1>4, <1>5 DEF IsInjective

(* Popping takes the first node in hand.                                   *)
LEMMA PopNodes ==
    ASSUME Inv, NEW t \in Threads, Others(t), NodesInv, Pop(t)
    PROVE  NodesInv'
<1> DEFINE nodes == IF local[t] = <<>> THEN Detached(inbox[slot(t)]) ELSE local[t]
<1>0. PICK r \in Slots, q \in Seq(Nodes) : r = slot(t) /\ q = nodes
  BY LocalsTyped, DetachedTyped
<1>1. /\ At(t, "callback") /\ q # <<>> /\ nodeState[Head(q)] = "queued"
      /\ nodeState' = Set(nodeState, Head(q), "processing")
      /\ node' = Set(node, t, Head(q)) /\ local' = Set(local, t, Tail(q))
      /\ inbox' = Set(inbox, r, IF local[t] = <<>> THEN <<>> ELSE inbox[r])
      /\ pc'[t] = "process" /\ carry' = carry
  BY <1>0, LocalsTyped DEF Pop, Goto, Set
<1>2. /\ IsInjective(q)
      /\ \A n \in Nodes : n \in Range(q) =>
            /\ Stored(r, n) \/ Held(t, n)
            /\ n \notin Range(inbox'[r]) /\ n \notin Range(carry[r])
  <2>1. CASE local[t] = <<>>
    <3>1. q = Detached(inbox[r]) /\ inbox[r] \in Seq(Nodes) /\ inbox'[r] = <<>>
      BY <1>0, <1>1, <2>1, LocalsTyped DEF Set
    <3>2. Range(q) = Range(inbox[r]) /\ IsInjective(q)
      BY <3>1, DetachedRange DEF NodesInv, NodesOnce
    <3>3. QED
      BY <3>1, <3>2, EmptyRange DEF NodesInv, NodeSound, Stored
  <2>2. CASE local[t] # <<>>
    <3>1. q = local[t] /\ inbox'[r] = inbox[r]
      BY <1>0, <1>1, <2>2, LocalsTyped DEF Set
    <3>2. QED
      BY <3>1 DEF NodesInv, NodesOnce, NodeSound, Stored, Held
  <2>3. QED
    BY <2>1, <2>2
<1>3. PICK m \in Nodes : m = Head(q)
  BY <1>1, <1>2, TailRange
<1>4. m \in Range(q) /\ Range(Tail(q)) = Range(q) \ {m} /\ IsInjective(Tail(q))
  BY <1>1, <1>2, <1>3, TailRange
<1>5. /\ nodeState' = Set(nodeState, m, "processing") /\ node'[t] = m
      /\ local'[t] = Tail(q) /\ \A s \in Slots \ {r} : inbox'[s] = inbox[s]
  BY <1>1, <1>3, LocalsTyped DEF Set
<1>6. inbox'[r] \in {<<>>, inbox[r]}
  BY <1>1, LocalsTyped DEF Set
<1>7. ~At(t, "push")' /\ At(t, "process")' /\ ~At(t, "process")
  BY <1>1 DEF At
<1>8. ASSUME NEW n \in Nodes PROVE NodeSound(n)'
  <2>1. NodeSound(n) /\ (Held(t, n)' <=> n \in Range(q) /\ n # m)
    BY <1>4, <1>5, <1>7 DEF NodesInv, Held
  <2>2. CASE n # m
    <3>1. nodeState'[n] = nodeState[n] /\ ~Processed(t, n)'
      BY <1>5, <2>2, LocalsTyped DEF Set, Processed
    <3>2. n \in Range(inbox'[r]) => n \in Range(inbox[r])
      BY <1>6, EmptyRange
    <3>3. Passes(t, n)
      BY <1>0, <1>1, <1>2, <1>5, <1>7, <2>1, <3>1, <3>2 DEF Passes, NodeSound, Stored
    <3>4. QED
      BY <1>0, <2>1, <3>3, NodePasses
  <2>3. CASE n = m
    <3>1. nodeState'[n] = "processing" /\ nodeState[n] = "queued"
      BY <1>1, <1>3, <1>5, <2>3, LocalsTyped DEF Set
    <3>2. Stored(r, n) \/ Held(t, n)
      BY <1>2, <1>4, <2>3
    <3>3. \A u \in Threads \ {t} : ~Held(u, n)
      BY <2>1, <3>2 DEF NodeSound
    <3>4. \A u \in Threads : ~Held(u, n)'
      BY <2>1, <2>3, <3>3, OthersHold
    <3>5. \A s \in Slots \ {r} : ~Stored(s, n)
      BY <2>1, <3>2 DEF NodeSound
    <3>6. \A s \in Slots : ~Stored(s, n)'
      BY <1>1, <1>2, <1>4, <1>5, <2>3, <3>5 DEF Stored
    <3>7. \A u \in Threads \ {t} : ~Processed(u, n)'
      BY <2>1, <3>1, OthersHold DEF NodeSound
    <3>8. QED
      BY <3>1, <3>4, <3>6, <3>7 DEF NodeSound, Stored, Held
  <2>4. QED
    BY <2>2, <2>3
<1>9. NodesOnce'
  BY <1>1, <1>4, <1>5, <1>6, EmptyRange, OthersOnce DEF NodesInv, NodesOnce
<1>10. QED
  BY <1>8, <1>9 DEF NodesInv

(* Every step of a thread keeps the invariant of the nodes.                *)
LEMMA StepNodes ==
    ASSUME Inv, NEW t \in Threads, ThreadNext(t), NodesInv
    PROVE  NodesInv'
<1>1. Others(t)
  BY StepMoves DEF Moves
<1>2. CASE Build(t)
  BY <1>1, <1>2, BuildNodes
<1>3. CASE ClaimNode(t)
  BY <1>1, <1>3, ClaimNodes
<1>4. CASE PushInbox(t)
  BY <1>1, <1>4, PushNodes
<1>5. CASE Run(t)
  BY <1>1, <1>5, RunNodes
<1>6. CASE Pop(t)
  BY <1>1, <1>6, PopNodes
<1>7. CASE CompleteNode(t)
  BY <1>1, <1>7, CompleteNodes
<1>8. CASE EndCallback(t)
  BY <1>1, <1>8, EndNodes
<1>9. CASE /\ ~Build(t) /\ ~ClaimNode(t) /\ ~PushInbox(t)
           /\ ~Run(t) /\ ~Pop(t) /\ ~CompleteNode(t) /\ ~EndCallback(t)
  <2>1. Still(t)
    BY <1>9, CallersStill, RunnersStill DEF ThreadNext
  <2>2. QED
    BY <1>1, <2>1, StillNodes
<1>10. QED
  BY <1>2, <1>3, <1>4, <1>5, <1>6, <1>7, <1>8, <1>9

(* The nodes are sound initially.                                          *)
LEMMA InitNodes == Init => NodesInv
<1> SUFFICES ASSUME Init PROVE NodesInv
  OBVIOUS
<1>1. /\ \A s \in Slots : inbox[s] = <<>> /\ carry[s] = <<>>
      /\ \A t \in Threads : local[t] = <<>> /\ pc[t] = "idle"
  BY DEF Init, SlotInit, ThreadInit
<1>2. \A n \in Nodes : /\ \A s \in Slots : ~Stored(s, n)
                       /\ \A t \in Threads : ~Held(t, n) /\ ~Processed(t, n)
  BY <1>1, EmptyRange DEF Stored, Held, Processed, At
<1>3. \A n \in Nodes : NodeSound(n)
  BY <1>1, <1>2, EmptyRange DEF NodeSound
<1>4. NodesOnce
  BY <1>1, EmptyRange DEF NodesOnce
<1>5. QED
  BY <1>3, <1>4 DEF NodesInv

(* A stuttering step keeps the invariant of the nodes.                     *)
LEMMA StutterNodes == ASSUME UNCHANGED vars, NodesInv PROVE NodesInv'
<1>1. UNCHANGED <<inbox, carry, nodeState, pc, node, local>>
  BY DEF vars, slotVars, threadVars
<1>2. QED
  BY <1>1 DEF NodesInv, NodeSound, NodesOnce, Stored, Held, Processed, At

(* The invariant of the nodes, of every behaviour.                         *)
LEMMA NodesInductive == Spec => []NodesInv
<1>1. Init => NodesInv
  BY InitNodes
<1>2. Inv /\ NodesInv /\ [Next]_vars => NodesInv'
  BY StepNodes, StutterNodes DEF Next
<1>3. QED
  BY <1>1, <1>2, LifecycleInductive, PTL DEF Spec

(* The fatal checks follow from the two invariants.                        *)
LEMMA TripwiresByInv == ASSUME Inv, NodesInv PROVE ActorTripwires
<1>1. ASSUME NEW t \in Threads
      PROVE  /\ At(t, "signal") /\ ret[t] = "release" => Signals(t, TRUE)
             /\ pc[t] \in {"member", "leaveWave"} => waveOwner[slot(t)] = t
             /\ InWave(t) => life[slot(t)].gen = gen(t) /\ life[slot(t)].phase = "scheduled"
             /\ Activating(t) /\ pc[t] \in {"callback", "mark"} =>
                   life[slot(t)].gen = gen(t) /\ life[slot(t)].phase = "running"
             /\ At(t, "construct") => life[slot(t)].phase = "vacant"
  <2>1. SenderSound(t) /\ WaveSound(t) /\ ActivationSound(t) /\ MakerSound(t)
    BY DEF Inv, ThreadSound
  <2>2. At(t, "signal") /\ ret[t] = "release" => Signals(t, TRUE)
    BY <2>1 DEF SenderSound, Admitted, Signals
  <2>3. pc[t] \in {"member", "leaveWave"} => waveOwner[slot(t)] = t
    BY <2>1 DEF WaveSound, Owning
  <2>4. Activating(t) /\ pc[t] \in {"callback", "mark"} =>
           life[slot(t)].gen = gen(t) /\ life[slot(t)].phase = "running"
    BY <2>1 DEF ActivationSound, Entering
  <2>5. QED
    BY <2>1, <2>2, <2>3, <2>4 DEF WaveSound, MakerSound
<1>2. ASSUME NEW t \in Threads, At(t, "release")
      PROVE  gate[slot(t)].count > 0
  <2>1. PICK s \in Slots : s = slot(t)
    BY LocalsTyped
  <2>2. Reserving(t) /\ slot(t) = s
    BY <1>2, <2>1 DEF Reserving, At
  <2>3. gate[s].count # 0
    BY <2>2, NoneReserves
  <2>4. gate[s].count \in Nat
    BY DEF Inv, Types, SlotTypes
  <2>5. QED
    BY <2>1, <2>3, <2>4
<1>3. ASSUME NEW t \in Threads, At(t, "callback"), NEW i \in DOMAIN local[t]
      PROVE  nodeState[local[t][i]] = "queued"
  <2>1. local[t][i] \in Nodes /\ local[t][i] \in Range(local[t])
    BY <1>3, LocalsTyped DEF Range
  <2>2. QED
    BY <2>1 DEF NodesInv, NodeSound, Held
<1>4. ASSUME NEW t \in Threads, At(t, "destroy")
      PROVE  Drained(slot(t))
  <2>1. slot(t) \in Slots /\ MakerSound(t)
    BY LocalsTyped DEF Inv, ThreadSound
  <2>2. life[slot(t)].phase = "reclaiming" /\ SlotSound(slot(t))
    BY <1>4, <2>1 DEF MakerSound, Inv, At
  <2>3. QED
    BY <2>2 DEF SlotSound, Drained, Active
<1>5. QED
  BY <1>1, <1>2, <1>3, <1>4 DEF ActorTripwires

(* No fatal of the runtime fires: an accepted send finds somebody to       *)
(* signal, a callback and a wave own the lifecycle, a reservation is there *)
(* when it is released, and nodes are popped queued.                       *)
THEOREM ActorsNeverTrip == Spec => []ActorTripwires
  BY LifecycleInductive, NodesInductive, TripwiresByInv, PTL

-----------------------------------------------------------------------------
(* The inboxes implement Mailbox.                                          *)

OnBox(t) == pc[t] \in {"callback", "process"}

(* The box of a slot that a thread works on is what it has in hand, then   *)
(* the inbox.                                                              *)
LEMMA BoxHeld ==
    ASSUME NEW s \in Slots, NEW t \in Threads,
           \A u \in Threads : OnBox(u) /\ slot(u) = s <=> u = t
    PROVE  Boxed(s) = local[t] \o Reverse(inbox[s])
<1> DEFINE holders == {u \in Threads : InCallback(u) /\ slot(u) = s /\ ~At(u, "operation")}
<1>1. \A u \in Threads : InCallback(u) /\ ~At(u, "operation") <=> OnBox(u)
  BY DEF InCallback, At, OnBox
<1>2. holders = {t}
  BY <1>1
<1>3. Boxed(s) = (IF holders = {} THEN carry[s] ELSE local[CHOOSE u \in holders : TRUE])
                   \o Reverse(inbox[s])
  BY DEF Boxed
<1>4. (CHOOSE u \in holders : TRUE) = t
  BY <1>2
<1>5. QED
  <2> HIDE DEF holders
  <2>1. QED
    BY <1>2, <1>3, <1>4

(* The same, of the next state.                                            *)
LEMMA BoxHeldNext ==
    ASSUME NEW s \in Slots, NEW t \in Threads,
           \A u \in Threads : OnBox(u)' /\ slot(u)' = s <=> u = t
    PROVE  Boxed(s)' = local'[t] \o Reverse(inbox'[s])
<1> DEFINE holders == {u \in Threads : InCallback(u)' /\ slot(u)' = s /\ ~At(u, "operation")'}
<1>1. \A u \in Threads : InCallback(u)' /\ ~At(u, "operation")' <=> OnBox(u)'
  BY DEF InCallback, At, OnBox
<1>2. holders = {t}
  BY <1>1
<1>3. Boxed(s)' = (IF holders = {} THEN carry'[s] ELSE local'[CHOOSE u \in holders : TRUE])
                   \o Reverse(inbox'[s])
  BY DEF Boxed
<1>4. (CHOOSE u \in holders : TRUE) = t
  BY <1>2
<1>5. QED
  <2> HIDE DEF holders
  <2>1. QED
    BY <1>2, <1>3, <1>4

(* The box of a slot that no thread works on is the carry, then the inbox. *)
LEMMA BoxLeft ==
    ASSUME NEW s \in Slots, \A u \in Threads : ~(OnBox(u) /\ slot(u) = s)
    PROVE  Boxed(s) = carry[s] \o Reverse(inbox[s])
<1>1. {u \in Threads : InCallback(u) /\ slot(u) = s /\ ~At(u, "operation")} = {}
  BY DEF InCallback, At, OnBox
<1>2. QED
  BY <1>1 DEF Boxed

(* The same, of the next state.                                            *)
LEMMA BoxLeftNext ==
    ASSUME NEW s \in Slots, \A u \in Threads : ~(OnBox(u)' /\ slot(u)' = s)
    PROVE  Boxed(s)' = carry'[s] \o Reverse(inbox'[s])
<1>1. {u \in Threads : InCallback(u)' /\ slot(u)' = s /\ ~At(u, "operation")'} = {}
  BY DEF InCallback, At, OnBox
<1>2. QED
  BY <1>1 DEF Boxed

(* What other threads have of a box stays.                                 *)
LEMMA OthersOnBox ==
    ASSUME NEW t \in Threads, Others(t), NEW u \in Threads \ {t}, NEW s
    PROVE  OnBox(u)' /\ slot(u)' = s <=> OnBox(u) /\ slot(u) = s
  BY DEF Others, OnBox, slot

(* The holder of a box is alone.                                           *)
LEMMA OneOnBox ==
    ASSUME Inv, NEW t \in Threads, NEW s \in Slots, Busy(t), slot(t) = s,
           NEW u \in Threads, OnBox(u), slot(u) = s
    PROVE  u = t
<1>1. Busy(u)
  BY DEF OnBox, Busy, Activating
<1>2. QED
  BY <1>1 DEF Inv, TokenSound, Has

(* A box that the thread does not touch.                                   *)
LEMMA BoxStays ==
    ASSUME Inv, NEW t \in Threads, Others(t), NEW s \in Slots,
           ~(OnBox(t) /\ slot(t) = s), ~(OnBox(t)' /\ slot(t)' = s),
           inbox'[s] = inbox[s], carry'[s] = carry[s]
    PROVE  Boxed(s)' = Boxed(s)
<1>1. CASE \E u \in Threads : OnBox(u) /\ slot(u) = s
  <2>1. PICK u \in Threads : OnBox(u) /\ slot(u) = s
    BY <1>1
  <2>2. u # t /\ Busy(u)
    BY <2>1 DEF OnBox, Busy, Activating
  <2>3. \A v \in Threads : OnBox(v) /\ slot(v) = s <=> v = u
    BY <2>1, <2>2, OneOnBox
  <2>4. \A v \in Threads : OnBox(v)' /\ slot(v)' = s <=> v = u
    BY <2>2, <2>3, OthersOnBox
  <2>5. local'[u] = local[u]
    BY <2>2 DEF Others
  <2>6. Boxed(s) = local[u] \o Reverse(inbox[s])
    BY <2>3, BoxHeld
  <2>7. Boxed(s)' = local'[u] \o Reverse(inbox'[s])
    BY <2>4, BoxHeldNext
  <2>8. QED
    BY <2>5, <2>6, <2>7
<1>2. CASE \A u \in Threads : ~(OnBox(u) /\ slot(u) = s)
  <2>1. \A u \in Threads : ~(OnBox(u)' /\ slot(u)' = s)
    BY <1>2, OthersOnBox
  <2>2. QED
    BY <1>2, <2>1, BoxLeft, BoxLeftNext
<1>3. QED
  BY <1>1, <1>2

(* A step that leaves nodes and inboxes alone leaves the box of a slot.    *)
LEMMA StillBox ==
    ASSUME Inv, NEW t \in Threads, Others(t), Still(t), NEW s \in Slots
    PROVE  Boxed(s)' = Boxed(s)
<1>1. ~OnBox(t) /\ ~OnBox(t)' /\ UNCHANGED <<inbox, carry>>
  BY DEF Still, OnBox
<1>2. QED
  BY <1>1, BoxStays

(* Steps that move nodes and leave the boxes as they were.                 *)
LEMMA ClaimBox ==
    ASSUME Inv, NEW t \in Threads, Others(t), ClaimNode(t), NEW s \in Slots
    PROVE  Boxed(s)' = Boxed(s) /\ life' = life
<1>1. At(t, "claimNode") /\ pc'[t] \in {"push", "release"} /\ UNCHANGED <<inbox, carry, life>>
  BY LocalsTyped DEF ClaimNode, Goto, Set
<1>2. ~OnBox(t) /\ ~OnBox(t)'
  BY <1>1 DEF OnBox, At
<1>3. QED
  BY <1>1, <1>2, BoxStays

(* createActor's reset leaves the empty box empty.                         *)
LEMMA BuildBox ==
    ASSUME Inv, NEW t \in Threads, Others(t), Build(t), NEW s \in Slots
    PROVE  Boxed(s)' = Boxed(s) /\ life' = life
<1>0. PICK r \in Slots : r = slot(t)
  BY LocalsTyped
<1>1. /\ At(t, "build") /\ pc'[t] = "open" /\ life' = life
      /\ inbox' = Set(inbox, r, <<>>) /\ carry' = Set(carry, r, <<>>)
  BY <1>0, LocalsTyped DEF Build, Goto, Set
<1>2. inbox[r] = <<>> /\ carry[r] = <<>>
  <2>1. SlotSound(r) /\ MakerSound(t)
    BY DEF Inv, ThreadSound
  <2>2. life[r].phase = "constructing"
    BY <1>0, <1>1, <2>1 DEF MakerSound, At
  <2>3. QED
    BY <2>1, <2>2 DEF SlotSound, Active
<1>3. inbox'[s] = inbox[s] /\ carry'[s] = carry[s]
  BY <1>1, <1>2, LocalsTyped DEF Set
<1>4. ~OnBox(t) /\ ~OnBox(t)'
  BY <1>1 DEF OnBox, At
<1>5. QED
  BY <1>1, <1>3, <1>4, BoxStays

(* Completing a node leaves the box, the message was received.             *)
LEMMA CompleteBox ==
    ASSUME Inv, NEW t \in Threads, Others(t), CompleteNode(t), NEW s \in Slots
    PROVE  Boxed(s)' = Boxed(s) /\ life' = life
<1>1. /\ At(t, "process") /\ pc'[t] = "callback"
      /\ UNCHANGED <<life, inbox, carry, local, h>>
  BY LocalsTyped DEF CompleteNode, Goto, Set
<1>2. OnBox(t) /\ OnBox(t)' /\ Busy(t) /\ slot(t)' = slot(t)
  BY <1>1 DEF OnBox, At, Busy, Activating, slot
<1>3. CASE slot(t) = s
  <2>1. \A u \in Threads : OnBox(u) /\ slot(u) = s <=> u = t
    BY <1>2, <1>3, OneOnBox
  <2>2. \A u \in Threads : OnBox(u)' /\ slot(u)' = s <=> u = t
    BY <1>2, <1>3, <2>1, OthersOnBox
  <2>3. Boxed(s) = local[t] \o Reverse(inbox[s])
    BY <2>1, BoxHeld
  <2>4. Boxed(s)' = local'[t] \o Reverse(inbox'[s])
    BY <2>2, BoxHeldNext
  <2>5. QED
    BY <1>1, <2>3, <2>4
<1>4. CASE slot(t) # s
  BY <1>1, <1>2, <1>4, BoxStays
<1>5. QED
  BY <1>3, <1>4

(* The end of a callback leaves the box.                                   *)
LEMMA EndBox ==
    ASSUME Inv, NEW t \in Threads, Others(t), EndCallback(t), NEW s \in Slots
    PROVE  Boxed(s)' = Boxed(s) /\ life' = life
<1>0. PICK r \in Slots : r = slot(t)
  BY LocalsTyped
<1>1. /\ At(t, "callback") /\ UNCHANGED <<life, inbox>>
      /\ carry' = Set(carry, r, local[t])
  BY <1>0 DEF EndCallback
<1>2. pc'[t] \in {"mark", "exit"}
  BY LocalsTyped DEF EndCallback, Goto, Set
<1>3. OnBox(t) /\ ~OnBox(t)' /\ Busy(t)
  BY <1>1, <1>2 DEF OnBox, At, Busy, Activating
<1>4. carry'[r] = local[t] /\ \A q \in Slots \ {r} : carry'[q] = carry[q]
  BY <1>1, LocalsTyped DEF Set
<1>5. CASE r = s
  <2>1. \A u \in Threads : OnBox(u) /\ slot(u) = s <=> u = t
    BY <1>0, <1>3, <1>5, OneOnBox
  <2>2. \A u \in Threads : ~(OnBox(u)' /\ slot(u)' = s)
    BY <1>3, <2>1, OthersOnBox
  <2>3. Boxed(s) = local[t] \o Reverse(inbox[s])
    BY <2>1, BoxHeld
  <2>4. Boxed(s)' = carry'[s] \o Reverse(inbox'[s])
    BY <2>2, BoxLeftNext
  <2>5. QED
    BY <1>1, <1>4, <1>5, <2>3, <2>4
<1>6. CASE r # s
  BY <1>0, <1>1, <1>3, <1>4, <1>6, BoxStays
<1>7. QED
  BY <1>5, <1>6

(* Detaching leaves the box: the carry in front, the inbox reversed behind *)
(* it.                                                                     *)
LEMMA RunBox ==
    ASSUME Inv, NEW t \in Threads, Others(t), Run(t), NEW s \in Slots
    PROVE  /\ Boxed(s)' = Boxed(s)
           /\ life'[s].phase \in Active <=> life[s].phase \in Active
<1>0. PICK r \in Slots : r = slot(t)
  BY LocalsTyped
<1>1. At(t, "run") /\ UNCHANGED inbox
  BY DEF Run
<1>2. ~OnBox(t) /\ Busy(t)
  BY <1>1 DEF OnBox, At, Busy, Activating
<1>3. CASE life[r] # seen[t]
  <2>1. UNCHANGED <<life, carry>> /\ EnterOn(t, slot(t), gen(t), life[slot(t)])
    BY <1>0, <1>3 DEF Run, EntryCas
  <2>2. \E l \in {"entryGate", "run", "idle"} : pc' = Set(pc, t, l)
    BY <2>1 DEF EnterOn, Stale, Return, Goto
  <2>3. ~OnBox(t)'
    BY <2>2, LocalsTyped DEF OnBox, Set
  <2>4. QED
    BY <1>1, <1>2, <2>1, <2>3, BoxStays
<1>4. CASE life[r] = seen[t]
  <2>1. /\ life' = Set(life, r, Word(gen(t), "running", seen[t].flags \cap retainedMask))
        /\ local' = Set(local, t, carry[r]) /\ carry' = Set(carry, r, <<>>)
        /\ pc' = Set(pc, t, "callback") /\ h' = h
    BY <1>0, <1>4 DEF Run, EntryCas, Goto
  <2>2. local'[t] = carry[r] /\ \A q \in Slots \ {r} : carry'[q] = carry[q]
    BY <2>1, LocalsTyped DEF Set
  <2>3. OnBox(t)' /\ slot(t)' = r
    BY <1>0, <2>1, LocalsTyped DEF OnBox, Set, slot
  <2>4. DOMAIN life = Slots /\ life[r].phase = "scheduled"
    <3>1. ActivationSound(t)
      BY DEF Inv, ThreadSound
    <3>2. QED
      BY <1>0, <1>1, <3>1 DEF ActivationSound, Entering, At, Inv, Types, SlotTypes
  <2>5. life'[s].phase \in Active <=> life[s].phase \in Active
    BY <2>1, <2>4 DEF Set, Word, Active
  <2>6. CASE r = s
    <3>1. \A u \in Threads : ~(OnBox(u) /\ slot(u) = s)
      BY <1>0, <1>2, <2>6, OneOnBox
    <3>2. \A u \in Threads : OnBox(u)' /\ slot(u)' = s <=> u = t
      BY <2>3, <2>6, <3>1, OthersOnBox
    <3>3. Boxed(s) = carry[s] \o Reverse(inbox[s])
      BY <3>1, BoxLeft
    <3>4. Boxed(s)' = local'[t] \o Reverse(inbox'[s])
      BY <3>2, BoxHeldNext
    <3>5. QED
      BY <1>1, <2>2, <2>5, <2>6, <3>3, <3>4
  <2>7. CASE r # s
    BY <1>0, <1>1, <1>2, <2>2, <2>3, <2>5, <2>7, BoxStays
  <2>8. QED
    BY <2>6, <2>7
<1>5. QED
  BY <1>3, <1>4

(* Reverse keeps the type and the length.                                  *)
LEMMA ReverseTyped ==
    ASSUME NEW q \in Seq(Nodes)
    PROVE  Reverse(q) \in Seq(Nodes) /\ Len(Reverse(q)) = Len(q)
  BY DetachedTyped DEF Detached

(* What is pushed comes last.                                              *)
LEMMA PushedLast ==
    ASSUME NEW p \in Seq(Nodes), NEW q \in Seq(Nodes), NEW m \in Nodes
    PROVE  p \o Reverse(<<m>> \o q) = Append(p \o Reverse(q), m)
<1> DEFINE c == <<m>> \o q
<1>1. c \in Seq(Nodes) /\ Len(c) = Len(q) + 1 /\ Len(q) \in Nat /\ c[1] = m
  OBVIOUS
<1>2. \A i \in 1 .. Len(q) : c[i + 1] = q[i]
  OBVIOUS
<1>3. Reverse(c) = Append(Reverse(q), m)
  <2> HIDE DEF c
  <2>1. Reverse(c) \in Seq(Nodes) /\ Len(Reverse(c)) = Len(q) + 1
    BY <1>1, ReverseTyped
  <2>2. Reverse(q) \in Seq(Nodes) /\ Len(Reverse(q)) = Len(q)
    BY ReverseTyped
  <2>3. \A i \in 1 .. Len(q) + 1 : Reverse(c)[i] = c[Len(q) + 1 - i + 1]
    BY <1>1 DEF Reverse
  <2>4. \A i \in 1 .. Len(q) : Reverse(q)[i] = q[Len(q) - i + 1]
    BY DEF Reverse
  <2>5. ASSUME NEW i \in 1 .. Len(q) PROVE Reverse(c)[i] = Append(Reverse(q), m)[i]
    <3>1. PICK j \in 1 .. Len(q) : j = Len(q) - i + 1 /\ j + 1 = Len(q) + 1 - i + 1
      <4>1. Len(q) - i + 1 \in 1 .. Len(q) /\ (Len(q) - i + 1) + 1 = Len(q) + 1 - i + 1
        BY <1>1
      <4>2. QED
        BY <4>1
    <3>2. i \in 1 .. Len(q) + 1
      BY <1>1
    <3>3. Reverse(c)[i] = c[j + 1] /\ Reverse(q)[i] = q[j]
      BY <2>3, <2>4, <3>1, <3>2
    <3>4. Append(Reverse(q), m)[i] = Reverse(q)[i]
      BY <2>2
    <3>5. QED
      BY <1>2, <3>3, <3>4
  <2>6. Reverse(c)[Len(q) + 1] = Append(Reverse(q), m)[Len(q) + 1]
    BY <1>1, <2>2, <2>3
  <2>7. Append(Reverse(q), m) \in Seq(Nodes) /\ Len(Append(Reverse(q), m)) = Len(q) + 1
    BY <2>2
  <2>8. \A i \in 1 .. Len(q) + 1 : Reverse(c)[i] = Append(Reverse(q), m)[i]
    <3>1. \A i \in 1 .. Len(q) + 1 : i \in 1 .. Len(q) \/ i = Len(q) + 1
      BY <1>1
    <3>2. QED
      BY <2>5, <2>6, <3>1
  <2>9. QED
    BY <2>1, <2>7, <2>8, SeqEqual
<1>4. Reverse(q) \in Seq(Nodes)
  BY ReverseTyped
<1>5. p \o Append(Reverse(q), m) = Append(p \o Reverse(q), m)
  BY <1>4
<1>6. QED
  BY <1>3, <1>5

(* The tail of a joined pair, when the first part is not empty.            *)
LEMMA TailJoined ==
    ASSUME NEW p \in Seq(Nodes), NEW q \in Seq(Nodes), p # <<>>
    PROVE  p \o q # <<>> /\ Tail(p) \o q = Tail(p \o q)
<1>1. Len(p) \in Nat /\ Len(p) >= 1 /\ Len(q) \in Nat
  OBVIOUS
<1>2. p \o q \in Seq(Nodes) /\ Len(p \o q) = Len(p) + Len(q)
  OBVIOUS
<1>3. p \o q # <<>>
  BY <1>1, <1>2
<1>4. Tail(p) \in Seq(Nodes) /\ Len(Tail(p)) = Len(p) - 1
  BY <1>1
<1>5. /\ Tail(p \o q) \in Seq(Nodes) /\ Len(Tail(p \o q)) = Len(p) + Len(q) - 1
      /\ Tail(p) \o q \in Seq(Nodes) /\ Len(Tail(p) \o q) = Len(p) + Len(q) - 1
  BY <1>1, <1>2, <1>3, <1>4
<1>6. ASSUME NEW i \in 1 .. Len(p) + Len(q) - 1
      PROVE  (Tail(p) \o q)[i] = Tail(p \o q)[i]
  <2>1. Tail(p \o q)[i] = (p \o q)[i + 1]
    BY <1>1, <1>2, <1>3
  <2>2. CASE i <= Len(p) - 1
    <3>1. (Tail(p) \o q)[i] = Tail(p)[i] /\ Tail(p)[i] = p[i + 1]
      BY <1>1, <1>4, <2>2
    <3>2. (p \o q)[i + 1] = p[i + 1]
      BY <1>1, <2>2
    <3>3. QED
      BY <2>1, <3>1, <3>2
  <2>3. CASE i > Len(p) - 1
    <3>1. (Tail(p) \o q)[i] = q[i - (Len(p) - 1)]
      BY <1>1, <1>4, <2>3
    <3>2. (p \o q)[i + 1] = q[i + 1 - Len(p)]
      <4>1. i + 1 \in 1 .. Len(p) + Len(q) /\ i + 1 > Len(p)
        BY <1>1, <2>3
      <4>2. QED
        BY <1>1, <4>1
    <3>3. i - (Len(p) - 1) = i + 1 - Len(p)
      BY <1>1
    <3>4. QED
      BY <2>1, <3>1, <3>2, <3>3
  <2>4. QED
    BY <1>1, <2>2, <2>3
<1>7. QED
  BY <1>3, <1>5, <1>6, SeqEqual

(* A push is Mailbox's Deliver to the slot.                                *)
LEMMA PushBox ==
    ASSUME Inv, NEW t \in Threads, Others(t), PushInbox(t)
    PROVE  /\ life' = life /\ life[slot(t)].phase \in Active
           /\ \E m \in Nodes : \A s \in Slots :
                 Boxed(s)' = IF s = slot(t) THEN Append(Boxed(s), m) ELSE Boxed(s)
<1>0. PICK r \in Slots, m \in Nodes : r = slot(t) /\ m = node[t]
  BY LocalsTyped DEF PushInbox, Returns, At
<1>1. /\ At(t, "push") /\ inbox' = [inbox EXCEPT ![r] = <<m>> \o @]
      /\ pc'[t] = "signal" /\ UNCHANGED <<carry, life>>
  BY <1>0, LocalsTyped DEF PushInbox, Goto, Set
<1>2. inbox'[r] = <<m>> \o inbox[r] /\ \A q \in Slots \ {r} : inbox'[q] = inbox[q]
  BY <1>1, LocalsTyped
<1>3. life[r].phase \in Active
  BY <1>0, <1>1 DEF Inv, ThreadSound, SenderSound, Admitted, At
<1>4. ~OnBox(t) /\ ~OnBox(t)'
  BY <1>1 DEF OnBox, At
<1>5. ASSUME NEW s \in Slots \ {r} PROVE Boxed(s)' = Boxed(s)
  BY <1>1, <1>2, <1>4, BoxStays
<1>6. Boxed(r)' = Append(Boxed(r), m)
  <2>1. \A p \in Seq(Nodes) : p \o Reverse(inbox'[r]) = Append(p \o Reverse(inbox[r]), m)
    <3>1. inbox[r] \in Seq(Nodes)
      BY LocalsTyped
    <3>2. \A p \in Seq(Nodes) : p \o Reverse(<<m>> \o inbox[r]) = Append(p \o Reverse(inbox[r]), m)
      BY <3>1, PushedLast
    <3>3. QED
      BY <1>2, <3>2
  <2>2. CASE \E u \in Threads : OnBox(u) /\ slot(u) = r
    <3>1. PICK u \in Threads : OnBox(u) /\ slot(u) = r
      BY <2>2
    <3>2. u # t /\ Busy(u)
      BY <1>4, <3>1 DEF OnBox, Busy, Activating
    <3>3. \A v \in Threads : OnBox(v) /\ slot(v) = r <=> v = u
      BY <3>1, <3>2, OneOnBox
    <3>4. \A v \in Threads : OnBox(v)' /\ slot(v)' = r <=> v = u
      BY <1>4, <3>2, <3>3, OthersOnBox
    <3>5. local'[u] = local[u] /\ local[u] \in Seq(Nodes)
      BY <3>2, LocalsTyped DEF Others
    <3>6. Boxed(r) = local[u] \o Reverse(inbox[r])
      BY <3>3, BoxHeld
    <3>7. Boxed(r)' = local'[u] \o Reverse(inbox'[r])
      BY <3>4, BoxHeldNext
    <3>8. QED
      BY <2>1, <3>5, <3>6, <3>7
  <2>3. CASE \A u \in Threads : ~(OnBox(u) /\ slot(u) = r)
    <3>1. \A u \in Threads : ~(OnBox(u)' /\ slot(u)' = r)
      BY <1>4, <2>3, OthersOnBox
    <3>2. Boxed(r) = carry[r] \o Reverse(inbox[r]) /\ carry[r] \in Seq(Nodes)
      BY <2>3, BoxLeft, LocalsTyped
    <3>3. Boxed(r)' = carry[r] \o Reverse(inbox'[r])
      BY <1>1, <3>1, BoxLeftNext
    <3>4. QED
      BY <2>1, <3>2, <3>3
  <2>4. QED
    BY <2>2, <2>3
<1>7. \A s \in Slots : Boxed(s)' = IF s = r THEN Append(Boxed(s), m) ELSE Boxed(s)
  BY <1>5, <1>6
<1>8. QED
  BY <1>0, <1>1, <1>3, <1>7

(* A pop is Mailbox's Receive of the slot.                                 *)
LEMMA PopBox ==
    ASSUME Inv, NEW t \in Threads, Others(t), Pop(t)
    PROVE  /\ life' = life /\ Boxed(slot(t)) # <<>>
           /\ \A s \in Slots :
                 Boxed(s)' = IF s = slot(t) THEN Tail(Boxed(s)) ELSE Boxed(s)
<1> DEFINE nodes == IF local[t] = <<>> THEN Detached(inbox[slot(t)]) ELSE local[t]
<1>0. PICK r \in Slots, q \in Seq(Nodes) : r = slot(t) /\ q = nodes
  BY LocalsTyped, DetachedTyped
<1>1. /\ At(t, "callback") /\ q # <<>> /\ local' = Set(local, t, Tail(q))
      /\ inbox' = Set(inbox, r, IF local[t] = <<>> THEN <<>> ELSE inbox[r])
      /\ pc'[t] = "process" /\ UNCHANGED <<carry, life, h>>
  BY <1>0, LocalsTyped DEF Pop, Goto, Set
<1>2. local'[t] = Tail(q) /\ \A s \in Slots \ {r} : inbox'[s] = inbox[s]
  BY <1>1, LocalsTyped DEF Set
<1>3. OnBox(t) /\ OnBox(t)' /\ Busy(t) /\ slot(t)' = r
  BY <1>0, <1>1 DEF OnBox, At, Busy, Activating, slot
<1>4. ASSUME NEW s \in Slots \ {r} PROVE Boxed(s)' = Boxed(s)
  BY <1>0, <1>1, <1>2, <1>3, <1>4, BoxStays
<1>5. \A u \in Threads : OnBox(u) /\ slot(u) = r <=> u = t
  BY <1>0, <1>3, OneOnBox
<1>6. \A u \in Threads : OnBox(u)' /\ slot(u)' = r <=> u = t
  BY <1>3, <1>5, OthersOnBox
<1>7. Boxed(r) = local[t] \o Reverse(inbox[r])
  BY <1>5, BoxHeld
<1>8. Boxed(r)' = Tail(q) \o Reverse(inbox'[r])
  BY <1>2, <1>6, BoxHeldNext
<1>9. Reverse(<<>>) = <<>>
  <2>1. <<>> \in Seq(Nodes)
    OBVIOUS
  <2>2. QED
    BY <2>1, DetachedTyped DEF Detached
<1>10. /\ local[t] \in Seq(Nodes) /\ inbox[r] \in Seq(Nodes)
       /\ Reverse(inbox[r]) \in Seq(Nodes) /\ Tail(q) \in Seq(Nodes)
  BY <1>1, LocalsTyped, ReverseTyped
<1>11. Boxed(r) # <<>> /\ Boxed(r)' = Tail(Boxed(r))
  <2>1. CASE local[t] = <<>>
    <3>1. q = Reverse(inbox[r]) /\ inbox'[r] = <<>>
      BY <1>0, <1>1, <2>1, LocalsTyped DEF Detached, Set
    <3>2. Boxed(r) = q /\ Boxed(r)' = Tail(q)
      BY <1>7, <1>8, <1>9, <1>10, <2>1, <3>1
    <3>3. QED
      BY <1>1, <3>2
  <2>2. CASE local[t] # <<>>
    <3>1. q = local[t] /\ inbox'[r] = inbox[r]
      BY <1>0, <1>1, <2>2, LocalsTyped DEF Set
    <3>2. QED
      <4>1. /\ local[t] \o Reverse(inbox[r]) # <<>>
            /\ Tail(local[t]) \o Reverse(inbox[r]) = Tail(local[t] \o Reverse(inbox[r]))
        BY <1>10, <2>2, TailJoined
      <4>2. QED
        BY <1>7, <1>8, <3>1, <4>1
  <2>3. QED
    BY <2>1, <2>2
<1>12. QED
  BY <1>0, <1>1, <1>4, <1>11

(* A box opens or closes empty.                                            *)
LEMMA SwitchedEmpty ==
    ASSUME Inv, NEW t \in Threads, Moves(t), Still(t), NEW s \in Slots,
           ~(life'[s].phase \in Active <=> life[s].phase \in Active)
    PROVE  slot(t) = s /\ Boxed(s) = <<>>
<1>1. LifeMoves(t, s) /\ SlotSound(s)
  BY DEF Moves, SlotMoves, Inv
<1>2. ~OnBox(t)
  BY DEF Still, OnBox
<1>3. \A u \in Threads : OnBox(u) /\ slot(u) = s => life[s].phase = "running"
  <2>1. \A u \in Threads : OnBox(u) => Activating(u) /\ ~Entering(u)
    BY DEF OnBox, Activating, Entering
  <2>2. QED
    BY <2>1 DEF Inv, ThreadSound, ActivationSound
<1>4. slot(t) = s /\ inbox[s] = <<>> /\ carry[s] = <<>>
        /\ \A u \in Threads : ~(OnBox(u) /\ slot(u) = s)
  <2>1. CASE Opens(t, s)
    <3>1. life[s].phase = "constructing" /\ slot(t) = s
      BY <2>1 DEF Opens, Step
    <3>2. QED
      BY <1>1, <1>3, <3>1 DEF SlotSound, Active
  <2>2. CASE Ends(t, s)
    <3>1. life[s].phase = "idle" /\ slot(t) = s /\ Drained(s)
      BY <2>2 DEF Ends, Step
    <3>2. QED
      BY <1>3, <3>1 DEF Drained
  <2>3. CASE Advances(t, s)
    <3>1. slot(t) = s /\ Busy(t) /\ life'[s].phase \notin Active
      BY <2>3 DEF Advances, Active
    <3>2. life'[s].phase = "retired"
      BY <2>3, <3>1 DEF Advances, Active
    <3>3. Drained(s)
      BY <2>3, <3>2 DEF Advances
    <3>4. \A u \in Threads : ~(OnBox(u) /\ slot(u) = s)
      BY <1>2, <3>1, OneOnBox
    <3>5. QED
      BY <3>1, <3>3, <3>4 DEF Drained
  <2>4. ~Opens(t, s) /\ ~Ends(t, s) => Advances(t, s)
    BY <1>1 DEF LifeMoves, Keep, Begins, Fails, Marks, Wakens, Unpins, Claims, Frees, Step, Active
  <2>5. QED
    BY <2>1, <2>2, <2>3, <2>4
<1>5. Boxed(s) = <<>> \o Reverse(<<>>)
  BY <1>4, BoxLeft
<1>6. <<>> \o Reverse(<<>>) = <<>>
  <2>1. <<>> \in Seq(Nodes)
    OBVIOUS
  <2>2. Reverse(<<>>) = <<>>
    BY <2>1, DetachedTyped DEF Detached
  <2>3. QED
    BY <2>2
<1>7. QED
  BY <1>4, <1>5, <1>6

BoxesNow == [s \in Slots |-> Boxed(s)]
OpenNow == [s \in Slots |-> life[s].phase \in Active]

(* Boxes that are pointwise the same are the same.                         *)
LEMMA SameBoxes ==
    ASSUME \A s \in Slots : Boxed(s)' = Boxed(s)
    PROVE  BoxesNow' = BoxesNow
  BY DEF BoxesNow

(* If the same slots are active, the same boxes are open.                  *)
LEMMA SameOpen ==
    ASSUME \A s \in Slots : life'[s].phase \in Active <=> life[s].phase \in Active
    PROVE  OpenNow' = OpenNow
<1>1. \A s \in Slots : (life'[s].phase \in Active) = (life[s].phase \in Active)
  OBVIOUS
<1>2. QED
  BY <1>1 DEF OpenNow

(* Every step of a thread is a step of Mailbox or a stutter.               *)
LEMMA StepBoxes ==
    ASSUME Inv, NEW t \in Threads, ThreadNext(t)
    PROVE  \/ UNCHANGED <<BoxesNow, OpenNow>>
           \/ \E s \in Slots :
                 /\ OpenNow[s] /\ \E m \in Nodes : BoxesNow' = [BoxesNow EXCEPT ![s] = Append(@, m)]
                 /\ OpenNow' = OpenNow
           \/ \E s \in Slots :
                 /\ BoxesNow[s] # <<>> /\ BoxesNow' = [BoxesNow EXCEPT ![s] = Tail(@)]
                 /\ OpenNow' = OpenNow
           \/ \E s \in Slots :
                 /\ BoxesNow[s] = <<>> /\ OpenNow' = [OpenNow EXCEPT ![s] = ~@]
                 /\ BoxesNow' = BoxesNow
<1>0. PICK r \in Slots : r = slot(t)
  BY LocalsTyped
<1>1. Others(t) /\ Moves(t)
  BY StepMoves DEF Moves
<1>2. CASE PushInbox(t)
  <2>1. /\ life' = life /\ life[r].phase \in Active
        /\ \E m \in Nodes : \A s \in Slots :
              Boxed(s)' = IF s = r THEN Append(Boxed(s), m) ELSE Boxed(s)
    BY <1>0, <1>1, <1>2, PushBox
  <2>2. OpenNow' = OpenNow /\ OpenNow[r]
    BY <2>1 DEF OpenNow
  <2>3. PICK m \in Nodes : \A s \in Slots :
           Boxed(s)' = IF s = r THEN Append(Boxed(s), m) ELSE Boxed(s)
    BY <2>1
  <2>4. BoxesNow' = [BoxesNow EXCEPT ![r] = Append(@, m)]
    BY <2>3 DEF BoxesNow
  <2>5. QED
    BY <2>2, <2>4
<1>3. CASE Pop(t)
  <2>1. /\ life' = life /\ Boxed(r) # <<>>
        /\ \A s \in Slots : Boxed(s)' = IF s = r THEN Tail(Boxed(s)) ELSE Boxed(s)
    BY <1>0, <1>1, <1>3, PopBox
  <2>2. OpenNow' = OpenNow /\ BoxesNow[r] # <<>>
    BY <2>1 DEF OpenNow, BoxesNow
  <2>3. BoxesNow' = [BoxesNow EXCEPT ![r] = Tail(@)]
    BY <2>1 DEF BoxesNow
  <2>4. QED
    BY <2>2, <2>3
<1>4. CASE Build(t) \/ ClaimNode(t) \/ Run(t) \/ CompleteNode(t) \/ EndCallback(t)
  <2>1. ASSUME NEW s \in Slots
        PROVE  /\ Boxed(s)' = Boxed(s)
               /\ life'[s].phase \in Active <=> life[s].phase \in Active
    BY <1>1, <1>4, BuildBox, ClaimBox, RunBox, CompleteBox, EndBox
  <2>2. QED
    BY <2>1, SameBoxes, SameOpen
<1>5. CASE /\ ~Build(t) /\ ~ClaimNode(t) /\ ~PushInbox(t)
           /\ ~Run(t) /\ ~Pop(t) /\ ~CompleteNode(t) /\ ~EndCallback(t)
  <2>1. Still(t)
    BY <1>5, CallersStill, RunnersStill DEF ThreadNext
  <2>2. BoxesNow' = BoxesNow
    BY <1>1, <2>1, StillBox, SameBoxes
  <2>3. \A s \in Slots \ {r} : life'[s].phase \in Active <=> life[s].phase \in Active
    BY <1>0, <1>1, <2>1, SwitchedEmpty
  <2>4. CASE life'[r].phase \in Active <=> life[r].phase \in Active
    BY <2>2, <2>3, <2>4, SameOpen
  <2>5. CASE ~(life'[r].phase \in Active <=> life[r].phase \in Active)
    <3>1. BoxesNow[r] = <<>>
      BY <1>1, <2>1, <2>5, SwitchedEmpty DEF BoxesNow
    <3>2. \A s \in Slots :
             (life'[s].phase \in Active)
                = IF s = r THEN ~(life[s].phase \in Active) ELSE (life[s].phase \in Active)
      BY <2>3, <2>5
    <3>3. OpenNow' = [OpenNow EXCEPT ![r] = ~@]
      BY <3>2 DEF OpenNow
    <3>4. QED
      BY <2>2, <3>1, <3>3
  <2>6. QED
    BY <2>4, <2>5
<1>6. QED
  BY <1>2, <1>3, <1>4, <1>5

(* The initial state maps to Mailbox's initial state.                      *)
LEMMA InitBoxes == Init => Boxes!BoxInit
<1> SUFFICES ASSUME Init PROVE Boxes!BoxInit
  OBVIOUS
<1>1. /\ \A s \in Slots : inbox[s] = <<>> /\ carry[s] = <<>> /\ life[s].phase = "vacant"
      /\ \A t \in Threads : pc[t] = "idle"
  BY DEF Init, SlotInit, ThreadInit, NoWord, Word
<1>2. ASSUME NEW s \in Slots PROVE Boxed(s) = <<>>
  <2>1. <<>> \in Seq(Nodes)
    OBVIOUS
  <2>2. Reverse(<<>>) = <<>>
    BY <2>1, DetachedTyped DEF Detached
  <2>3. Boxed(s) = <<>> \o <<>>
    BY <1>1, <2>2, BoxLeft DEF OnBox
  <2>4. QED
    BY <2>3
<1>3. \A s \in Slots : (life[s].phase \in Active) = FALSE
  BY <1>1 DEF Active
<1>4. QED
  BY <1>2, <1>3 DEF Boxes!BoxInit

(* A stuttering step leaves what Mailbox sees.                             *)
LEMMA StutterBoxes == ASSUME UNCHANGED vars PROVE UNCHANGED <<BoxesNow, OpenNow>>
<1>1. UNCHANGED <<life, inbox, carry, pc, h, local>>
  BY DEF vars, slotVars, threadVars
<1>2. \A s \in Slots : Boxed(s)' = Boxed(s)
  BY <1>1 DEF Boxed, InCallback, At, slot
<1>3. QED
  BY <1>1, <1>2, SameBoxes DEF OpenNow

(* Every step of the runtime is a step of the boxes, or leaves them as     *)
(* they are.                                                               *)
LEMMA StepsMailbox ==
    ASSUME Inv, [Next]_vars
    PROVE  [Boxes!BoxNext]_<<BoxesNow, OpenNow>>
<1> DEFINE Moved == \/ UNCHANGED <<BoxesNow, OpenNow>>
                    \/ \E s \in Slots : Boxes!Deliver(s) \/ Boxes!Receive(s) \/ Boxes!Switch(s)
<1>1. ASSUME NEW t \in Threads, ThreadNext(t)
      PROVE  Moved
  BY <1>1, StepBoxes DEF Boxes!Deliver, Boxes!Receive, Boxes!Switch, BoxesNow, OpenNow
<1>2. CASE UNCHANGED vars
  BY <1>2, StutterBoxes
<1>3. QED
  BY <1>1, <1>2 DEF Next, Boxes!BoxNext

(* The inbox of an actor (sendActor, popInbox, what enter carries from one *)
(* activation to the next) hands out every accepted message once and in    *)
(* order, takes none in before it opens or after it retired, and retires   *)
(* only when none is left.                                                 *)
THEOREM InboxesImplementMailbox == Spec => ImplementsMailbox
<1>1. Init => Boxes!BoxInit
  BY InitBoxes
<1>2. Inv /\ [Next]_vars => [Boxes!BoxNext]_<<BoxesNow, OpenNow>>
  BY StepsMailbox
<1>3. QED
  BY <1>1, <1>2, LifecycleInductive, PTL DEF Spec, ImplementsMailbox, Boxes!BoxSpec, BoxesNow,
    OpenNow
=============================================================================
