------------------------------- MODULE Actors -------------------------------
(***************************************************************************)
(* One ActorRuntime with its callers, flushers, consumers and waves, and   *)
(* what the lifecycle word promises them.                                  *)
(***************************************************************************)
EXTENDS ActorRuns

Init == SlotInit /\ QueueInit /\ ThreadInit

ThreadNext(t) == CallerNext(t) \/ RunnerNext(t)
Next == \E t \in Threads : ThreadNext(t)

Spec == Init /\ [][Next]_vars

(* Fairness: a call that began goes on; the owner of the runtime keeps     *)
(* flushing and the Farm keeps accepting; consumers take what is           *)
(* published; a handler that keeps being called keeps popping.             *)
Callers(op) == {t \in Threads : op \in May[t]}

FairSpec ==
    /\ Spec
    /\ \A t \in Threads : WF_vars(pc[t] # "idle" /\ ThreadNext(t))
    /\ \A t \in Callers("flush") :
        /\ WF_vars(Flush(t))
        /\ SF_vars(WriteBodies(t) /\ farm' # farm)
    /\ \A t \in Callers("work") : SF_vars(Enter(t)) /\ SF_vars(Pop(t))

-----------------------------------------------------------------------------
(* Who works on a slot, and as what.                                       *)

Pushing(t) == pc[t] \in {"count", "link"}

Activating(t) ==
    \/ pc[t] \in {"entryGate", "entryInbox", "run", "retireNow", "requeue",
                  "callback", "process", "mark", "exit", "exitGate", "exitInbox", "leave"}
    \/ At(t, "close") /\ ret[t] = "exit"

InWave(t) == pc[t] \in {"waveCheck", "member", "operation", "waveBack"}

(* A send whose reservation was confirmed and is not released.             *)
Admitted(t) ==
    \/ pc[t] \in {"waveFree", "claimNode", "push"}
    \/ (Pushing(t) \/ At(t, "signal")) /\ ret[t] = "release"

(* A retirement that holds the owner-operation pin.                        *)
Pinning(t) ==
    \/ pc[t] \in {"drive", "driveGate", "driveJoin", "driveQueue", "publish", "unpin"}
    \/ At(t, "close") /\ ret[t] = "drive"
    \/ (Pushing(t) \/ At(t, "signal")) /\ ret[t] = "unpin"

(* The thread runs code of the application on the actor's state.           *)
InCallback(t) == pc[t] \in {"callback", "process", "operation"}

ThreadsOn(s, P(_)) == {t \in Threads : P(t) /\ slot(t) = s}
Times(q, s) == Cardinality({i \in DOMAIN q : q[i] = s})

(* What may make the actor of slot s run, now or later.                    *)
Activations(s) ==
    Times(ready, s) + Times(readyCarry, s)
    + Cardinality({x \in Threads \X (1 .. MaxFlush) :
          x[2] \in DOMAIN snap[x[1]] /\ snap[x[1]][x[2]] = s})
    + Cardinality({x \in (0 .. MaxGen) \X (1 .. 3) : x[2] <= farm[s][x[1]]})
    + Cardinality(ThreadsOn(s, Pushing)) + Cardinality(ThreadsOn(s, Activating))
    + Cardinality(ThreadsOn(s, InWave))

-----------------------------------------------------------------------------
(* Safety.                                                                 *)

(* A scheduled or running actor has exactly one activation, wherever it    *)
(* is: in the ready queue, a snapshot, the Farm, a consumer or a wave; any *)
(* other actor has none (enter, pushReady, takeReady, the wave calls).     *)
OneActivation ==
    \A s \in Slots :
        Activations(s) = IF life[s].phase \in {"scheduled", "running"} THEN 1 ELSE 0

(* No payload outlives its generation: the counter of stale activations    *)
(* stays zero, and what the Farm holds is for the present generation.      *)
NeverStale ==
    /\ stale = 0
    /\ \A s \in Slots, g \in 0 .. MaxGen : farm[s][g] > 0 => g = life[s].gen

(* A confirmed reservation, an owner's pin and a callback hold the         *)
(* generation: it neither ends nor is reclaimed under them, the state a    *)
(* callback works on is its own, and only one owner pins                   *)
(* (reserveSubmission, requestActorRetire, enter).                         *)
GenerationHeld ==
    /\ \A t \in Threads : Admitted(t) =>
          /\ life[slot(t)].gen = gen(t) /\ life[slot(t)].phase \in Active
          /\ gate[slot(t)].count > 0
    /\ \A t \in Threads : Pinning(t) =>
          life[slot(t)].gen = gen(t) /\ "op" \in life[slot(t)].flags
    /\ \A t \in Threads : InCallback(t) =>
          state[slot(t)] = gen(t) /\ life[slot(t)].gen = gen(t)
    /\ \A s \in Slots : Cardinality(ThreadsOn(s, Pinning)) <= 1

(* No fatal fires: an accepted send finds somebody to signal, a callback   *)
(* and a wave still own the lifecycle, a reservation is there when it is   *)
(* released, nodes popped are queued ones, reclaim finds an empty slot.    *)
ActorTripwires ==
    \A t \in Threads :
        /\ At(t, "signal") /\ ret[t] = "release" => Signals(t, TRUE)
        /\ At(t, "release") => gate[slot(t)].count > 0
        /\ pc[t] \in {"member", "leaveWave"} => waveOwner[slot(t)] = t
        /\ InWave(t) => life[slot(t)].gen = gen(t) /\ life[slot(t)].phase = "scheduled"
        /\ Activating(t) /\ pc[t] \in {"callback", "mark"} =>
              life[slot(t)].gen = gen(t) /\ life[slot(t)].phase = "running"
        /\ At(t, "callback") => \A i \in DOMAIN local[t] : nodeState[local[t][i]] = "queued"
        /\ At(t, "destroy") => Drained(slot(t))
        /\ At(t, "construct") => life[slot(t)].phase = "vacant"

(* The plain store of RETIRED overwrites nothing: no other thread can      *)
(* change the word between the recheck and the store, and nothing is left  *)
(* in the inbox (driveActorRetirement).                                    *)
StoreAlone ==
    \A t \in Threads : At(t, "publish") =>
        life[slot(t)] = seen[t] /\ Drained(slot(t))

(* No message is stranded: an idle actor's inbox is empty but for senders  *)
(* that have pushed and will still signal, and a retired actor's is empty  *)
(* for good, with no reservation left.                                     *)
NothingStranded ==
    \A s \in Slots :
        /\ life[s].phase = "idle" =>
              /\ carry[s] = <<>>
              /\ inbox[s] # <<>> => \E t \in Threads :
                    At(t, "signal") /\ slot(t) = s /\ gen(t) = life[s].gen
        /\ life[s].phase \in {"retired", "reclaiming"} => Drained(s)

(* A wake is kept: an actor never goes idle over a pending signal (the     *)
(* exit of enter, cancelActorWavePayload, dispatchActorWavePayload).       *)
WakesKept ==
    [][\A s \in Slots : "pending" \in life[s].flags => life'[s].phase # "idle"]_vars

(* The ready count is exact but for pushes under way, so a runtime that    *)
(* shows no occupied slot and no ready actor has no activation anywhere.   *)
ReadyCounted ==
    readyCount = Len(ready) + Len(readyCarry)
        + Cardinality({x \in Threads \X (1 .. MaxFlush) :
              At(x[1], "take") /\ x[2] \in DOMAIN snap[x[1]]})
        + Cardinality({t \in Threads : At(t, "link")})

-----------------------------------------------------------------------------
(* Refinement: the box of a slot is what its activation has popped last,   *)
(* then what it left, then what senders pushed; it is open from idle to    *)
(* retired.                                                                *)

Boxed(s) ==
    LET holders == {t \in Threads : InCallback(t) /\ slot(t) = s /\ ~At(t, "operation")}
    IN  (IF holders = {} THEN carry[s] ELSE local[CHOOSE t \in holders : TRUE])
          \o Reverse(inbox[s])

Boxes == INSTANCE Mailbox WITH
    Boxes <- Slots, Messages <- Nodes,
    box <- [s \in Slots |-> Boxed(s)],
    open <- [s \in Slots |-> life[s].phase \in Active]

(* The inbox keeps what Mailbox promises: every accepted message is handed *)
(* out once and in order, and an actor retires only when none is left.     *)
ImplementsMailbox == Boxes!BoxSpec

-----------------------------------------------------------------------------
(* Liveness.                                                               *)

(* Every accepted message is processed, whoever wakes, retires or uses the *)
(* actor in a wave meanwhile.                                              *)
MessagesProcessed ==
    \A n \in Nodes : nodeState[n] = "queued" ~> nodeState[n] # "queued"

(* Every requested retirement comes to an end.                             *)
RetirementEnds ==
    \A s \in Slots :
        "retire" \in life[s].flags ~> life[s].phase \notin Active
=============================================================================
