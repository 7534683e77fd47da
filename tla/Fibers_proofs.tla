---------------------------- MODULE Fibers_proofs ----------------------------
(***************************************************************************)
(* Theorems about a FiberDomain of any number of fibers, workers and       *)
(* posters: a live task is in one place, permits are conserved, a claimed  *)
(* wait is woken once, what ends a wait is never missed, and no unit lies  *)
(* there unheard of.                                                       *)
(***************************************************************************)
EXTENDS Fibers, FiniteSetTheorems, SequenceTheorems, WellFoundedInduction, TLAPS

-----------------------------------------------------------------------------
(* Where a task is.                                                        *)

Phases == {"ready", "running", "waiting", "terminating", "terminated"}
Stages == {"idle", "run", "suspend", "record", "terminate", "joiners"}

Words == [phase : Phases, park : {0, 1}, wake : Nat, enter : {0, 1}, cancel : Nat]

(* Control words with room for one PARK, lanes of at most one activation.  *)
WordsTyped ==
    /\ ctrl \in [Fibers -> Words]
    /\ lane \in [Fibers -> {0, 1}]
    /\ worker \in [Workers -> [at : Stages, task : Fibers \cup {None}]]

RootsTyped == roots \in Seq(Fibers)

Held(f) == \E w \in Workers : worker[w].task = f

(* No task has two workers, and only an idle worker has no task.           *)
OneWorker ==
    /\ \A v, w \in Workers : worker[v].task = worker[w].task => v = w \/ worker[v].task = None
    /\ \A w \in Workers :
          /\ worker[w].at = "idle" <=> worker[w].task = None
          /\ worker[w].at = "joiners" =>
                worker[w].task \in Fibers /\ ctrl[worker[w].task].phase = "terminated"

(* The three places exclude each other; only a ready task is in a lane.    *)
Apart ==
    \A f \in Fibers :
        /\ lane[f] = 1 => ctrl[f].park = 0 /\ ~Held(f) /\ ctrl[f].phase = "ready"
        /\ ctrl[f].park = 1 => ~Held(f) /\ ctrl[f].phase = "waiting"

(* A task is somewhere from its admission to its end.                      *)
Somewhere ==
    \A f \in Fibers :
        /\ f \notin Rooted => /\ lane[f] = 0 /\ ctrl[f].park = 0 /\ ~Held(f)
                              /\ ctrl[f].phase = "ready"
        /\ f \in Rooted /\ ctrl[f].phase # "terminated" =>
              lane[f] = 1 \/ ctrl[f].park = 1 \/ Held(f)

PlaceInv == WordsTyped /\ RootsTyped /\ OneWorker /\ Apart /\ Somewhere

placeVars == <<ctrl, lane, worker, roots>>

LEMMA PlaceUnchanged ==
    ASSUME PlaceInv, UNCHANGED placeVars
    PROVE  PlaceInv'
  BY DEF PlaceInv, WordsTyped, Words, RootsTyped, OneWorker, Apart, Somewhere, Held, Rooted, placeVars

(* The roots the domain starts with.                                       *)
LEMMA EarlyRoots == SetToSeq(Early) \in Seq(Fibers)
<1>1. IsFiniteSet(Early)
  BY FiberArgs, FS_Subset
<1>2. PICK n \in Nat : n = Cardinality(Early)
  BY <1>1, FS_CardinalityType
<1>3. \E s \in [1 .. n -> Early] : IsInjective(s)
  BY <1>1, <1>2, FS_CardinalityType DEF ExistsBijection, Bijection, Injection
<1>4. SetToSeq(Early) \in [1 .. n -> Early]
  BY <1>2, <1>3 DEF SetToSeq
<1>5. SetToSeq(Early) \in Seq(Early)
  BY <1>4
<1>6. QED
  BY <1>5, FiberArgs

LEMMA PlaceInit == ASSUME Init PROVE PlaceInv
<1>1. WordsTyped
  BY DEF Init, TaskInit, DomainInit, WordsTyped, Words, Unborn, Phases, Stages
<1>4. RootsTyped
  BY EarlyRoots DEF Init, DomainInit, RootsTyped
<1>2. OneWorker
  BY DEF Init, TaskInit, OneWorker
<1>3. \A f \in Fibers : ~Held(f) /\ ctrl[f].park = 0 /\ ctrl[f].phase = "ready"
                          /\ (lane[f] = IF f \in Rooted THEN 1 ELSE 0)
  BY FiberArgs DEF Init, TaskInit, DomainInit, Held, Unborn
<1>5. QED
  BY <1>1, <1>2, <1>3, <1>4 DEF PlaceInv, Apart, Somewhere

(* What a step of a body does to where tasks are: it changes its own phase *)
(* to one that has not ended, and may switch back to its worker.           *)
Phased(f) ==
    \/ ctrl' = ctrl
    \/ \E ph \in {"ready", "running", "waiting"} : ctrl' = [ctrl EXCEPT ![f].phase = ph]

LEMMA BodyEffect ==
    ASSUME NEW w \in Workers, NEW f \in Fibers, FiberStep(w, f)
    PROVE  /\ Runs(w, f) /\ lane' = lane /\ Phased(f)
           /\ worker' = worker \/ worker' = [worker EXCEPT ![w].at = "suspend"]
<1> USE DEF Keeps, Phased, Suspend, Fail
<1>1. CASE Body(w, f) \/ Throw(w, f) \/ YieldReady(w, f)
  BY <1>1 DEF Body, Throw, YieldReady
<1>2. CASE TryTake(w, f) \/ Poll(w, f) \/ Armable(w, f)
  BY <1>2 DEF TryTake, Take1, Poll, Armable, OnlyCode
<1>3. CASE Arm(w, f)
  BY <1>3 DEF Arm
<1>4. CASE Link(w, f) \/ Retake(w, f) \/ Register(w, f)
  BY <1>4 DEF Link, Retake, Register, GoOn
<1>5. CASE ArmTimer(w, f) \/ Withdraw(w, f)
  BY <1>5 DEF ArmTimer, Withdraw
<1>6. CASE Woke(w, f) \/ TimerFailed(w, f) \/ PassOn(w, f) \/ Keep(w, f) \/ Refund(w, f)
  BY <1>6 DEF Woke, TimerFailed, PassOn, Keep, GivesBack, Refund
<1>7. QED
  BY <1>1, <1>2, <1>3, <1>4, <1>5, <1>6 DEF FiberStep

LEMMA PlaceBody ==
    ASSUME PlaceInv, NEW w \in Workers, NEW f \in Fibers, FiberStep(w, f), roots' = roots
    PROVE  PlaceInv'
<1>1. /\ worker[w].at = "run" /\ worker[w].task = f /\ lane' = lane /\ Phased(f)
      /\ worker' = worker \/ worker' = [worker EXCEPT ![w].at = "suspend"]
  BY BodyEffect DEF Runs
<1>2. WordsTyped'
  <2>1. ctrl' \in [Fibers -> Words]
    <3>1. CASE ctrl' = ctrl
      BY <3>1 DEF PlaceInv, WordsTyped, Words
    <3>2. ASSUME NEW ph \in {"ready", "running", "waiting"},
                 ctrl' = [ctrl EXCEPT ![f].phase = ph]
          PROVE  ctrl' \in [Fibers -> Words]
      BY <3>2 DEF PlaceInv, WordsTyped, Words, Phases
    <3>3. QED
      BY <1>1, <3>1, <3>2 DEF Phased
  <2>2. worker' \in [Workers -> [at : Stages, task : Fibers \cup {None}]]
    BY <1>1 DEF PlaceInv, WordsTyped, Words, Stages
  <2>3. QED
    BY <1>1, <2>1, <2>2 DEF PlaceInv, WordsTyped, Words
<1>3. \A v \in Workers : worker'[v].task = worker[v].task
  BY <1>1 DEF PlaceInv, WordsTyped, Words
<1>4. \A v \in Workers : worker'[v].at # worker[v].at => v = w /\ worker'[v].at = "suspend"
  BY <1>1 DEF PlaceInv, WordsTyped, Words
<1>5. \A g \in Fibers : ctrl'[g].park = ctrl[g].park /\ (g # f => ctrl'[g] = ctrl[g])
  BY <1>1 DEF PlaceInv, WordsTyped, Words, Phased
<1>6. \A g \in Fibers : Held(g)' <=> Held(g)
  BY <1>3 DEF Held
<1>7. Held(f) /\ f # None
  BY <1>1, FiberArgs DEF Held
<1>8. OneWorker'
  <2>1. ASSUME NEW v \in Workers, worker'[v].at = "joiners"
        PROVE  worker'[v].task \in Fibers /\ ctrl'[worker'[v].task].phase = "terminated"
    <3>1. worker[v].at = "joiners" /\ worker[v].task \in Fibers
          /\ ctrl[worker[v].task].phase = "terminated"
      BY <1>4, <2>1 DEF PlaceInv, OneWorker
    <3>2. v # w /\ worker[v].task # f
      BY <3>1, <1>1, <1>7 DEF PlaceInv, OneWorker
    <3>3. QED
      BY <3>1, <3>2, <1>3, <1>5
  <2>2. \A v \in Workers : worker'[v].at = "idle" <=> worker'[v].task = None
    BY <1>1, <1>3, <1>4, <1>7 DEF PlaceInv, OneWorker
  <2>3. QED
    BY <2>1, <2>2, <1>3 DEF PlaceInv, OneWorker
<1>9. Apart'
  BY <1>1, <1>5, <1>6, <1>7 DEF PlaceInv, Apart
<1>10. Rooted' = Rooted
  BY DEF Rooted
<1>11. Somewhere'
  BY <1>1, <1>5, <1>6, <1>7, <1>10 DEF PlaceInv, Somewhere
<1>12. QED
  BY <1>2, <1>8, <1>9, <1>11 DEF PlaceInv, RootsTyped

(* Putting a task that is parked, or that its worker just left, into its   *)
(* lane.                                                                   *)
LEMMA PlacePublish ==
    ASSUME PlaceInv, NEW f \in Fibers, Publish(f), roots' = roots,
           worker' \in [Workers -> [at : Stages, task : Fibers \cup {None}]], OneWorker',
           \A g \in Fibers : g # f => (Held(g)' <=> Held(g)),
           ~Held(f)', lane[f] = 0, f \in Rooted
    PROVE  PlaceInv'
<1>1. WordsTyped'
  <2>1. ctrl' \in [Fibers -> Words]
    <3>1. ctrl \in [Fibers -> Words]
      BY DEF PlaceInv, WordsTyped
    <3>2. ctrl' = [ctrl EXCEPT ![f] = [ctrl[f] EXCEPT !.phase = "ready", !.park = 0, !.wake = 0]]
      BY <3>1 DEF Publish
    <3>3. [ctrl[f] EXCEPT !.phase = "ready", !.park = 0, !.wake = 0] \in Words
      <4>1. PICK c \in Words : c = ctrl[f]
        BY <3>1
      <4>2. [c EXCEPT !.phase = "ready"] \in Words
        BY DEF Words, Phases
      <4>3. \A d \in Words : [d EXCEPT !.park = 0] \in Words /\ [d EXCEPT !.wake = 0] \in Words
        BY DEF Words
      <4>4. QED
        BY <4>1, <4>2, <4>3
    <3>4. QED
      BY <3>1, <3>2, <3>3
  <2>2. lane' \in [Fibers -> {0, 1}]
    BY DEF PlaceInv, WordsTyped, Publish
  <2>3. QED
    BY <2>1, <2>2 DEF WordsTyped
<1>2. /\ ctrl'[f].phase = "ready" /\ ctrl'[f].park = 0 /\ lane'[f] = 1
      /\ \A g \in Fibers : g # f => ctrl'[g] = ctrl[g] /\ lane'[g] = lane[g]
  <2>1. /\ ctrl' = [ctrl EXCEPT ![f].phase = "ready", ![f].park = 0, ![f].wake = 0]
        /\ lane' = [lane EXCEPT ![f] = @ + 1]
    BY DEF Publish
  <2>2. ctrl'[f].phase = "ready" /\ ctrl'[f].park = 0
    BY <2>1 DEF PlaceInv, WordsTyped, Words
  <2>3. \A g \in Fibers : g # f => ctrl'[g] = ctrl[g]
    BY <2>1 DEF PlaceInv, WordsTyped, Words
  <2>4. lane'[f] = 1 /\ \A g \in Fibers : g # f => lane'[g] = lane[g]
    BY <2>1 DEF PlaceInv, WordsTyped, Words
  <2>5. QED
    BY <2>2, <2>3, <2>4
<1>3. Rooted' = Rooted
  BY DEF Rooted
<1>4. Apart' /\ Somewhere'
  BY <1>2, <1>3 DEF PlaceInv, Apart, Somewhere
<1>5. QED
  BY <1>1, <1>4 DEF PlaceInv, RootsTyped

(* Who joins or leaves no place, and ends no task.                         *)
LEMMA PlaceCounters ==
    ASSUME PlaceInv, WordsTyped', UNCHANGED <<lane, worker, roots>>,
           \A g \in Fibers : ctrl'[g].park = ctrl[g].park /\ ctrl'[g].phase = ctrl[g].phase
    PROVE  PlaceInv'
  BY DEF PlaceInv, RootsTyped, OneWorker, Apart, Somewhere, Held, Rooted

LEMMA PlaceDeliver ==
    ASSUME PlaceInv, NEW t \in Threads, Deliver(t), roots' = roots
    PROVE  PlaceInv'
<1>1. worker' = worker /\ \A g \in Fibers : Held(g)' <=> Held(g)
  BY DEF Deliver, Held
<1>0. PICK f : f = Head(waker[t].owed)
  OBVIOUS
<1>2. CASE f \notin Fibers
  <2>1. ctrl' = ctrl /\ lane' = lane
    <3>1. Publish(f) \/ (ctrl' = [ctrl EXCEPT ![f].wake = @ + 1] /\ lane' = lane)
      BY <1>0 DEF Deliver
    <3>2. QED
      BY <1>2, <3>1 DEF PlaceInv, WordsTyped, Words, Publish
  <2>2. QED
    BY <1>1, <2>1, PlaceUnchanged DEF placeVars
<1>3. CASE f \in Fibers /\ Meets(ctrl[f], "park")
  <2>1. ctrl[f].park = 1
    BY <1>3 DEF PlaceInv, WordsTyped, Words, Meets
  <2>2. lane[f] = 0 /\ ~Held(f) /\ f \in Rooted
    BY <1>3, <2>1 DEF PlaceInv, WordsTyped, Words, Apart, Somewhere
  <2>3. Publish(f)
    BY <1>0, <1>3 DEF Deliver
  <2>4. OneWorker'
    <3>1. \A w \in Workers : worker[w].task # f
      BY <2>2 DEF Held
    <3>2. \A g \in Fibers : g # f => ctrl'[g] = ctrl[g]
      BY <2>3 DEF Publish, PlaceInv, WordsTyped, Words
    <3>3. QED
      BY <1>1, <3>1, <3>2 DEF PlaceInv, OneWorker
  <2>5. QED
    BY <1>1, <1>3, <2>2, <2>3, <2>4, PlacePublish DEF PlaceInv, WordsTyped, Words
<1>4. CASE f \in Fibers /\ ~Meets(ctrl[f], "park")
  <2>1. ctrl' = [ctrl EXCEPT ![f].wake = @ + 1] /\ lane' = lane
    BY <1>0, <1>4 DEF Deliver
  <2>2. WordsTyped'
    BY <1>1, <1>4, <2>1 DEF PlaceInv, WordsTyped, Words
  <2>3. \A g \in Fibers : ctrl'[g].park = ctrl[g].park /\ ctrl'[g].phase = ctrl[g].phase
    BY <2>1 DEF PlaceInv, WordsTyped, Words
  <2>4. QED
    BY <1>1, <2>1, <2>2, <2>3, PlaceCounters
<1>5. QED
  BY <1>2, <1>3, <1>4

LEMMA PlaceAddCancel ==
    ASSUME PlaceInv, AddCancel
    PROVE  PlaceInv'
<1> DEFINE f == cancel.task
<1>1. ctrl' = [ctrl EXCEPT ![f].cancel = @ + 1] /\ UNCHANGED <<lane, worker, roots>>
  BY DEF AddCancel, OnlyCancel
<1>2. WordsTyped'
  <2>1. CASE f \in Fibers
    BY <1>1, <2>1 DEF PlaceInv, WordsTyped, Words
  <2>2. CASE f \notin Fibers
    BY <1>1, <2>2 DEF PlaceInv, WordsTyped, Words
  <2>3. QED
    BY <2>1, <2>2
<1>3. \A g \in Fibers : ctrl'[g].park = ctrl[g].park /\ ctrl'[g].phase = ctrl[g].phase
  BY <1>1 DEF PlaceInv, WordsTyped, Words
<1>4. QED
  BY <1>1, <1>2, <1>3, PlaceCounters

LEMMA PlaceSpawn ==
    ASSUME PlaceInv, NEW f \in Fibers, Spawn(f)
    PROVE  PlaceInv'
<1>1. /\ f \notin Rooted /\ roots' = Append(roots, f) /\ lane' = [lane EXCEPT ![f] = @ + 1]
      /\ UNCHANGED <<ctrl, worker>>
  BY DEF Spawn
<1>2. lane[f] = 0 /\ ctrl[f].park = 0 /\ ~Held(f) /\ ctrl[f].phase = "ready"
  BY <1>1 DEF PlaceInv, Somewhere
<1>3. WordsTyped' /\ OneWorker'
  BY <1>1, <1>2 DEF PlaceInv, WordsTyped, Words, OneWorker
<1>4. \A g \in Fibers : Held(g)' <=> Held(g)
  BY <1>1 DEF Held
<1>5. lane'[f] = 1 /\ \A g \in Fibers : g # f => lane'[g] = lane[g]
  BY <1>1, <1>2 DEF PlaceInv, WordsTyped, Words
<1>6. RootsTyped' /\ f \in Rooted' /\ \A g \in Fibers : g # f => (g \in Rooted' <=> g \in Rooted)
  BY <1>1 DEF PlaceInv, RootsTyped, Rooted
<1>7. QED
  BY <1>1, <1>2, <1>3, <1>4, <1>5, <1>6 DEF PlaceInv, Apart, Somewhere

LEMMA PlaceResume ==
    ASSUME PlaceInv, NEW w \in Workers, Resume(w), roots' = roots
    PROVE  PlaceInv'
<1>1. PICK f \in Fibers :
         /\ lane[f] > 0 /\ lane' = [lane EXCEPT ![f] = @ - 1]
         /\ \/ ctrl[f].phase # "ready" /\ UNCHANGED <<ctrl, worker>>
            \/ \E ph \in {"running", "terminating"}, at \in {"run", "record"} :
                  /\ ctrl' = [ctrl EXCEPT ![f].phase = ph, ![f].enter = 1]
                  /\ worker' = [worker EXCEPT ![w] = [at |-> at, task |-> f]]
  BY DEF Resume
<1>2. worker[w].task = None /\ f # None
  BY FiberArgs DEF Resume, PlaceInv, OneWorker
<1>3. lane[f] = 1 /\ ctrl[f].park = 0 /\ ~Held(f) /\ ctrl[f].phase = "ready" /\ f \in Rooted
  BY <1>1 DEF PlaceInv, WordsTyped, Apart, Somewhere
<1>4. PICK ph \in {"running", "terminating"}, at \in {"run", "record"} :
         /\ ctrl' = [ctrl EXCEPT ![f].phase = ph, ![f].enter = 1]
         /\ worker' = [worker EXCEPT ![w] = [at |-> at, task |-> f]]
  BY <1>1, <1>3
<1>5. WordsTyped'
  <2>1. ctrl' \in [Fibers -> Words]
    <3>1. PICK c \in Words : c = ctrl[f]
      BY DEF PlaceInv, WordsTyped
    <3>2. [c EXCEPT !.phase = ph, !.enter = 1] \in Words
      BY DEF Words, Phases
    <3>3. QED
      BY <1>4, <3>1, <3>2 DEF PlaceInv, WordsTyped
  <2>2. lane' \in [Fibers -> {0, 1}]
    BY <1>1, <1>3 DEF PlaceInv, WordsTyped
  <2>3. worker' \in [Workers -> [at : Stages, task : Fibers \cup {None}]]
    BY <1>4 DEF PlaceInv, WordsTyped, Stages
  <2>4. QED
    BY <2>1, <2>2, <2>3 DEF WordsTyped
<1>6. /\ worker'[w].task = f /\ worker'[w].at = at
      /\ \A v \in Workers : v # w => worker'[v] = worker[v]
  BY <1>4 DEF PlaceInv, WordsTyped
<1>7. /\ ctrl'[f].phase = ph /\ ctrl'[f].park = 0
      /\ \A g \in Fibers : g # f => ctrl'[g] = ctrl[g]
  BY <1>3, <1>4 DEF PlaceInv, WordsTyped, Words
<1>8. lane'[f] = 0 /\ \A g \in Fibers : g # f => lane'[g] = lane[g]
  BY <1>1, <1>3 DEF PlaceInv, WordsTyped
<1>9. Held(f)' /\ \A g \in Fibers : g # f => (Held(g)' <=> Held(g))
  BY <1>2, <1>6, FiberArgs DEF Held
<1>10. OneWorker'
  <2>1. \A v \in Workers : v # w => worker[v].task # f
    BY <1>3 DEF Held
  <2>2. QED
    BY <1>2, <1>6, <1>7, <2>1 DEF PlaceInv, OneWorker
<1>11. Rooted' = Rooted /\ RootsTyped'
  BY DEF Rooted, PlaceInv, RootsTyped
<1>12. Apart' /\ Somewhere'
  BY <1>3, <1>7, <1>8, <1>9, <1>11 DEF PlaceInv, Apart, Somewhere
<1>13. QED
  BY <1>5, <1>10, <1>11, <1>12 DEF PlaceInv

(* A worker that leaves a task which is in no place any more has left it   *)
(* to a lane, parked or terminated.                                        *)
LEMMA LeaveEffect ==
    ASSUME PlaceInv, NEW w \in Workers, Leave(w)
    PROVE  /\ worker' \in [Workers -> [at : Stages, task : Fibers \cup {None}]]
           /\ worker'[w] = [at |-> "idle", task |-> None]
           /\ \A v \in Workers : v # w => worker'[v] = worker[v]
           /\ \A g \in Fibers : g # worker[w].task => (Held(g)' <=> Held(g))
           /\ worker[w].task \in Fibers =>
                 \A v \in Workers : worker'[v].task # worker[w].task
<1>1. worker' \in [Workers -> [at : Stages, task : Fibers \cup {None}]]
  BY DEF Leave, PlaceInv, WordsTyped, Stages
<1>2. worker'[w] = [at |-> "idle", task |-> None] /\ \A v \in Workers : v # w => worker'[v] = worker[v]
  BY DEF Leave, PlaceInv, WordsTyped
<1>3. \A g \in Fibers : g # worker[w].task => (Held(g)' <=> Held(g))
  BY <1>2, FiberArgs DEF Held
<1>4. ASSUME worker[w].task \in Fibers, NEW v \in Workers
      PROVE  worker'[v].task # worker[w].task
  BY <1>2, <1>4, FiberArgs DEF PlaceInv, OneWorker
<1>5. QED
  BY <1>1, <1>2, <1>3, <1>4

LEMMA PlaceWakeJoiners ==
    ASSUME PlaceInv, NEW w \in Workers, WakeJoiners(w), roots' = roots
    PROVE  PlaceInv'
<1>1. Leave(w) /\ UNCHANGED <<ctrl, lane>> /\ worker[w].at = "joiners"
  BY DEF WakeJoiners
<1>2. PICK f \in Fibers : f = worker[w].task
  BY <1>1 DEF PlaceInv, OneWorker
<1>3. ctrl[f].phase = "terminated" /\ Held(f)
  BY <1>1, <1>2 DEF PlaceInv, OneWorker, Held
<1>4. WordsTyped' /\ OneWorker'
  BY <1>1, LeaveEffect DEF PlaceInv, WordsTyped, OneWorker
<1>5. ~Held(f)' /\ \A g \in Fibers : g # f => (Held(g)' <=> Held(g))
  BY <1>1, <1>2, LeaveEffect DEF Held
<1>6. Rooted' = Rooted /\ RootsTyped'
  BY DEF Rooted, PlaceInv, RootsTyped
<1>7. Apart' /\ Somewhere'
  BY <1>1, <1>3, <1>5, <1>6 DEF PlaceInv, Apart, Somewhere
<1>8. QED
  BY <1>4, <1>6, <1>7 DEF PlaceInv

LEMMA PlaceSuspended ==
    ASSUME PlaceInv, NEW w \in Workers, Suspended(w), roots' = roots
    PROVE  PlaceInv'
<1>1. PICK f \in Fibers : f = worker[w].task
  BY DEF Suspended, PlaceInv, WordsTyped, OneWorker
<1>2. Held(f) /\ lane[f] = 0 /\ ctrl[f].park = 0 /\ f \in Rooted
  BY <1>1 DEF PlaceInv, WordsTyped, Words, Apart, Somewhere, Held
<1>3. Rooted' = Rooted /\ RootsTyped'
  BY DEF Rooted, PlaceInv, RootsTyped
<1>4. ASSUME Leave(w)
      PROVE  /\ worker' \in [Workers -> [at : Stages, task : Fibers \cup {None}]]
             /\ ~Held(f)' /\ \A g \in Fibers : g # f => (Held(g)' <=> Held(g))
             /\ \A v \in Workers : v # w => worker'[v] = worker[v]
             /\ worker'[w] = [at |-> "idle", task |-> None]
             /\ \A v \in Workers : worker'[v].task # f
  BY <1>1, <1>4, LeaveEffect DEF Held
<1>5. ASSUME Leave(w), \A g \in Fibers : g # f => ctrl'[g] = ctrl[g]
      PROVE  OneWorker'
  BY <1>4, <1>5 DEF PlaceInv, OneWorker
<1>6. CASE ctrl[f].phase = "ready" /\ Leave(w) /\ lane' = [lane EXCEPT ![f] = @ + 1] /\ ctrl' = ctrl
  <2>1. WordsTyped' /\ lane'[f] = 1 /\ \A g \in Fibers : g # f => lane'[g] = lane[g]
    BY <1>2, <1>4, <1>6 DEF PlaceInv, WordsTyped
  <2>2. Apart' /\ Somewhere'
    BY <1>2, <1>3, <1>4, <1>6, <2>1 DEF PlaceInv, Apart, Somewhere
  <2>3. QED
    BY <1>3, <1>5, <1>6, <2>1, <2>2 DEF PlaceInv
<1>7. CASE ctrl[f].phase = "waiting" /\ Leave(w) /\ Publish(f)
  <2>1. \A g \in Fibers : g # f => ctrl'[g] = ctrl[g]
    BY <1>7 DEF Publish, PlaceInv, WordsTyped
  <2>2. QED
    BY <1>2, <1>4, <1>5, <1>7, <2>1, PlacePublish
<1>8. CASE /\ ctrl[f].phase = "waiting" /\ Leave(w)
           /\ ctrl' = [ctrl EXCEPT ![f].park = @ + 1] /\ lane' = lane
  <2>1. ctrl' \in [Fibers -> Words]
    BY SMTT(30), <1>2, <1>8 DEF PlaceInv, WordsTyped, Words
  <2>2. WordsTyped'
    BY <1>4, <1>8, <2>1 DEF PlaceInv, WordsTyped
  <2>3. /\ ctrl'[f].park = 1 /\ ctrl'[f].phase = "waiting"
        /\ \A g \in Fibers : g # f => ctrl'[g] = ctrl[g]
    BY <1>2, <1>8 DEF PlaceInv, WordsTyped, Words
  <2>4. Apart' /\ Somewhere'
    BY <1>2, <1>3, <1>4, <1>8, <2>3 DEF PlaceInv, Apart, Somewhere
  <2>5. QED
    BY <1>3, <1>5, <1>8, <2>2, <2>3, <2>4 DEF PlaceInv
<1>9. ASSUME NEW at \in {"record", "terminate"}, ctrl[f].phase = "running", lane' = lane,
             ctrl' = [ctrl EXCEPT ![f].phase = "terminating"],
             worker' = [worker EXCEPT ![w].at = at], worker[w].at = "suspend"
      PROVE  PlaceInv'
  <2>1. WordsTyped'
    <3>1. ctrl' \in [Fibers -> Words]
      BY <1>9 DEF PlaceInv, WordsTyped, Words, Phases
    <3>2. worker' \in [Workers -> [at : Stages, task : Fibers \cup {None}]]
      BY <1>9 DEF PlaceInv, WordsTyped, Stages
    <3>3. QED
      BY <1>9, <3>1, <3>2 DEF PlaceInv, WordsTyped
  <2>2. /\ ctrl'[f].park = 0 /\ ctrl'[f].phase = "terminating"
        /\ \A g \in Fibers : g # f => ctrl'[g] = ctrl[g]
    BY <1>2, <1>9 DEF PlaceInv, WordsTyped, Words
  <2>3. /\ worker'[w].task = f /\ worker'[w].at = at
        /\ \A v \in Workers : v # w => worker'[v] = worker[v]
    BY <1>1, <1>9 DEF PlaceInv, WordsTyped
  <2>4. \A g \in Fibers : Held(g)' <=> Held(g)
    BY <1>1, <2>3 DEF Held
  <2>5. \A v \in Workers : v # w => worker[v].task # f
    BY <1>1, FiberArgs DEF PlaceInv, OneWorker
  <2>6. OneWorker'
    BY <1>1, <2>2, <2>3, <2>5, FiberArgs DEF PlaceInv, OneWorker
  <2>7. Apart' /\ Somewhere'
    BY <1>2, <1>3, <1>9, <2>2, <2>4 DEF PlaceInv, Apart, Somewhere
  <2>8. QED
    BY <1>3, <2>1, <2>6, <2>7 DEF PlaceInv
<1>10. QED
  BY <1>1, <1>6, <1>7, <1>8, <1>9 DEF Suspended

LEMMA PlaceTerminate ==
    ASSUME PlaceInv, NEW w \in Workers, Terminate(w), roots' = roots
    PROVE  PlaceInv'
<1>1. PICK f \in Fibers : f = worker[w].task
  BY DEF Terminate, PlaceInv, WordsTyped, OneWorker
<1>2. Held(f) /\ lane[f] = 0 /\ ctrl[f].park = 0 /\ f \in Rooted
  BY <1>1 DEF PlaceInv, WordsTyped, Words, Apart, Somewhere, Held
<1>3. /\ ctrl' = [ctrl EXCEPT ![f].phase = "terminated"] /\ lane' = lane
      /\ worker' = [worker EXCEPT ![w].at = "joiners"]
  BY <1>1 DEF Terminate
<1>4. WordsTyped'
  <2>1. ctrl' \in [Fibers -> Words]
    BY <1>3 DEF PlaceInv, WordsTyped, Words, Phases
  <2>2. worker' \in [Workers -> [at : Stages, task : Fibers \cup {None}]]
    BY <1>3 DEF PlaceInv, WordsTyped, Stages
  <2>3. QED
    BY <1>3, <2>1, <2>2 DEF PlaceInv, WordsTyped
<1>5. /\ ctrl'[f].park = 0 /\ ctrl'[f].phase = "terminated"
      /\ \A g \in Fibers : g # f => ctrl'[g] = ctrl[g]
  BY <1>2, <1>3 DEF PlaceInv, WordsTyped, Words
<1>6. /\ worker'[w].task = f /\ worker'[w].at = "joiners"
      /\ \A v \in Workers : v # w => worker'[v] = worker[v]
  BY <1>1, <1>3 DEF PlaceInv, WordsTyped
<1>7. \A g \in Fibers : Held(g)' <=> Held(g)
  BY <1>1, <1>6 DEF Held
<1>8. \A v \in Workers : v # w => worker[v].task # f
  BY <1>1, FiberArgs DEF PlaceInv, OneWorker
<1>9. OneWorker'
  BY <1>1, <1>5, <1>6, <1>8, FiberArgs DEF PlaceInv, OneWorker
<1>10. Rooted' = Rooted /\ RootsTyped'
  BY DEF Rooted, PlaceInv, RootsTyped
<1>11. Apart' /\ Somewhere'
  BY <1>2, <1>3, <1>5, <1>7, <1>10 DEF PlaceInv, Apart, Somewhere
<1>12. QED
  BY <1>4, <1>9, <1>10, <1>11 DEF PlaceInv

-----------------------------------------------------------------------------
LEMMA PlaceStep == ASSUME PlaceInv, [Next]_vars PROVE PlaceInv'
<1>1. CASE UNCHANGED vars
  BY <1>1, PlaceUnchanged DEF vars, taskVars, domainVars, placeVars
<1>2. CASE TaskStep /\ UNCHANGED <<unit, domainVars>>
  BY <1>2, PlaceDeliver, PlaceResume, PlaceSuspended, PlaceTerminate, PlaceWakeJoiners
     DEF TaskStep, domainVars
<1>3. CASE WaitStep /\ UNCHANGED domainVars
  <2>1. CASE \E w \in Workers, f \in Fibers : FiberStep(w, f)
    BY <1>3, <2>1, PlaceBody DEF domainVars
  <2>2. CASE \/ \E f \in Fibers : Drain(f)
             \/ \E t \in Threads : ClaimFront(t)
             \/ \E p \in Posters : Post(p) \/ Reset(p)
    BY <1>3, <2>2, PlaceUnchanged
       DEF Drain, ClaimFront, Post, Reset, taskVars, domainVars, placeVars
  <2>3. QED
    BY <1>3, <2>1, <2>2 DEF WaitStep
<1>4. CASE TimerStep
  BY <1>4, PlaceUnchanged DEF TimerStep, Expire, TimeOut, ClaimWait, placeVars
<1>5. CASE ApplierStep
  <2>1. CASE AddCancel
    BY <2>1, PlaceAddCancel
  <2>2. CASE BeginShutdown \/ NextTask \/ Accept \/ CancelWait \/ \E f \in Fibers : Request(f)
    BY <2>2, PlaceUnchanged
       DEF BeginShutdown, NextTask, Accept, CancelWait, Request, OnlyCancel, ClaimWait,
           taskVars, placeVars
  <2>3. QED
    BY <1>5, <2>1, <2>2 DEF ApplierStep
<1>6. CASE \E f \in Fibers : Spawn(f)
  BY <1>6, PlaceSpawn
<1>7. QED
  BY <1>1, <1>2, <1>3, <1>4, <1>5, <1>6 DEF Next

(* The three places exclude each other and a live task has one.            *)
LEMMA PlaceGivesOne == ASSUME PlaceInv PROVE OnePlace
<1> SUFFICES ASSUME NEW f \in Live PROVE Places(f) = 1
  BY DEF OnePlace
<1> DEFINE H == {w \in Workers : worker[w].task = f}
<1>1. f \in Fibers /\ f # None /\ f \in Rooted
  BY FiberArgs DEF Live, Rooted, PlaceInv, RootsTyped
<1>2. CASE Held(f)
  <2>1. \E w : H = {w}
    BY <1>1, <1>2 DEF Held, PlaceInv, OneWorker
  <2>2. Cardinality(H) = 1
    BY <2>1, FS_Singleton
  <2>3. lane[f] = 0 /\ ctrl[f].park = 0
    BY <1>1, <1>2 DEF PlaceInv, WordsTyped, Words, Apart
  <2>4. QED
    BY <2>2, <2>3 DEF Places
<1>3. CASE ~Held(f)
  <2>1. H = {}
    BY <1>3 DEF Held
  <2>2. Cardinality(H) = 0
    BY <2>1, FS_EmptySet
  <2>3. lane[f] + ctrl[f].park = 1
    BY <1>1, <1>3 DEF Live, Held, PlaceInv, WordsTyped, Words, Apart, Somewhere
  <2>4. QED
    BY <1>1, <2>2, <2>3 DEF Places, PlaceInv, WordsTyped, Words
<1>4. QED
  BY <1>2, <1>3

(* Whatever wakes, times out or cancels whom, a live task has one          *)
(* activation in a lane, or one worker, or is parked: it is neither        *)
(* resumed twice nor lost (publishParkedWaiter, resume, finishTerminal).   *)
THEOREM LiveTaskInOnePlace == Spec => []OnePlace
<1>1. Init => PlaceInv
  BY PlaceInit
<1>2. PlaceInv /\ [Next]_vars => PlaceInv'
  BY PlaceStep
<1>3. PlaceInv => OnePlace
  BY PlaceGivesOne
<1>4. QED
  BY <1>1, <1>2, <1>3, PTL DEF Spec

-----------------------------------------------------------------------------
(* The permits of a semaphore.                                             *)

AnyOp == {NoOp} \cup UNION {Does[f] : f \in Fibers}
Reasons == {None, "throw", "taken", "poll", "failed"}
Spots == Reasons \cup {"body", "yield", "take", "last", "check", "armed", "withdraw", "link",
                       "register", "retake", "timer", "parked", "taken", "refund",
                       "passOn", "done"}
Codes == [at : Spots, op : AnyOp, next : Reasons, turns : Nat]
Owners(Q) == [kind : Kinds, units : Nat, queue : Q, given : Nat, granted : Nat,
              spent : BOOLEAN, posts : Nat]

BodiesTyped == code \in [Fibers -> Codes] /\ \E Q : unit \in Owners(Q)

PermitInv == BodiesTyped /\ PermitsKept

LEMMA HoldingFinite == IsFiniteSet(Holding) /\ Cardinality(Holding) \in Nat
<1>1. Holding \in SUBSET Fibers
  BY DEF Holding
<1>2. QED
  BY <1>1, FiberArgs, FS_Subset, FS_CardinalityType

LEMMA PermitInit == ASSUME Init PROVE PermitInv
<1>1. code \in [Fibers -> Codes]
  <2>1. NoOp \in AnyOp
    BY DEF AnyOp
  <2>2. Fresh \in Codes
    BY <2>1 DEF Fresh, Codes, Spots, Reasons
  <2>3. QED
    BY <2>2 DEF Init, TaskInit
<1>2. PICK k \in Kinds :
         unit = [kind |-> k, units |-> 0, queue |-> <<>>, given |-> 0, granted |-> 0,
                 spent |-> FALSE, posts |-> 0]
  BY DEF Init, WaitInit
<1>3. unit \in Owners({<<>>})
  BY <1>2 DEF Owners
<1>4. Holding = {}
  BY DEF Holding, InHand, Init, TaskInit, Fresh
<1>5. Cardinality(Holding) = 0
  BY <1>4, FS_EmptySet
<1>6. PermitsKept
  BY <1>2, <1>5 DEF PermitsKept
<1>7. QED
  BY <1>1, <1>3, <1>6 DEF PermitInv, BodiesTyped

LEMMA PermitUnchanged ==
    ASSUME PermitInv, UNCHANGED <<code, unit>>
    PROVE  PermitInv'
  BY DEF PermitInv, BodiesTyped, PermitsKept, Holding, InHand

(* What a fiber has in its hand counts as one permit.                      *)
Hand(f) == IF InHand(f) THEN 1 ELSE 0

(* One fiber moves a permit between its hand, the owner and those returned.*)
LEMMA PermitBalance ==
    ASSUME PermitInv, BodiesTyped', NEW f \in Fibers,
           \A g \in Fibers : g # f => (InHand(g)' <=> InHand(g)),
           unit'.kind = unit.kind, unit'.given = unit.given,
           unit.kind = "semaphore" =>
               unit'.units + unit'.granted + Hand(f)' = unit.units + unit.granted + Hand(f)
    PROVE  PermitInv'
<1>1. unit.units \in Nat /\ unit.granted \in Nat /\ unit'.units \in Nat /\ unit'.granted \in Nat
  BY DEF PermitInv, BodiesTyped, Owners
<1>2. PICK n \in Nat : n = Cardinality(Holding \ {f})
  <2>1. IsFiniteSet(Holding \ {f})
    BY HoldingFinite, FS_RemoveElement
  <2>2. QED
    BY <2>1, FS_CardinalityType
<1>3. Cardinality(Holding) = n + Hand(f)
  <2>1. f \in Holding <=> InHand(f)
    BY DEF Holding
  <2>2. n = IF f \in Holding THEN Cardinality(Holding) - 1 ELSE Cardinality(Holding)
    BY <1>2, HoldingFinite, FS_RemoveElement
  <2>3. QED
    BY <2>1, <2>2, HoldingFinite DEF Hand
<1>4. Holding' \ {f} = Holding \ {f}
  BY DEF Holding
<1>5. IsFiniteSet(Holding')
  <2>1. Holding' \in SUBSET Fibers
    BY DEF Holding
  <2>2. QED
    BY <2>1, FiberArgs, FS_Subset
<1>6. Cardinality(Holding') = n + Hand(f)'
  <2>1. f \in Holding' <=> InHand(f)'
    BY DEF Holding
  <2>2. n = IF f \in Holding' THEN Cardinality(Holding') - 1 ELSE Cardinality(Holding')
    BY <1>2, <1>4, <1>5, FS_RemoveElement
  <2>3. Cardinality(Holding') \in Nat
    BY <1>5, FS_CardinalityType
  <2>4. QED
    BY <2>1, <2>2, <2>3 DEF Hand
<1>7. PermitsKept'
  <2>1. Hand(f) \in {0, 1} /\ Hand(f)' \in {0, 1}
    BY DEF Hand
  <2>2. QED
    BY <1>1, <1>3, <1>6, <2>1 DEF PermitInv, PermitsKept
<1>8. QED
  BY <1>7 DEF PermitInv

LEMMA CodeUpdates ==
    ASSUME NEW c \in Codes
    PROVE  /\ \A p \in Spots : /\ [c EXCEPT !.at = p] \in Codes /\ [c EXCEPT !.at = p].at = p
                               /\ [c EXCEPT !.at = p].next = c.next
           /\ \A r \in Reasons : /\ [c EXCEPT !.next = r] \in Codes
                                 /\ [c EXCEPT !.next = r].next = r
                                 /\ [c EXCEPT !.next = r].at = c.at
           /\ \A o \in AnyOp : /\ [c EXCEPT !.op = o] \in Codes
                               /\ [c EXCEPT !.op = o].at = c.at
                               /\ [c EXCEPT !.op = o].next = c.next
           /\ \A n \in Nat : /\ [c EXCEPT !.turns = n] \in Codes
                             /\ [c EXCEPT !.turns = n].at = c.at
                             /\ [c EXCEPT !.turns = n].next = c.next
  BY DEF Codes

(* Where a body goes, and what it withdraws a wait for.                    *)
LEMMA GotoEffect ==
    ASSUME code \in [Fibers -> Codes], NEW f \in Fibers, NEW place \in Spots, Goto(f, place)
    PROVE  /\ code' \in [Fibers -> Codes] /\ code'[f].at = place /\ code'[f].next = None
           /\ \A g \in Fibers : g # f => code'[g] = code[g]
<1>1. PICK c \in Codes : c = code[f]
  OBVIOUS
<1>2. PICK o \in AnyOp : o = IF place \in {"body", "throw", "done"} THEN NoOp ELSE c.op
  BY DEF Codes, AnyOp
<1>3. code' = [code EXCEPT ![f] = [c EXCEPT !.at = place, !.next = None, !.op = o]]
  BY <1>1, <1>2 DEF Goto
<1> DEFINE c1 == [c EXCEPT !.at = place]
           c2 == [c1 EXCEPT !.next = None]
           c3 == [c2 EXCEPT !.op = o]
<1>4. code' = [code EXCEPT ![f] = c3]
  BY <1>3
<1>5. c1 \in Codes /\ c1.at = place
  BY CodeUpdates
<1>6. c2 \in Codes /\ c2.at = place /\ c2.next = None
  <2> None \in Reasons
    BY DEF Reasons
  <2> HIDE DEF c1
  <2> QED
    BY <1>5, CodeUpdates
<1>7. c3 \in Codes /\ c3.at = place /\ c3.next = None
  <2> HIDE DEF c2
  <2> QED
    BY <1>6, CodeUpdates
<1>8. QED
  <2> HIDE DEF c3
  <2> QED
    BY <1>4, <1>7

LEMMA BackoutEffect ==
    ASSUME code \in [Fibers -> Codes], NEW f \in Fibers, NEW why \in Reasons, Backout(f, why)
    PROVE  /\ code' \in [Fibers -> Codes] /\ code'[f].at = "withdraw" /\ code'[f].next = why
           /\ \A g \in Fibers : g # f => code'[g] = code[g]
<1>1. PICK c \in Codes : c = code[f]
  OBVIOUS
<1>2. code' = [code EXCEPT ![f] = [c EXCEPT !.at = "withdraw", !.next = why]]
  BY <1>1 DEF Backout
<1> DEFINE c1 == [c EXCEPT !.at = "withdraw"]
           c2 == [c1 EXCEPT !.next = why]
<1>3. code' = [code EXCEPT ![f] = c2]
  BY <1>2
<1>4. c1 \in Codes /\ c1.at = "withdraw"
  <2> "withdraw" \in Spots
    BY DEF Spots
  <2> QED
    BY CodeUpdates
<1>5. c2 \in Codes /\ c2.at = "withdraw" /\ c2.next = why
  <2> HIDE DEF c1
  <2> QED
    BY <1>4, CodeUpdates
<1>6. QED
  <2> HIDE DEF c2
  <2> QED
    BY <1>3, <1>5

LEMMA BodyCode ==
    ASSUME code \in [Fibers -> Codes], NEW f \in Fibers, NEW o \in Does[f],
           code' = [code EXCEPT ![f] = [@ EXCEPT !.at = First[o.kind], !.op = o,
                                                 !.turns = code[f].turns + 1]]
    PROVE  /\ code' \in [Fibers -> Codes] /\ code'[f].at \in {"take", "poll", "yield"}
           /\ \A g \in Fibers : g # f => code'[g] = code[g]
<1>1. PICK c \in Codes : c = code[f]
  OBVIOUS
<1>2. PICK place \in {"take", "poll", "yield"} : place = First[o.kind]
  BY FiberArgs DEF First
<1>3. o \in AnyOp /\ c.turns + 1 \in Nat /\ place \in Spots
  <2>1. o \in AnyOp
    BY DEF AnyOp
  <2>2. c.turns \in Nat
    BY DEF Codes
  <2>3. QED
    BY <2>1, <2>2 DEF Spots, Reasons
<1> DEFINE c1 == [c EXCEPT !.at = place]
           c2 == [c1 EXCEPT !.op = o]
           c3 == [c2 EXCEPT !.turns = c.turns + 1]
<1>4. code' = [code EXCEPT ![f] = c3]
  BY <1>1, <1>2
<1>5. c1 \in Codes /\ c1.at = place
  BY <1>3, CodeUpdates
<1>6. c2 \in Codes /\ c2.at = place
  <2> HIDE DEF c1
  <2> QED
    BY <1>3, <1>5, CodeUpdates
<1>7. c3 \in Codes /\ c3.at = place
  <2> HIDE DEF c2
  <2> QED
    BY <1>3, <1>6, CodeUpdates
<1>8. QED
  <2> HIDE DEF c3
  <2> QED
    BY <1>4, <1>7

(* What the fields of an owner become.                                     *)
Moves(u, v, units, given, granted) ==
    /\ v.kind = u.kind /\ v.units = units /\ v.given = given /\ v.granted = granted
    /\ \E Q : v \in Owners(Q)

LEMMA OwnerUpdates ==
    ASSUME NEW Q, NEW u \in Owners(Q)
    PROVE  /\ \A n \in Nat : Moves(u, [u EXCEPT !.units = n], n, u.given, u.granted)
           /\ \A n \in Nat : Moves(u, [u EXCEPT !.given = n], u.units, n, u.granted)
           /\ \A n \in Nat : Moves(u, [u EXCEPT !.granted = n], u.units, u.given, n)
           /\ \A n \in Nat : Moves(u, [u EXCEPT !.posts = n], u.units, u.given, u.granted)
           /\ \A b \in BOOLEAN : Moves(u, [u EXCEPT !.spent = b], u.units, u.given, u.granted)
           /\ \A q : Moves(u, [u EXCEPT !.queue = q], u.units, u.given, u.granted)
<1>1. ASSUME NEW n \in Nat PROVE Moves(u, [u EXCEPT !.units = n], n, u.given, u.granted)
  <2>1. [u EXCEPT !.units = n] \in Owners(Q)
    BY DEF Owners
  <2>2. QED
    BY <2>1 DEF Moves, Owners
<1>2. ASSUME NEW n \in Nat PROVE Moves(u, [u EXCEPT !.given = n], u.units, n, u.granted)
  <2>1. [u EXCEPT !.given = n] \in Owners(Q)
    BY DEF Owners
  <2>2. QED
    BY <2>1 DEF Moves, Owners
<1>3. ASSUME NEW n \in Nat PROVE Moves(u, [u EXCEPT !.granted = n], u.units, u.given, n)
  <2>1. [u EXCEPT !.granted = n] \in Owners(Q)
    BY DEF Owners
  <2>2. QED
    BY <2>1 DEF Moves, Owners
<1>4. ASSUME NEW n \in Nat PROVE Moves(u, [u EXCEPT !.posts = n], u.units, u.given, u.granted)
  <2>1. [u EXCEPT !.posts = n] \in Owners(Q)
    BY DEF Owners
  <2>2. QED
    BY <2>1 DEF Moves, Owners
<1>5. ASSUME NEW b \in BOOLEAN
      PROVE  Moves(u, [u EXCEPT !.spent = b], u.units, u.given, u.granted)
  <2>1. [u EXCEPT !.spent = b] \in Owners(Q)
    BY DEF Owners
  <2>2. QED
    BY <2>1 DEF Moves, Owners
<1>6. ASSUME NEW q PROVE Moves(u, [u EXCEPT !.queue = q], u.units, u.given, u.granted)
  <2>1. [u EXCEPT !.queue = q] \in Owners(Q \cup {q})
    BY DEF Owners
  <2>2. QED
    BY <2>1 DEF Moves, Owners
<1>7. QED
  BY <1>1, <1>2, <1>3, <1>4, <1>5, <1>6

LEMMA OwnerPairs ==
    ASSUME NEW Q, NEW u \in Owners(Q), NEW n \in Nat, NEW m \in Nat, NEW k \in Nat, NEW q
    PROVE  /\ Moves(u, [u EXCEPT !.units = n, !.granted = m], n, u.given, m)
           /\ Moves(u, [u EXCEPT !.queue = q, !.granted = m], u.units, u.given, m)
           /\ Moves(u, [u EXCEPT !.units = n, !.given = m, !.posts = k], n, m, u.granted)
<1> DEFINE a == [u EXCEPT !.units = n]
           b == [u EXCEPT !.queue = q]
           d == [a EXCEPT !.given = m]
<1>1. Moves(u, a, n, u.given, u.granted) /\ Moves(u, b, u.units, u.given, u.granted)
  BY OwnerUpdates
<1>2. Moves(a, [a EXCEPT !.granted = m], a.units, a.given, m)
  <2> HIDE DEF a
  <2> QED
    BY <1>1, OwnerUpdates DEF Moves
<1>3. Moves(b, [b EXCEPT !.granted = m], b.units, b.given, m)
  <2> HIDE DEF b
  <2> QED
    BY <1>1, OwnerUpdates DEF Moves
<1>4. Moves(a, d, a.units, m, a.granted)
  <2> HIDE DEF a
  <2> QED
    BY <1>1, OwnerUpdates DEF Moves
<1>5. Moves(d, [d EXCEPT !.posts = k], d.units, d.given, d.granted)
  <2> HIDE DEF d
  <2> QED
    BY <1>4, OwnerUpdates DEF Moves
<1>6. Moves(u, [a EXCEPT !.granted = m], n, u.given, m)
  <2> HIDE DEF a
  <2> QED
    BY <1>1, <1>2 DEF Moves
<1>7. Moves(u, [b EXCEPT !.granted = m], u.units, u.given, m)
  <2> HIDE DEF b
  <2> QED
    BY <1>1, <1>3 DEF Moves
<1>8. Moves(u, [d EXCEPT !.posts = k], n, m, u.granted)
  <2>1. Moves(u, d, n, m, u.granted)
    <3> HIDE DEF a, d
    <3> QED
      BY <1>1, <1>4 DEF Moves
  <2> HIDE DEF d
  <2> QED
    BY <1>5, <2>1 DEF Moves
<1>9. QED
  BY <1>6, <1>7, <1>8

LEMMA PermitMove ==
    ASSUME PermitInv, NEW f \in Fibers, NEW n \in Nat, NEW m \in Nat,
           code' \in [Fibers -> Codes], \A g \in Fibers : g # f => code'[g] = code[g],
           Moves(unit, unit', n, unit.given, m),
           unit.kind = "semaphore" => n + m + Hand(f)' = unit.units + unit.granted + Hand(f)
    PROVE  PermitInv'
<1>1. BodiesTyped'
  BY DEF BodiesTyped, Moves
<1>2. \A g \in Fibers : g # f => (InHand(g)' <=> InHand(g))
  BY DEF InHand
<1>3. unit'.kind = unit.kind /\ unit'.given = unit.given /\ unit'.units = n /\ unit'.granted = m
  BY DEF Moves
<1>4. QED
  BY <1>1, <1>2, <1>3, PermitBalance

LEMMA PermitGoto ==
    ASSUME PermitInv, NEW f \in Fibers, NEW place \in Spots, Goto(f, place),
           NEW n \in Nat, NEW m \in Nat, Moves(unit, unit', n, unit.given, m),
           unit.kind = "semaphore" =>
               n + m + (IF place \in {"taken", "refund"} THEN 1 ELSE 0)
                   = unit.units + unit.granted + Hand(f)
    PROVE  PermitInv'
<1>1. /\ code' \in [Fibers -> Codes] /\ code'[f].at = place /\ code'[f].next = None
      /\ \A g \in Fibers : g # f => code'[g] = code[g]
  BY GotoEffect DEF PermitInv, BodiesTyped
<1>2. Hand(f)' = IF place \in {"taken", "refund"} THEN 1 ELSE 0
  BY <1>1 DEF Hand, InHand, None
<1>3. QED
  BY <1>1, <1>2, PermitMove

LEMMA PermitBackout ==
    ASSUME PermitInv, NEW f \in Fibers, NEW why \in Reasons, Backout(f, why),
           NEW n \in Nat, NEW m \in Nat, Moves(unit, unit', n, unit.given, m),
           unit.kind = "semaphore" =>
               n + m + (IF why = "taken" THEN 1 ELSE 0) = unit.units + unit.granted + Hand(f)
    PROVE  PermitInv'
<1>1. /\ code' \in [Fibers -> Codes] /\ code'[f].at = "withdraw" /\ code'[f].next = why
      /\ \A g \in Fibers : g # f => code'[g] = code[g]
  BY BackoutEffect DEF PermitInv, BodiesTyped
<1>2. Hand(f)' = IF why = "taken" THEN 1 ELSE 0
  BY <1>1 DEF Hand, InHand
<1>3. QED
  BY <1>1, <1>2, PermitMove

(* A step with an empty hand that leaves the units where they are.         *)
Still == Moves(unit, unit', unit.units, unit.given, unit.granted)

LEMMA UnitTyped ==
    ASSUME PermitInv
    PROVE  /\ unit.units \in Nat /\ unit.given \in Nat /\ unit.granted \in Nat /\ unit.posts \in Nat
           /\ \E Q : unit \in Owners(Q)
  BY DEF PermitInv, BodiesTyped, Owners

LEMMA UnitStill ==
    ASSUME PermitInv
    PROVE  /\ unit' = unit => Still
           /\ \A q : unit' = [unit EXCEPT !.queue = q] => Still
           /\ \A b \in BOOLEAN : unit' = [unit EXCEPT !.spent = b] => Still
<1>1. PICK Q : unit \in Owners(Q)
  BY UnitTyped
<1>2. unit' = unit => Still
  BY <1>1 DEF Still, Moves
<1>3. ASSUME NEW q, unit' = [unit EXCEPT !.queue = q] PROVE Still
  BY <1>1, <1>3, OwnerUpdates DEF Still
<1>4. ASSUME NEW b \in BOOLEAN, unit' = [unit EXCEPT !.spent = b] PROVE Still
  BY <1>1, <1>4, OwnerUpdates DEF Still
<1>5. QED
  BY <1>2, <1>3, <1>4

LEMMA EmptyHanded ==
    ASSUME PermitInv, NEW f \in Fibers, Still, Hand(f) = 0,
           \/ \E place \in Spots \ {"taken", "refund"} : Goto(f, place)
           \/ \E why \in Reasons \ {"taken"} : Backout(f, why)
    PROVE  PermitInv'
<1>1. unit.units \in Nat /\ unit.granted \in Nat
  BY UnitTyped
<1>2. ASSUME NEW place \in Spots \ {"taken", "refund"}, Goto(f, place) PROVE PermitInv'
  BY <1>1, <1>2, PermitGoto DEF Still
<1>3. ASSUME NEW why \in Reasons \ {"taken"}, Backout(f, why) PROVE PermitInv'
  BY <1>1, <1>3, PermitBackout DEF Still
<1>4. QED
  BY <1>2, <1>3

LEMMA PermitFiber ==
    ASSUME PermitInv, NEW w \in Workers, NEW f \in Fibers, FiberStep(w, f)
    PROVE  PermitInv'
<1>1. unit.units \in Nat /\ unit.granted \in Nat /\ \E Q : unit \in Owners(Q)
  BY UnitTyped
<1>2. ASSUME NEW place, At(f, place), place \notin {"taken", "refund", "withdraw"}
      PROVE  Hand(f) = 0
  BY <1>2 DEF At, Hand, InHand
<1>3. "body" \in Spots /\ "throw" \in Spots /\ "done" \in Spots /\ "parked" \in Spots
  BY DEF Spots, Reasons
<1>4. CASE Body(w, f)
  <2>1. Hand(f) = 0 /\ Still
    BY <1>2, <1>4, UnitStill DEF Body
  <2>2. CASE Goto(f, "done")
    BY <1>3, <2>1, <2>2, EmptyHanded
  <2>3. ASSUME NEW o \in Does[f],
               code' = [code EXCEPT ![f] = [@ EXCEPT !.at = First[o.kind], !.op = o,
                                                     !.turns = code[f].turns + 1]]
        PROVE  PermitInv'
    <3>1. /\ code' \in [Fibers -> Codes] /\ code'[f].at \in {"take", "poll", "yield"}
          /\ \A g \in Fibers : g # f => code'[g] = code[g]
      BY <2>3, BodyCode DEF PermitInv, BodiesTyped
    <3>2. Hand(f)' = 0
      BY <3>1 DEF Hand, InHand
    <3>3. QED
      BY <1>1, <2>1, <3>1, <3>2, PermitMove DEF Still
  <2>4. QED
    BY <1>4, <2>2, <2>3 DEF Body
<1>5. CASE Throw(w, f) \/ YieldReady(w, f)
  <2>1. Hand(f) = 0 /\ Still
    BY <1>2, <1>5, UnitStill DEF Throw, YieldReady
  <2>2. QED
    BY <1>3, <1>5, <2>1, EmptyHanded DEF Throw, YieldReady, Fail
<1>6. ASSUME NEW place \in {"take", "last"}, NEW missed \in {"check", "body"},
             Take1(w, f, place, "body", missed)
      PROVE  PermitInv'
  <2>1. Hand(f) = 0
    BY <1>2, <1>6 DEF Take1
  <2>2. CASE Available /\ Goto(f, "body")
             /\ unit' = [unit EXCEPT !.units = UnitsAfterTake,
                                     !.granted = IF "body" = "body" THEN @ + 1 ELSE @]
    <3>1. unit' = [unit EXCEPT !.units = unit.units - 1, !.granted = unit.granted + 1]
      BY <2>2 DEF UnitsAfterTake
    <3>2. unit.units - 1 \in Nat /\ unit.granted + 1 \in Nat
      BY <1>1, <2>2 DEF Available
    <3>3. Moves(unit, unit', unit.units - 1, unit.given, unit.granted + 1)
      BY <1>1, <3>1, <3>2, OwnerPairs
    <3>4. QED
      BY <1>1, <1>3, <2>1, <2>2, <3>2, <3>3, PermitGoto
  <2>3. CASE ~Available /\ Goto(f, missed) /\ UNCHANGED unit
    <3>1. missed \in Spots \ {"taken", "refund"}
      BY DEF Spots
    <3>2. QED
      BY <2>1, <2>3, <3>1, UnitStill, EmptyHanded
  <2>4. QED
    BY <1>6, <2>2, <2>3 DEF Take1
<1>7. CASE TryTake(w, f)
  BY <1>6, <1>7 DEF TryTake
<1>8. CASE Poll(w, f) \/ Arm(w, f)
  <2>1. Hand(f) = 0 /\ Still
    BY <1>2, <1>8, UnitStill DEF Poll, Arm, OnlyCode
  <2>2. "check" \in Spots /\ "armed" \in Spots
    BY DEF Spots
  <2>3. QED
    BY <1>3, <1>8, <2>1, <2>2, EmptyHanded DEF Poll, Arm, Fail
<1>9. CASE Armable(w, f)
  <2>1. Hand(f) = 0 /\ Still
    BY <1>2, <1>9, UnitStill DEF Armable, OnlyCode
  <2>2. "link" \in Spots /\ "register" \in Spots /\ "throw" \in Reasons
    BY DEF Spots, Reasons
  <2>3. QED
    BY <1>9, <2>1, <2>2, EmptyHanded DEF Armable
<1>10. CASE Link(w, f)
  <2>1. Hand(f) = 0
    BY <1>2, <1>10 DEF Link
  <2>2. Still
    BY <1>10, UnitStill DEF Link
  <2>3. "retake" \in Spots
    BY DEF Spots
  <2>4. QED
    BY <1>10, <2>1, <2>2, <2>3, EmptyHanded DEF Link
<1>11. CASE Retake(w, f)
  <2>1. Hand(f) = 0
    BY <1>2, <1>11 DEF Retake
  <2>2. CASE Available /\ Backout(f, "taken") /\ unit' = [unit EXCEPT !.units = UnitsAfterTake]
    <3>1. unit.units - 1 \in Nat
      BY <1>1, <2>2 DEF Available
    <3>2. Moves(unit, unit', unit.units - 1, unit.given, unit.granted)
      BY <1>1, <2>2, <3>1, OwnerUpdates DEF UnitsAfterTake
    <3>3. "taken" \in Reasons
      BY DEF Reasons
    <3>4. QED
      BY <1>1, <2>1, <2>2, <3>1, <3>2, <3>3, PermitBackout
  <2>3. CASE GoOn(w, f) /\ UNCHANGED unit
    <3>1. "timer" \in Spots
      BY DEF Spots
    <3>2. QED
      BY <1>3, <2>1, <2>3, <3>1, UnitStill, EmptyHanded DEF GoOn
  <2>4. QED
    BY <1>11, <2>2, <2>3 DEF Retake
<1>12. CASE Register(w, f) \/ ArmTimer(w, f)
  <2>1. Hand(f) = 0 /\ Still
    BY <1>2, <1>12, UnitStill DEF Register, ArmTimer
  <2>2. "timer" \in Spots /\ "poll" \in Reasons /\ "failed" \in Reasons
    BY DEF Spots, Reasons
  <2>3. QED
    BY <1>3, <1>12, <2>1, <2>2, EmptyHanded DEF Register, ArmTimer, GoOn
<1>13. CASE Withdraw(w, f)
  <2>1. PICK c \in Codes : c = code[f]
    BY DEF PermitInv, BodiesTyped
  <2>2. c.next \in Reasons /\ c.next \in Spots /\ c.next # "refund" /\ c.at = "withdraw"
    BY <1>13, <2>1 DEF Codes, Spots, Reasons, None, Withdraw, At
  <2>3. Hand(f) = IF c.next = "taken" THEN 1 ELSE 0
    BY <2>1, <2>2 DEF Hand, InHand
  <2>4. Still
    <3>1. PICK b \in BOOLEAN : b = (unit.spent \/ (code[f].next = "taken" /\ word[f].cause = "signalled"))
      BY <1>1 DEF Owners
    <3>2. unit' = [unit EXCEPT !.spent = b]
      BY <1>13, <3>1 DEF Withdraw
    <3>3. QED
      BY <3>2, UnitStill
  <2>5. Goto(f, c.next)
    BY <1>13, <2>1 DEF Withdraw
  <2>6. QED
    BY <1>1, <2>2, <2>3, <2>4, <2>5, PermitGoto DEF Still
<1>14. CASE Woke(w, f) \/ TimerFailed(w, f)
  <2>1. Hand(f) = 0
    BY <1>2, <1>14 DEF Woke, TimerFailed
  <2>2. Still
    BY <1>14, UnitStill DEF Woke, TimerFailed, Unlink
  <2>3. "last" \in Spots /\ "take" \in Spots /\ "poll" \in Spots /\ "passOn" \in Spots
    BY DEF Spots, Reasons
  <2>4. \E place \in Spots \ {"taken", "refund"} : Goto(f, place)
    BY <1>3, <1>14, <2>3 DEF Woke, TimerFailed, Fail
  <2>5. QED
    BY <2>1, <2>2, <2>4, EmptyHanded
<1>15. CASE PassOn(w, f)
  <2>1. Hand(f) = 0 /\ Still
    BY <1>2, <1>15, UnitStill DEF PassOn
  <2>2. QED
    BY <1>3, <1>15, <2>1, EmptyHanded DEF PassOn
<1>16. CASE Keep(w, f)
  <2>1. Hand(f) = 1
    BY <1>16 DEF Keep, GivesBack, At, Hand, InHand
  <2>2. CASE Cancelled(f)
    <3>1. Goto(f, "refund") /\ unit' = [unit EXCEPT !.queue = Without(f), !.granted = unit.granted]
      BY <1>16, <2>2 DEF Keep, GivesBack
    <3>2. Still
      BY <1>1, <3>1, OwnerPairs DEF Still
    <3>3. "refund" \in Spots
      BY DEF Spots
    <3>4. QED
      BY <1>1, <2>1, <3>1, <3>2, <3>3, PermitGoto DEF Still
  <2>3. CASE ~Cancelled(f)
    <3>1. Goto(f, "body") /\ unit' = [unit EXCEPT !.queue = Without(f), !.granted = unit.granted + 1]
      BY <1>16, <2>3 DEF Keep, GivesBack
    <3>2. Moves(unit, unit', unit.units, unit.given, unit.granted + 1)
      <4>1. unit.granted + 1 \in Nat
        BY <1>1
      <4>2. QED
        BY <1>1, <3>1, <4>1, OwnerPairs
    <3>3. QED
      BY <1>1, <1>3, <2>1, <3>1, <3>2, PermitGoto
  <2>4. QED
    BY <2>2, <2>3
<1>17. CASE Refund(w, f)
  <2>1. Hand(f) = 1
    BY <1>17 DEF Refund, At, Hand, InHand
  <2>2. PICK n \in Nat : n = UnitsAfterPost(1) /\ (unit.kind = "semaphore" => n = unit.units + 1)
    BY <1>1 DEF UnitsAfterPost
  <2>3. Moves(unit, unit', n, unit.given, unit.granted)
    BY <1>1, <1>17, <2>2, OwnerUpdates DEF Refund
  <2>4. QED
    BY <1>1, <1>3, <1>17, <2>1, <2>2, <2>3, PermitGoto DEF Refund
<1>18. QED
  BY <1>4, <1>5, <1>7, <1>8, <1>9, <1>10, <1>11, <1>12, <1>13, <1>14, <1>15, <1>16, <1>17
     DEF FiberStep

LEMMA PermitOwner ==
    ASSUME PermitInv, code' = code,
           \/ \E t \in Threads : ClaimFront(t)
           \/ \E p \in Posters : Post(p) \/ Reset(p)
    PROVE  PermitInv'
<1>1. /\ unit.units \in Nat /\ unit.given \in Nat /\ unit.granted \in Nat /\ unit.posts \in Nat
      /\ \E Q : unit \in Owners(Q)
  BY UnitTyped
<1>2. Cardinality(Holding)' = Cardinality(Holding) /\ Cardinality(Holding) \in Nat
  BY HoldingFinite DEF Holding, InHand
<1>3. ASSUME NEW u \in Nat, NEW g \in Nat, Moves(unit, unit', u, g, unit.granted),
             unit.kind = "semaphore" => g - u = unit.given - unit.units
      PROVE  PermitInv'
  <2>1. BodiesTyped'
    BY <1>3 DEF PermitInv, BodiesTyped, Moves
  <2>2. PermitsKept'
    <3>1. unit'.kind = unit.kind /\ unit'.units = u /\ unit'.given = g /\ unit'.granted = unit.granted
      BY <1>3 DEF Moves
    <3>2. PermitsKept' <=> (unit.kind = "semaphore" => g = u + unit.granted + Cardinality(Holding))
      BY <1>2, <3>1 DEF PermitsKept
    <3>3. unit.kind = "semaphore" =>
             unit.given = unit.units + unit.granted + Cardinality(Holding)
      BY DEF PermitInv, PermitsKept
    <3>4. QED
      BY <1>1, <1>2, <1>3, <3>2, <3>3
  <2>3. QED
    BY <2>1, <2>2 DEF PermitInv
<1>4. ASSUME NEW t \in Threads, ClaimFront(t) PROVE PermitInv'
  <2>1. Still
    BY <1>4, UnitStill DEF ClaimFront
  <2>2. QED
    BY <1>1, <1>3, <2>1 DEF Still
<1>5. ASSUME NEW p \in Posters, Post(p) PROVE PermitInv'
  <2>1. PICK n \in 1 .. 2 :
           unit' = [unit EXCEPT !.units = UnitsAfterPost(n), !.given = unit.given + n,
                                !.posts = unit.posts + 1]
    BY <1>5 DEF Post
  <2>2. PICK u \in Nat : u = UnitsAfterPost(n) /\ (unit.kind = "semaphore" => u = unit.units + n)
    BY <1>1 DEF UnitsAfterPost
  <2>3. unit.given + n \in Nat /\ unit.posts + 1 \in Nat
    BY <1>1
  <2>4. Moves(unit, unit', u, unit.given + n, unit.granted)
    BY <1>1, <2>1, <2>2, <2>3, OwnerPairs
  <2>5. QED
    BY <1>1, <1>3, <2>2, <2>3, <2>4
<1>6. ASSUME NEW p \in Posters, Reset(p) PROVE PermitInv'
  <2>1. unit' = [unit EXCEPT !.units = 0] /\ unit.kind = "event"
    BY <1>6 DEF Reset
  <2>2. Moves(unit, unit', 0, unit.given, unit.granted)
    BY <1>1, <2>1, OwnerUpdates
  <2>3. QED
    BY <1>1, <1>3, <2>1, <2>2
<1>7. QED
  BY <1>4, <1>5, <1>6

LEMMA PermitStep == ASSUME PermitInv, [Next]_vars PROVE PermitInv'
<1>1. CASE UNCHANGED vars
  BY <1>1, PermitUnchanged DEF vars, taskVars
<1>2. CASE TaskStep /\ UNCHANGED <<unit, domainVars>>
  BY <1>2, PermitUnchanged
     DEF TaskStep, Deliver, Resume, Suspended, Terminate, WakeJoiners
<1>3. CASE WaitStep /\ UNCHANGED domainVars
  <2>1. CASE \E w \in Workers, f \in Fibers : FiberStep(w, f)
    BY <2>1, PermitFiber
  <2>2. CASE \E f \in Fibers : Drain(f)
    BY <2>2, PermitUnchanged DEF Drain
  <2>3. CASE \/ \E t \in Threads : ClaimFront(t)
             \/ \E p \in Posters : Post(p) \/ Reset(p)
    <3>1. code' = code
      BY <2>3 DEF ClaimFront, Post, Reset, taskVars
    <3>2. QED
      BY <2>3, <3>1, PermitOwner
  <2>4. QED
    BY <1>3, <2>1, <2>2, <2>3 DEF WaitStep
<1>4. CASE TimerStep
  BY <1>4, PermitUnchanged DEF TimerStep, Expire, TimeOut, ClaimWait
<1>5. CASE ApplierStep
  BY <1>5, PermitUnchanged
     DEF ApplierStep, BeginShutdown, NextTask, AddCancel, Accept, CancelWait, Request,
         OnlyCancel, ClaimWait, taskVars
<1>6. CASE \E f \in Fibers : Spawn(f)
  BY <1>6, PermitUnchanged DEF Spawn
<1>7. QED
  BY <1>1, <1>2, <1>3, <1>4, <1>5, <1>6 DEF Next

(* Every permit posted to a semaphore is available, in the hand of a fiber *)
(* whose wait has not returned, or was returned by one wait, for any       *)
(* number of fibers, posters, cancellations and timers (waitForUnit).      *)
THEOREM NoPermitLost == Spec => []PermitsKept
<1>1. Init => PermitInv
  BY PermitInit
<1>2. PermitInv /\ [Next]_vars => PermitInv'
  BY PermitStep
<1>3. PermitInv => PermitsKept
  BY DEF PermitInv
<1>4. QED
  BY <1>1, <1>2, <1>3, PTL DEF Spec

(* A set of naturals has a least member.                                   *)
LEMMA LeastMember ==
    ASSUME NEW S \in SUBSET Nat, S # {}
    PROVE  \E m \in S : \A n \in S : m <= n
<1>1. PICK m \in S : \A n \in S : ~(<<n, m>> \in OpToRel(<, Nat))
  BY NatLessThanWellFounded, WFMin
<1>2. ASSUME NEW n \in S PROVE m <= n
  <2>1. SUFFICES ASSUME n < m PROVE FALSE
    OBVIOUS
  <2>2. <<n, m>> \in Nat \X Nat
    OBVIOUS
  <2>3. <<n, m>> \in OpToRel(<, Nat)
    BY <2>1, <2>2 DEF OpToRel
  <2>4. QED
    BY <1>1, <2>3
<1>3. QED
  BY <1>2

(* A finite one has a greatest one, too.                                   *)
LEMMA GreatestMember ==
    ASSUME NEW S \in SUBSET Nat, IsFiniteSet(S), S # {}
    PROVE  \E m \in S : \A n \in S : n <= m
<1> DEFINE Above(i) == {j \in S : i < j}
           D == {Cardinality(Above(i)) : i \in S}
<1>1. \A i : IsFiniteSet(Above(i)) /\ Cardinality(Above(i)) \in Nat
  <2> TAKE i
  <2>1. Above(i) \subseteq S
    OBVIOUS
  <2>2. QED
    BY <2>1, FS_Subset, FS_CardinalityType
<1>2. PICK c \in D : \A d \in D : c <= d
  <2>1. D \in SUBSET Nat /\ D # {}
    <3> HIDE DEF Above
    <3> QED
      BY <1>1
  <2> HIDE DEF D
  <2>2. QED
    BY <2>1, LeastMember
<1>3. PICK m \in S : c = Cardinality(Above(m))
  OBVIOUS
<1>4. ASSUME NEW n \in S, m < n PROVE FALSE
  <2>1. Above(n) \subseteq Above(m) \ {n}
    <3>1. m \in Int /\ n \in Int /\ \A y \in S : y \in Int
      OBVIOUS
    <3>2. \A y \in S : n < y => m < y /\ y # n
      BY <1>4, <3>1
    <3>3. QED
      BY <3>2
  <2>2. Cardinality(Above(m) \ {n}) = Cardinality(Above(m)) - 1 /\ IsFiniteSet(Above(m) \ {n})
    <3>1. n \in Above(m)
      BY <1>4
    <3> HIDE DEF Above
    <3>2. QED
      BY <1>1, <3>1, FS_RemoveElement
  <2>3. Cardinality(Above(n)) <= Cardinality(Above(m) \ {n})
    <3> HIDE DEF Above
    <3> QED
      BY <2>1, <2>2, FS_Subset
  <2>4. Cardinality(Above(m)) <= Cardinality(Above(n))
    BY <1>2, <1>3
  <2> HIDE DEF Above
  <2>5. QED
    BY <1>1, <2>2, <2>3, <2>4
<1>5. \A n \in S : n <= m
  BY <1>4
<1>6. QED
  BY <1>5

(* The k-th member of a finite set of naturals.                            *)
LEMMA KthMember ==
    ASSUME NEW S \in SUBSET Nat, IsFiniteSet(S), NEW k \in 1 .. Cardinality(S)
    PROVE  \E i \in S : Cardinality({j \in S : j < i}) = k - 1
<1> DEFINE Below(i) == {j \in S : j < i}
           B == {i \in S : Cardinality(Below(i)) >= k - 1}
<1>0. \A i : IsFiniteSet(Below(i)) /\ Cardinality(Below(i)) \in Nat
  <2> TAKE i
  <2>1. Below(i) \subseteq S
    OBVIOUS
  <2>2. QED
    BY <2>1, FS_Subset, FS_CardinalityType
<1>00. Cardinality(S) \in Nat
  BY FS_CardinalityType
<1>1. S # {}
  BY <1>00, FS_EmptySet
<1>2. PICK g \in S : \A n \in S : n <= g
  BY <1>1, GreatestMember
<1>3. g \in B
  <2>1. Below(g) = S \ {g}
    <3>1. g \in Int /\ \A y \in S : y \in Int
      OBVIOUS
    <3>2. \A y \in S : y < g <=> y # g
      BY <1>2, <3>1
    <3>3. QED
      BY <3>2
  <2>2. Cardinality(S \ {g}) = Cardinality(S) - 1
    BY FS_RemoveElement
  <2>3. Cardinality(Below(g)) >= k - 1
    <3> HIDE DEF Below
    <3> QED
      BY <1>00, <2>1, <2>2
  <2>4. QED
    BY <2>3
<1>4. PICK m \in B : \A n \in B : m <= n
  <2>1. B \in SUBSET Nat /\ B # {}
    BY <1>3
  <2> HIDE DEF B
  <2>2. QED
    BY <2>1, LeastMember
<1>5. Cardinality(Below(m)) = k - 1
  <2>1. SUFFICES ASSUME Cardinality(Below(m)) > k - 1 PROVE FALSE
    BY <1>0, <1>4
  <2>2. Below(m) # {}
    <3> HIDE DEF Below
    <3> QED
      BY <2>1, FS_EmptySet
  <2>3. Below(m) \in SUBSET Nat
    OBVIOUS
  <2>4. PICK x \in Below(m) : \A n \in Below(m) : n <= x
    <3> HIDE DEF Below
    <3> QED
      BY <1>0, <2>2, <2>3, GreatestMember
  <2>5. Below(x) = Below(m) \ {x}
    <3>1. x \in Int /\ m \in Int /\ x < m /\ \A y \in S : y \in Int
      BY <2>4
    <3>2. \A y \in S : y < x <=> y < m /\ y # x
      <4>1. ASSUME NEW y \in S, y < m, y # x PROVE y < x
        <5>1. y <= x
          BY <2>4, <4>1
        <5>2. QED
          BY <3>1, <4>1, <5>1
      <4>2. QED
        BY <3>1, <4>1
    <3>3. QED
      BY <3>2
  <2>6. Cardinality(Below(x)) = Cardinality(Below(m)) - 1
    <3> HIDE DEF Below
    <3> QED
      BY <1>0, <2>4, <2>5, FS_RemoveElement
  <2>7. x \in B /\ x < m
    <3>1. x \in S /\ x < m
      BY <2>4
    <3>2. Cardinality(Below(x)) >= k - 1
      <4> HIDE DEF Below
      <4> QED
        BY <1>0, <2>1, <2>6
    <3>3. QED
      BY <3>1, <3>2
  <2>8. QED
    BY <1>4, <2>7
<1>6. QED
  BY <1>4, <1>5

(* SetToSeq lists a finite set, each member once.                          *)
LEMMA SetIsListed ==
    ASSUME NEW S, IsFiniteSet(S)
    PROVE  /\ SetToSeq(S) \in Seq(S)
           /\ \A i, j \in DOMAIN SetToSeq(S) : SetToSeq(S)[i] = SetToSeq(S)[j] => i = j
           /\ \A x \in S : \E i \in DOMAIN SetToSeq(S) : SetToSeq(S)[i] = x
<1>2. PICK n \in Nat : n = Cardinality(S)
  BY FS_CardinalityType
<1>3. \E s \in [1 .. n -> S] : IsInjective(s)
  BY <1>2, FS_CardinalityType DEF ExistsBijection, Bijection, Injection
<1>4. SetToSeq(S) \in [1 .. n -> S] /\ IsInjective(SetToSeq(S))
  BY <1>2, <1>3 DEF SetToSeq
<1>5. SetToSeq(S) \in Seq(S)
  BY <1>4
<1> DEFINE s == SetToSeq(S)
<1>6. \A i, j \in DOMAIN s : s[i] = s[j] => i = j
  BY <1>4 DEF IsInjective
<1>7. ASSUME NEW x \in S, \A i \in DOMAIN s : s[i] # x PROVE FALSE
  <2>1. IsFiniteSet(S \ {x}) /\ Cardinality(S \ {x}) = n - 1
    BY <1>2, FS_RemoveElement
  <2>2. s \in [1 .. n -> S \ {x}]
    BY <1>4, <1>7
  <2>3. IsFiniteSet(1 .. n) /\ Cardinality(1 .. n) = n
    BY FS_Interval
  <2>4. \E i, j \in 1 .. n : i # j /\ s[i] = s[j]
    <3> HIDE DEF s
    <3>1. Cardinality(S \ {x}) < Cardinality(1 .. n)
      BY <2>1, <2>3
    <3>2. QED
      BY <2>1, <2>2, <2>3, <3>1, FS_PigeonHole
  <2>5. QED
    BY <1>4, <1>6, <2>4
<1>8. QED
  BY <1>5, <1>6, <1>7

-----------------------------------------------------------------------------
(* Who owes a wake.                                                        *)

(* The causes by which somebody else ended a wait.                         *)
Causes == {"signalled", "timedOut", "cancelled"}

WaitWords == [n : Nat, cause : Causes \cup {"none", "armed", "withdrawn"}]

(* The wait of f was claimed, and f has not been woken from it yet.        *)
Due(f) == ctrl[f].phase = "waiting" /\ Stored(f) /\ word[f].cause \in Causes

(* The i-th whom thread t owes a wake is f.                                *)
Owed(t, i, f) == i \in DOMAIN waker[t].owed /\ waker[t].owed[i] = f

Cancels == [at : {"idle", "next", "add", "accept", "claim"}, task : Fibers \cup {None}, n : Nat,
            todo : Seq(Fibers), all : BOOLEAN, orders : Nat]

WakesTyped ==
    /\ word \in [Fibers -> WaitWords]
    /\ buffered \in SUBSET Fibers
    /\ waker \in [Threads -> [limit : Nat, owed : Seq(Fibers)]]
    /\ joiners \in [Fibers -> SUBSET Fibers]
    /\ pump.task \in Fibers \/ pump = NoEntry
    /\ cancel.at \in {"add", "accept", "claim"} => cancel.task \in Fibers
    /\ cancel \in Cancels

(* Where a body is between arming its wait and its park or withdrawal.     *)
WaitSpots == {"armed", "link", "register", "retake", "timer", "withdraw"}

Running(f) == \E w \in Workers : worker[w].at = "run" /\ worker[w].task = f

(* A running body has the phase of where it is; a wait is armed, once its  *)
(* word has left the store buffer, only while its fiber waits.             *)
BodySound(f) ==
    /\ code[f].at \in WaitSpots => Running(f)
    /\ Running(f) =>
          ctrl[f].phase = IF code[f].at \in WaitSpots THEN "waiting" ELSE "running"
    /\ f \in buffered => At(f, "armed") /\ ~Armed(f)
    /\ Armed(f) => ctrl[f].phase = "waiting"

BodiesSound == \A f \in Fibers : BodySound(f)

(* A worker that has switched back from a body wakes nobody; one that ends *)
(* a task found it terminating.                                            *)
WorkerSound(w) ==
    /\ worker[w].at \notin {"idle", "run"} => waker[w] = Quiet
    /\ worker[w].at \in {"record", "terminate"} => ctrl[worker[w].task].phase = "terminating"

WorkersSound == \A w \in Workers : WorkerSound(w)

(* Who is about to claim owes nothing.                                     *)
WakersFree ==
    /\ \A t \in Threads : waker[t].limit > 0 => waker[t].owed = <<>>
    /\ pump # NoEntry => waker["timers"] = Quiet
    /\ cancel.at \in {"add", "accept", "claim"} => waker["director"] = Quiet

(* A fiber is in the queue once, from its link until it returns.           *)
LinkedSpot(f) ==
    \/ code[f].at \in {"retake", "timer", "parked", "taken", "failed"}
    \/ code[f].at = "withdraw" /\ code[f].next \in {"taken", "failed"}

QueueSound ==
    /\ unit.queue \in Seq(Fibers)
    /\ \A i, j \in DOMAIN unit.queue : unit.queue[i] = unit.queue[j] => i = j
    /\ \A i \in DOMAIN unit.queue : LinkedSpot(unit.queue[i])

(* A claimed wait is owed one wake, by one thread, or has it.              *)
DebtsSound ==
    /\ \A f \in Fibers : ctrl[f].wake \in {0, 1}
    /\ \A f \in Fibers : Due(f) <=> ctrl[f].wake = 1 \/ \E t \in Threads : \E i : Owed(t, i, f)
    /\ \A f \in Fibers : \A t \in Threads : \A i : Owed(t, i, f) => ctrl[f].wake = 0
    /\ \A f \in Fibers : \A t, u \in Threads : \A i, j :
          Owed(t, i, f) /\ Owed(u, j, f) => t = u /\ i = j

WakeInv ==
    /\ PlaceInv /\ PermitInv
    /\ WakesTyped /\ BodiesSound /\ WorkersSound /\ WakersFree /\ QueueSound /\ DebtsSound

LEMMA ThreadsApart ==
    /\ "director" \in Threads /\ "timers" \in Threads
    /\ \A w \in Workers : w \in Threads /\ w \notin Posters /\ w # "director" /\ w # "timers"
    /\ \A p \in Posters : p \in Threads /\ p # "director" /\ p # "timers"
  BY FiberArgs DEF Threads

-----------------------------------------------------------------------------
(* Claiming the front of the queue.                                        *)

LEMMA ClaimableFinite ==
    ASSUME unit.queue \in Seq(Fibers)
    PROVE  /\ Claimable \in SUBSET Nat /\ IsFiniteSet(Claimable) /\ Cardinality(Claimable) \in Nat
           /\ \A k \in 1 .. Cardinality(Claimable) :
                 /\ Nth(k) \in Claimable
                 /\ Cardinality({j \in Claimable : j < Nth(k)}) = k - 1
<1>1. Claimable \subseteq 1 .. Len(unit.queue) /\ Len(unit.queue) \in Nat
  BY LenProperties DEF Claimable, Members
<1>2. IsFiniteSet(Claimable) /\ Claimable \in SUBSET Nat
  <2>1. IsFiniteSet(1 .. Len(unit.queue))
    BY <1>1, FS_Interval
  <2>2. IsFiniteSet(Claimable)
    BY <1>1, <2>1, FS_Subset
  <2>3. \A i \in Claimable : i \in Nat
    BY <1>1
  <2>4. QED
    BY <2>2, <2>3
<1>3. Cardinality(Claimable) \in Nat
  BY <1>2, FS_CardinalityType
<1>4. ASSUME NEW k \in 1 .. Cardinality(Claimable)
      PROVE  Nth(k) \in Claimable /\ Cardinality({j \in Claimable : j < Nth(k)}) = k - 1
  <2>1. \E i \in Claimable : Cardinality({j \in Claimable : j < i}) = k - 1
    BY <1>2, KthMember
  <2>2. QED
    BY <2>1 DEF Nth
<1>5. QED
  BY <1>2, <1>3, <1>4

(* Those claimed are fibers with an armed wait, each once.                 *)
LEMMA WinnersArmed ==
    ASSUME unit.queue \in Seq(Fibers), NEW limit \in Nat,
           \A i, j \in DOMAIN unit.queue : unit.queue[i] = unit.queue[j] => i = j
    PROVE  /\ Winners(limit) \in Seq(Fibers)
           /\ \A i \in DOMAIN Winners(limit) : Armed(Winners(limit)[i])
           /\ \A i, j \in DOMAIN Winners(limit) : Winners(limit)[i] = Winners(limit)[j] => i = j
<1> DEFINE n == Cardinality(Claimable)
           m == IF n < limit THEN n ELSE limit
<1>1. Winners(limit) = [k \in 1 .. m |-> unit.queue[Nth(k)]]
  BY DEF Winners
<1>2. n \in Nat /\ m \in Nat /\ m <= n
  BY ClaimableFinite
<1>3. \A k \in 1 .. m : Nth(k) \in Claimable /\ Cardinality({j \in Claimable : j < Nth(k)}) = k - 1
  <2>1. \A k \in 1 .. m : k \in 1 .. n
    BY <1>2
  <2>2. QED
    BY <2>1, ClaimableFinite
<1>4. \A k \in 1 .. m : Nth(k) \in DOMAIN unit.queue /\ Armed(unit.queue[Nth(k)])
  BY <1>3 DEF Claimable, Members
<1>5. \A k \in 1 .. m : unit.queue[Nth(k)] \in Fibers
  BY <1>4, LenProperties
<1>6. Winners(limit) \in Seq(Fibers) /\ DOMAIN Winners(limit) = 1 .. m
  <2> HIDE DEF m
  <2> QED
    BY <1>1, <1>2, <1>5
<1>7. ASSUME NEW i \in 1 .. m, NEW j \in 1 .. m, Winners(limit)[i] = Winners(limit)[j] PROVE i = j
  <2>1. Nth(i) = Nth(j)
    BY <1>1, <1>4, <1>7
  <2>2. i - 1 = j - 1
    BY <1>3, <2>1
  <2>3. QED
    BY <1>2, <2>2
<1>8. QED
  BY <1>1, <1>4, <1>6, <1>7

(* A suffix of a sequence without repetitions has none.                    *)
LEMMA SuffixKept ==
    ASSUME NEW S, NEW q \in Seq(S), NEW a \in Nat, a <= Len(q),
           \A i, j \in DOMAIN q : q[i] = q[j] => i = j,
           NEW b, b = SubSeq(q, a + 1, Len(q))
    PROVE  /\ b \in Seq(S)
           /\ \A i \in DOMAIN b : a + i \in DOMAIN q /\ b[i] = q[a + i]
           /\ \A i, j \in DOMAIN b : b[i] = b[j] => i = j
<1>1. PICK l \in Nat : l = Len(q) /\ a <= l /\ DOMAIN q = 1 .. l /\ \A i \in 1 .. l : q[i] \in S
  BY LenProperties
<1>2. /\ b \in Seq(S)
      /\ Len(b) = IF a + 1 <= l THEN l - (a + 1) + 1 ELSE 0
      /\ \A i \in 1 .. l - (a + 1) + 1 : b[i] = q[a + 1 + i - 1]
  <2>1. a + 1 \in Int /\ l \in Int /\ \A i \in a + 1 .. l : q[i] \in S
    BY <1>1
  <2>2. b = SubSeq(q, a + 1, l)
    BY <1>1
  <2>3. QED
    BY <2>1, <2>2, SubSeqProperties
<1>3. Len(b) = l - a /\ DOMAIN b = 1 .. l - a
  <2>1. a + 1 <= l => l - (a + 1) + 1 = l - a
    BY <1>1
  <2>2. ~(a + 1 <= l) => l - a = 0
    BY <1>1
  <2>3. Len(b) = l - a
    BY <1>2, <2>1, <2>2
  <2>4. DOMAIN b = 1 .. Len(b)
    BY <1>2, LenProperties
  <2>5. QED
    BY <2>3, <2>4
<1>4. ASSUME NEW i \in 1 .. l - a PROVE a + i \in 1 .. l /\ b[i] = q[a + i]
  <2>1. i \in 1 .. l - (a + 1) + 1 /\ a + 1 + i - 1 = a + i /\ a + i \in 1 .. l
    BY <1>1
  <2>2. QED
    BY <1>2, <2>1
<1>5. ASSUME NEW i \in 1 .. l - a, NEW j \in 1 .. l - a, b[i] = b[j] PROVE i = j
  <2>1. a + i = a + j
    BY <1>1, <1>4, <1>5
  <2>2. QED
    BY <2>1
<1>6. QED
  BY <1>1, <1>2, <1>3, <1>4, <1>5

(* What is left behind keeps its order.                                    *)
LEMMA BehindQueued ==
    ASSUME unit.queue \in Seq(Fibers), NEW limit \in Nat, limit > 0,
           \A i, j \in DOMAIN unit.queue : unit.queue[i] = unit.queue[j] => i = j
    PROVE  /\ Behind(limit) \in Seq(Fibers)
           /\ \A i \in DOMAIN Behind(limit) : \E j \in DOMAIN unit.queue :
                 Behind(limit)[i] = unit.queue[j]
           /\ \A i, j \in DOMAIN Behind(limit) : Behind(limit)[i] = Behind(limit)[j] => i = j
<1>0. PICK b : b = Behind(limit)
  OBVIOUS
<1>1. CASE Cardinality(Claimable) < limit
  <2>1. b = <<>>
    BY <1>0, <1>1 DEF Behind
  <2>2. b \in Seq(Fibers) /\ DOMAIN b = {}
    BY <2>1
  <2>3. QED
    BY <1>0, <2>2
<1>2. CASE ~(Cardinality(Claimable) < limit)
  <2>1. limit \in 1 .. Cardinality(Claimable)
    BY <1>2, ClaimableFinite
  <2>2. PICK a \in Nat : a = Nth(limit) /\ a <= Len(unit.queue)
    <3>1. Nth(limit) \in Claimable
      BY <2>1, ClaimableFinite
    <3>2. Nth(limit) \in DOMAIN unit.queue
      BY <3>1 DEF Claimable, Members
    <3>3. DOMAIN unit.queue = 1 .. Len(unit.queue) /\ Len(unit.queue) \in Nat
      BY LenProperties
    <3> HIDE DEF Nth
    <3>4. QED
      BY <3>2, <3>3
  <2>3. b = SubSeq(unit.queue, a + 1, Len(unit.queue))
    BY <1>0, <1>2, <2>2 DEF Behind
  <2>4. /\ b \in Seq(Fibers)
        /\ \A i \in DOMAIN b : a + i \in DOMAIN unit.queue /\ b[i] = unit.queue[a + i]
        /\ \A i, j \in DOMAIN b : b[i] = b[j] => i = j
    <3>1. PICK q \in Seq(Fibers) : q = unit.queue
      OBVIOUS
    <3>2. \A i, j \in DOMAIN q : q[i] = q[j] => i = j
      BY <3>1
    <3>3. b = SubSeq(q, a + 1, Len(q)) /\ a <= Len(q)
      BY <2>2, <2>3, <3>1
    <3>4. /\ b \in Seq(Fibers)
          /\ \A i \in DOMAIN b : a + i \in DOMAIN q /\ b[i] = q[a + i]
          /\ \A i, j \in DOMAIN b : b[i] = b[j] => i = j
      BY <3>2, <3>3, SuffixKept
    <3>5. QED
      BY <3>1, <3>4
  <2>5. QED
    BY <1>0, <2>4
<1>3. QED
  BY <1>1, <1>2

(* Taking one member out of it leaves the others, once each.               *)
LEMMA OneRemoved ==
    ASSUME NEW S, NEW q \in Seq(S), NEW k \in DOMAIN q,
           \A i, j \in DOMAIN q : q[i] = q[j] => i = j,
           NEW r, r = RemoveAt(q, k)
    PROVE  /\ r \in Seq(S)
           /\ \A i \in DOMAIN r : \E j \in DOMAIN q : j # k /\ r[i] = q[j]
           /\ \A i, j \in DOMAIN r : r[i] = r[j] => i = j
           /\ \A j \in DOMAIN q : j # k => \E i \in DOMAIN r : r[i] = q[j]
<1> DEFINE a == SubSeq(q, 1, k - 1)
           b == SubSeq(q, k + 1, Len(q))
<1>0. r = a \o b
  BY DEF RemoveAt
<1>1. PICK l \in Nat : l = Len(q) /\ DOMAIN q = 1 .. l /\ \A i \in 1 .. l : q[i] \in S
  BY LenProperties
<1>2. k \in 1 .. l
  BY <1>1
<1>3. a \in Seq(S) /\ Len(a) = k - 1 /\ \A i \in 1 .. k - 1 : a[i] = q[i]
  <2>1. 1 \in Int /\ k - 1 \in Int /\ \A i \in 1 .. k - 1 : q[i] \in S
    BY <1>1, <1>2
  <2>2. /\ a \in Seq(S)
        /\ Len(a) = IF 1 <= k - 1 THEN k - 1 - 1 + 1 ELSE 0
        /\ \A i \in 1 .. k - 1 - 1 + 1 : a[i] = q[1 + i - 1]
    BY <2>1, SubSeqProperties
  <2> HIDE DEF a
  <2>3. Len(a) = k - 1
    <3>1. 1 <= k - 1 => k - 1 - 1 + 1 = k - 1
      BY <1>2
    <3>2. ~(1 <= k - 1) => k - 1 = 0
      BY <1>2
    <3>3. QED
      BY <2>2, <3>1, <3>2
  <2>4. ASSUME NEW i \in 1 .. k - 1 PROVE a[i] = q[i]
    <3>1. i \in 1 .. k - 1 - 1 + 1 /\ 1 + i - 1 = i
      BY <1>2
    <3>2. QED
      BY <2>2, <3>1
  <2>5. QED
    BY <2>2, <2>3, <2>4
<1>4. b \in Seq(S) /\ Len(b) = l - k /\ \A i \in 1 .. l - k : b[i] = q[k + i]
  <2>1. k \in Nat /\ k <= Len(q)
    BY <1>1, <1>2
  <2>2. b \in Seq(S) /\ \A i \in DOMAIN b : k + i \in DOMAIN q /\ b[i] = q[k + i]
    BY <2>1, SuffixKept
  <2>3. Len(b) = IF k + 1 <= l THEN l - (k + 1) + 1 ELSE 0
    <3>1. k + 1 \in Int /\ l \in Int /\ \A i \in k + 1 .. l : q[i] \in S
      BY <1>1, <1>2
    <3>2. b = SubSeq(q, k + 1, l)
      BY <1>1
    <3> HIDE DEF b
    <3>3. QED
      BY <3>1, <3>2, SubSeqProperties
  <2> HIDE DEF b
  <2>4. Len(b) = l - k
    <3>1. k + 1 <= l => l - (k + 1) + 1 = l - k
      BY <1>1, <1>2
    <3>2. ~(k + 1 <= l) => l - k = 0
      BY <1>1, <1>2
    <3>3. QED
      BY <2>3, <3>1, <3>2
  <2>5. DOMAIN b = 1 .. l - k
    BY <2>2, <2>4, LenProperties
  <2>6. QED
    BY <2>2, <2>4, <2>5
<1> HIDE DEF a, b
<1>5. /\ r \in Seq(S) /\ Len(r) = l - 1 /\ DOMAIN r = 1 .. l - 1
      /\ \A i \in 1 .. l - 1 : r[i] = IF i < k THEN q[i] ELSE q[i + 1]
  <2>1. /\ r \in Seq(S) /\ Len(r) = Len(a) + Len(b)
        /\ \A i \in 1 .. Len(a) + Len(b) : r[i] = IF i <= Len(a) THEN a[i] ELSE b[i - Len(a)]
    <3>1. PICK c : c = a \o b
      OBVIOUS
    <3>2. /\ c \in Seq(S) /\ Len(c) = Len(a) + Len(b)
          /\ \A i \in 1 .. Len(a) + Len(b) : c[i] = IF i <= Len(a) THEN a[i] ELSE b[i - Len(a)]
      BY <1>3, <1>4, <3>1, ConcatProperties
    <3>3. QED
      BY <1>0, <3>1, <3>2
  <2>2. Len(a) + Len(b) = l - 1
    <3>1. k \in Int /\ l \in Int /\ k - 1 + (l - k) = l - 1
      BY <1>1, <1>2
    <3>2. QED
      BY <1>3, <1>4, <3>1
  <2>3. DOMAIN r = 1 .. l - 1
    BY <2>1, <2>2, LenProperties
  <2>4. ASSUME NEW i \in 1 .. l - 1 PROVE r[i] = IF i < k THEN q[i] ELSE q[i + 1]
    <3>1. r[i] = IF i <= k - 1 THEN a[i] ELSE b[i - (k - 1)]
      BY <1>3, <2>1, <2>2
    <3>2. CASE i < k
      <4>1. i \in 1 .. k - 1 /\ i <= k - 1
        BY <1>1, <1>2, <3>2
      <4>2. QED
        BY <1>3, <3>1, <3>2, <4>1
    <3>3. CASE ~(i < k)
      <4>1. /\ ~(i <= k - 1) /\ i - (k - 1) \in 1 .. l - k
            /\ k + (i - (k - 1)) = i + 1
        BY <1>1, <1>2, <3>3
      <4>2. QED
        BY <1>4, <3>1, <3>3, <4>1
    <3>4. QED
      BY <3>2, <3>3
  <2>5. QED
    BY <2>1, <2>2, <2>3, <2>4
<1>7. ASSUME NEW i \in 1 .. l - 1 PROVE \E j \in 1 .. l : j # k /\ r[i] = q[j]
  <2>1. i \in 1 .. l /\ i + 1 \in 1 .. l
    BY <1>1
  <2>2. (i < k => i # k) /\ (~(i < k) => i + 1 # k)
    BY <1>2
  <2>3. QED
    BY <1>5, <2>1, <2>2
<1>8. ASSUME NEW i \in 1 .. l - 1, NEW j \in 1 .. l - 1, r[i] = r[j] PROVE i = j
  <2> DEFINE u == IF i < k THEN i ELSE i + 1
             v == IF j < k THEN j ELSE j + 1
  <2>1. u \in 1 .. l /\ v \in 1 .. l
    BY <1>1
  <2>2. r[i] = q[u] /\ r[j] = q[v]
    BY <1>5
  <2>3. u = v
    <3> HIDE DEF u, v
    <3> QED
      BY <1>1, <1>8, <2>1, <2>2
  <2>4. QED
    BY <1>2, <2>3
<1>9. ASSUME NEW j \in 1 .. l, j # k PROVE \E i \in 1 .. l - 1 : r[i] = q[j]
  <2>1. CASE j < k
    <3>1. j \in 1 .. l - 1
      BY <1>1, <1>2, <2>1
    <3>2. QED
      BY <1>5, <2>1, <3>1
  <2>2. CASE ~(j < k)
    <3>1. j - 1 \in 1 .. l - 1 /\ ~(j - 1 < k) /\ j - 1 + 1 = j
      BY <1>1, <1>2, <1>9, <2>2
    <3>2. QED
      BY <1>5, <3>1
  <2>3. QED
    BY <2>1, <2>2
<1>10. \A i \in DOMAIN r : \E j \in DOMAIN q : j # k /\ r[i] = q[j]
  BY <1>1, <1>5, <1>7
<1>11. \A i, j \in DOMAIN r : r[i] = r[j] => i = j
  BY <1>5, <1>8
<1>12. \A j \in DOMAIN q : j # k => \E i \in DOMAIN r : r[i] = q[j]
  BY <1>1, <1>5, <1>9
<1>13. QED
  BY <1>5, <1>10, <1>11, <1>12

(* A member is in the queue at its position only; without it the others    *)
(* are left.                                                               *)
LEMMA WithoutQueued ==
    ASSUME unit.queue \in Seq(Fibers), NEW f \in Fibers,
           \A i, j \in DOMAIN unit.queue : unit.queue[i] = unit.queue[j] => i = j
    PROVE  /\ Without(f) \in Seq(Fibers)
           /\ \A i \in DOMAIN Without(f) : \E j \in DOMAIN unit.queue :
                 unit.queue[j] # f /\ Without(f)[i] = unit.queue[j]
           /\ \A i, j \in DOMAIN Without(f) : Without(f)[i] = Without(f)[j] => i = j
<1>1. PICK q \in Seq(Fibers) : q = unit.queue
  OBVIOUS
<1>2. PICK r : r = Without(f)
  OBVIOUS
<1>3. \A i, j \in DOMAIN q : q[i] = q[j] => i = j
  BY <1>1
<1>4. CASE \E i \in DOMAIN q : q[i] = f
  <2>1. f \in Range(unit.queue)
    BY <1>1, <1>4 DEF Range
  <2>2. PICK k \in DOMAIN q : k = Position(f) /\ q[k] = f
    BY <1>1, <1>4 DEF Position
  <2>3. r = RemoveAt(q, k)
    BY <1>1, <1>2, <2>1, <2>2 DEF Without
  <2>4. /\ r \in Seq(Fibers)
        /\ \A i \in DOMAIN r : \E j \in DOMAIN q : j # k /\ r[i] = q[j]
        /\ \A i, j \in DOMAIN r : r[i] = r[j] => i = j
    BY <1>3, <2>3, OneRemoved
  <2>5. \A j \in DOMAIN q : j # k => q[j] # f
    BY <1>3, <2>2
  <2>6. QED
    BY <1>1, <1>2, <2>4, <2>5
<1>5. CASE ~ \E i \in DOMAIN q : q[i] = f
  <2>1. f \notin Range(unit.queue)
    BY <1>1, <1>5 DEF Range
  <2>2. r = q
    BY <1>1, <1>2, <2>1 DEF Without
  <2>3. QED
    BY <1>1, <1>2, <1>3, <1>5, <2>2
<1>6. QED
  BY <1>4, <1>5

(* One more at the end, which is not in it.                                *)
LEMMA OneLinked ==
    ASSUME NEW S, NEW q \in Seq(S), NEW x \in S, \A i \in DOMAIN q : q[i] # x,
           \A i, j \in DOMAIN q : q[i] = q[j] => i = j,
           NEW r, r = Append(q, x)
    PROVE  /\ r \in Seq(S)
           /\ \A i \in DOMAIN r : r[i] = x \/ \E j \in DOMAIN q : r[i] = q[j]
           /\ \A i, j \in DOMAIN r : r[i] = r[j] => i = j
<1>1. PICK l \in Nat : l = Len(q) /\ DOMAIN q = 1 .. l
  BY LenProperties
<1>2. r \in Seq(S) /\ DOMAIN r = 1 .. l + 1 /\ r[l + 1] = x /\ \A i \in 1 .. l : r[i] = q[i]
  BY <1>1
<1>3. \A i \in 1 .. l + 1 : i \in 1 .. l \/ i = l + 1
  BY <1>1
<1>4. \A i \in DOMAIN r : r[i] = x \/ \E j \in DOMAIN q : r[i] = q[j]
  BY <1>1, <1>2, <1>3
<1>5. \A i, j \in DOMAIN r : r[i] = r[j] => i = j
  BY <1>1, <1>2, <1>3
<1>6. QED
  BY <1>2, <1>4, <1>5

-----------------------------------------------------------------------------
(* The steps of a body.                                                    *)

LEMMA WakeTypes ==
    ASSUME WakeInv
    PROVE  /\ ctrl \in [Fibers -> Words] /\ code \in [Fibers -> Codes]
           /\ worker \in [Workers -> [at : Stages, task : Fibers \cup {None}]]
           /\ word \in [Fibers -> WaitWords]
           /\ waker \in [Threads -> [limit : Nat, owed : Seq(Fibers)]]
           /\ buffered \in SUBSET Fibers /\ joiners \in [Fibers -> SUBSET Fibers]
           /\ unit.queue \in Seq(Fibers) /\ \E Q : unit \in Owners(Q)
  BY DEF WakeInv, WakesTyped, PlaceInv, WordsTyped, PermitInv, BodiesTyped, QueueSound

LEMMA PhaseEffect ==
    ASSUME ctrl \in [Fibers -> Words], NEW f \in Fibers, NEW ph \in Phases,
           ctrl' = [ctrl EXCEPT ![f].phase = ph]
    PROVE  /\ ctrl'[f].phase = ph /\ ctrl'[f].wake = ctrl[f].wake
           /\ \A g \in Fibers : g # f => ctrl'[g] = ctrl[g]
  BY DEF Words

(* The phase and the word of a fiber whose body runs.                      *)
LEMMA BodyBefore ==
    ASSUME WakeInv, NEW w \in Workers, NEW f \in Fibers, Runs(w, f)
    PROVE  /\ Running(f) /\ w \in Threads /\ waker[w] = Quiet
           /\ code[f].at \in WaitSpots => ctrl[f].phase = "waiting"
           /\ code[f].at \notin WaitSpots =>
                 ctrl[f].phase = "running" /\ f \notin buffered /\ ~Armed(f) /\ ~Due(f)
           /\ code[f].at # "armed" => f \notin buffered
<1>1. Running(f) /\ waker[w] = Quiet
  BY DEF Runs, Running
<1>2. w \in Threads
  BY DEF Threads
<1>3. BodySound(f)
  BY DEF WakeInv, BodiesSound
<1>4. "armed" \in WaitSpots
  BY DEF WaitSpots
<1>5. QED
  BY <1>1, <1>2, <1>3, <1>4 DEF BodySound, At, Due

(* What a body's step does to words, phases and wakes: it keeps to its own,*)
(* stays or switches back, and neither earns nor uses up a wake.           *)
BodyWakes(w, f) ==
    /\ \A g \in Fibers : g # f => /\ ctrl'[g] = ctrl[g] /\ code'[g] = code[g]
                                  /\ word'[g] = word[g] /\ (g \in buffered' <=> g \in buffered)
    /\ ctrl'[f].wake = ctrl[f].wake
    /\ worker' = worker =>
          ctrl'[f].phase = IF code'[f].at \in WaitSpots THEN "waiting" ELSE "running"
    /\ worker' # worker => /\ worker' = [worker EXCEPT ![w].at = "suspend"]
                           /\ code'[f].at \notin WaitSpots /\ waker' = waker
    /\ f \in buffered' => code'[f].at = "armed" /\ word'[f].cause # "armed"
    /\ word'[f].cause = "armed" => ctrl'[f].phase = "waiting"
    /\ Due(f)' <=> Due(f)
    /\ word' \in [Fibers -> WaitWords]
    /\ buffered' \in SUBSET Fibers
    /\ waker' = waker \/ waker' = [waker EXCEPT ![w].limit = 1]

(* Most steps leave the words alone.                                       *)
LEMMA BodyGoes ==
    ASSUME WakeInv, NEW w \in Workers, NEW f \in Fibers, Runs(w, f), f \notin buffered,
           UNCHANGED <<ctrl, word, buffered>>,
           \A g \in Fibers : g # f => code'[g] = code[g],
           \/ /\ worker' = worker
              /\ code'[f].at \in WaitSpots <=> code[f].at \in WaitSpots
              /\ waker' = waker \/ waker' = [waker EXCEPT ![w].limit = 1]
           \/ /\ Suspend(w) /\ waker' = waker /\ code'[f].at \notin WaitSpots
    PROVE  BodyWakes(w, f)
<1>1. BodySound(f) /\ Running(f)
  BY DEF WakeInv, BodiesSound, Runs, Running
<1>2. Due(f)' <=> Due(f)
  BY DEF Due, Stored
<1>3. Suspend(w) => worker' # worker
  BY DEF Suspend, Runs, WakeInv, PlaceInv, WordsTyped
<1>4. QED
  BY <1>1, <1>2, <1>3, WakeTypes DEF BodyWakes, BodySound, Armed, Suspend

LEMMA BodyWakes1 ==
    ASSUME WakeInv, NEW w \in Workers, NEW f \in Fibers,
           \/ Body(w, f) \/ Throw(w, f) \/ YieldReady(w, f) \/ TryTake(w, f) \/ Poll(w, f)
    PROVE  BodyWakes(w, f)
<1> USE DEF Keeps
<1>0. code \in [Fibers -> Codes] /\ ctrl \in [Fibers -> Words]
  BY WakeTypes
<1>1. \A p \in {"body", "done", "parked", "check", "take", "poll", "yield", "throw", "last"} :
         p \in Spots /\ p \notin WaitSpots
  BY DEF Spots, Reasons, WaitSpots
<1>2. CASE Body(w, f)
  <2>1. Runs(w, f) /\ code[f].at = "body" /\ UNCHANGED <<ctrl, word, buffered>> /\ waker' = waker
    BY <1>2 DEF Body, At
  <2>2. f \notin buffered
    BY <1>1, <2>1, BodyBefore
  <2>3. CASE Goto(f, "done") /\ Suspend(w)
    <3>1. code'[f].at = "done" /\ \A g \in Fibers : g # f => code'[g] = code[g]
      BY <1>0, <1>1, <2>3, GotoEffect
    <3>2. QED
      BY <1>1, <2>1, <2>2, <2>3, <3>1, BodyGoes
  <2>4. ASSUME NEW o \in Does[f], worker' = worker,
               code' = [code EXCEPT ![f] = [@ EXCEPT !.at = First[o.kind], !.op = o,
                                                     !.turns = code[f].turns + 1]]
        PROVE  BodyWakes(w, f)
    <3>1. code'[f].at \in {"take", "poll", "yield"} /\ \A g \in Fibers : g # f => code'[g] = code[g]
      BY <1>0, <2>4, BodyCode
    <3>2. QED
      BY <1>1, <2>1, <2>2, <2>4, <3>1, BodyGoes
  <2>5. QED
    BY <1>2, <2>3, <2>4 DEF Body
<1>3. CASE Throw(w, f)
  <2>1. Runs(w, f) /\ code[f].at = "throw" /\ UNCHANGED <<ctrl, word, buffered>> /\ waker' = waker
        /\ Goto(f, "done") /\ Suspend(w)
    BY <1>3 DEF Throw, At, Fail
  <2>2. f \notin buffered
    BY <1>1, <2>1, BodyBefore
  <2>3. code'[f].at = "done" /\ \A g \in Fibers : g # f => code'[g] = code[g]
    BY <1>0, <1>1, <2>1, GotoEffect
  <2>4. QED
    BY <1>1, <2>1, <2>2, <2>3, BodyGoes
<1>4. CASE YieldReady(w, f)
  <2>1. Runs(w, f) /\ code[f].at = "yield" /\ UNCHANGED <<word, buffered>> /\ waker' = waker
        /\ Suspend(w)
    BY <1>4 DEF YieldReady, At, Fail
  <2>2. f \notin buffered /\ ~Armed(f) /\ ~Due(f)
    BY <1>1, <2>1, BodyBefore
  <2>3. CASE Goto(f, "done") /\ ctrl' = ctrl
    <3>1. code'[f].at = "done" /\ \A g \in Fibers : g # f => code'[g] = code[g]
      BY <1>0, <1>1, <2>3, GotoEffect
    <3>2. QED
      BY <1>1, <2>1, <2>2, <2>3, <3>1, BodyGoes
  <2>4. CASE Goto(f, "parked") /\ ctrl' = [ctrl EXCEPT ![f].phase = "ready"]
    <3>1. code'[f].at = "parked" /\ \A g \in Fibers : g # f => code'[g] = code[g]
      BY <1>0, <1>1, <2>4, GotoEffect
    <3>2. /\ ctrl'[f].phase = "ready" /\ ctrl'[f].wake = ctrl[f].wake
          /\ \A g \in Fibers : g # f => ctrl'[g] = ctrl[g]
      BY <1>0, <2>4, PhaseEffect DEF Phases
    <3>3. worker' # worker /\ worker' = [worker EXCEPT ![w].at = "suspend"]
      BY <2>1, WakeTypes DEF Suspend, Runs
    <3>4. ~Due(f)'
      BY <3>2 DEF Due
    <3>5. QED
      BY <1>1, <2>1, <2>2, <3>1, <3>2, <3>3, <3>4, WakeTypes DEF BodyWakes, Armed
  <2>5. QED
    BY <1>4, <2>3, <2>4 DEF YieldReady, Fail
<1>5. CASE TryTake(w, f) \/ Poll(w, f)
  <2>1. /\ Runs(w, f) /\ code[f].at \in {"take", "last", "poll"}
        /\ UNCHANGED <<ctrl, word, buffered, worker>> /\ waker' = waker
        /\ \E p \in {"body", "check"} : Goto(f, p)
    BY <1>5 DEF TryTake, Take1, Poll, OnlyCode, At
  <2>2. f \notin buffered
    BY <1>1, <2>1, BodyBefore
  <2>3. code'[f].at \in {"body", "check"} /\ \A g \in Fibers : g # f => code'[g] = code[g]
    BY <1>0, <1>1, <2>1, GotoEffect
  <2>4. QED
    BY <1>1, <2>1, <2>2, <2>3, BodyGoes
<1>6. QED
  BY <1>2, <1>3, <1>4, <1>5

LEMMA BodyWakes2 ==
    ASSUME WakeInv, NEW w \in Workers, NEW f \in Fibers,
           Arm(w, f) \/ Armable(w, f) \/ Link(w, f) \/ Retake(w, f)
    PROVE  BodyWakes(w, f)
<1> USE DEF Keeps
<1>0. code \in [Fibers -> Codes] /\ ctrl \in [Fibers -> Words]
  BY WakeTypes
<1>1. \A p \in {"body", "done", "parked", "check", "throw"} : p \in Spots /\ p \notin WaitSpots
  BY DEF Spots, Reasons, WaitSpots
<1>2. \A p \in {"armed", "link", "register", "retake", "timer", "withdraw"} :
         p \in Spots /\ p \in WaitSpots
  BY DEF Spots, Reasons, WaitSpots
<1>3. CASE Arm(w, f)
  <2>1. Runs(w, f) /\ code[f].at = "check" /\ word' = word /\ waker' = waker
    BY <1>3 DEF Arm, At
  <2>2. f \notin buffered /\ ~Armed(f) /\ ~Due(f)
    BY <1>1, <2>1, BodyBefore
  <2>3. CASE Goto(f, "done") /\ Suspend(w) /\ UNCHANGED <<ctrl, buffered>>
    <3>1. code'[f].at = "done" /\ \A g \in Fibers : g # f => code'[g] = code[g]
      BY <1>0, <1>1, <2>3, GotoEffect
    <3>2. QED
      BY <1>1, <2>1, <2>2, <2>3, <3>1, BodyGoes
  <2>4. CASE Goto(f, "body") /\ UNCHANGED <<ctrl, buffered, worker>>
    <3>1. code'[f].at = "body" /\ \A g \in Fibers : g # f => code'[g] = code[g]
      BY <1>0, <1>1, <2>4, GotoEffect
    <3>2. QED
      BY <1>1, <2>1, <2>2, <2>4, <3>1, BodyGoes
  <2>5. CASE /\ Goto(f, "armed") /\ ctrl' = [ctrl EXCEPT ![f].phase = "waiting"]
             /\ buffered' = buffered \cup {f} /\ worker' = worker
    <3>1. code'[f].at = "armed" /\ \A g \in Fibers : g # f => code'[g] = code[g]
      BY <1>0, <1>2, <2>5, GotoEffect
    <3>2. /\ ctrl'[f].phase = "waiting" /\ ctrl'[f].wake = ctrl[f].wake
          /\ \A g \in Fibers : g # f => ctrl'[g] = ctrl[g]
      BY <1>0, <2>5, PhaseEffect DEF Phases
    <3>3. ~Due(f)'
      BY <2>5 DEF Due, Stored
    <3>4. QED
      BY <1>2, <2>1, <2>2, <2>5, <3>1, <3>2, <3>3, WakeTypes DEF BodyWakes, Armed
  <2>6. QED
    BY <1>3, <2>3, <2>4, <2>5 DEF Arm, Fail
<1>4. CASE Armable(w, f)
  <2>1. /\ Runs(w, f) /\ code[f].at = "armed" /\ f \notin buffered
        /\ UNCHANGED <<ctrl, word, buffered, worker>> /\ waker' = waker
        /\ Backout(f, "throw") \/ \E p \in {"link", "register"} : Goto(f, p)
    BY <1>4 DEF Armable, At, Fenced, Stored, OnlyCode
  <2>2. /\ code'[f].at \in {"withdraw", "link", "register"}
        /\ \A g \in Fibers : g # f => code'[g] = code[g]
    <3>1. "throw" \in Reasons
      BY DEF Reasons
    <3>2. QED
      BY <1>0, <1>2, <2>1, <3>1, GotoEffect, BackoutEffect
  <2>3. QED
    BY <1>2, <2>1, <2>2, BodyGoes
<1>5. CASE Link(w, f)
  <2>1. /\ Runs(w, f) /\ code[f].at = "link" /\ f \notin buffered
        /\ UNCHANGED <<ctrl, word, buffered, worker>> /\ waker' = waker /\ Goto(f, "retake")
    BY <1>5 DEF Link, At, Stored
  <2>2. code'[f].at = "retake" /\ \A g \in Fibers : g # f => code'[g] = code[g]
    BY <1>0, <1>2, <2>1, GotoEffect
  <2>3. QED
    BY <1>2, <2>1, <2>2, BodyGoes
<1>6. CASE Retake(w, f)
  <2>1. /\ Runs(w, f) /\ code[f].at = "retake" /\ UNCHANGED <<ctrl, word, buffered>>
        /\ waker' = waker
        /\ \/ worker' = worker /\ (Backout(f, "taken") \/ Goto(f, "timer"))
           \/ Suspend(w) /\ Goto(f, "parked")
    BY <1>6 DEF Retake, At, GoOn
  <2>2. f \notin buffered
    BY <2>1, BodyBefore
  <2>3. "taken" \in Reasons
    BY DEF Reasons
  <2>4. /\ \A g \in Fibers : g # f => code'[g] = code[g]
        /\ \/ worker' = worker /\ code'[f].at \in {"withdraw", "timer"}
           \/ Suspend(w) /\ code'[f].at = "parked"
    BY <1>0, <1>1, <1>2, <2>1, <2>3, GotoEffect, BackoutEffect
  <2>5. QED
    BY <1>1, <1>2, <2>1, <2>2, <2>4, BodyGoes
<1>7. QED
  BY <1>3, <1>4, <1>5, <1>6

LEMMA BodyWakes3 ==
    ASSUME WakeInv, NEW w \in Workers, NEW f \in Fibers,
           Register(w, f) \/ ArmTimer(w, f) \/ Withdraw(w, f)
    PROVE  BodyWakes(w, f)
<1> USE DEF Keeps
<1>0. code \in [Fibers -> Codes] /\ ctrl \in [Fibers -> Words]
  BY WakeTypes
<1>1. "parked" \in Spots /\ "parked" \notin WaitSpots
  BY DEF Spots, Reasons, WaitSpots
<1>2. \A p \in {"register", "timer", "withdraw"} : p \in Spots /\ p \in WaitSpots
  BY DEF Spots, Reasons, WaitSpots
<1>3. CASE Register(w, f) \/ ArmTimer(w, f)
  <2>1. /\ Runs(w, f) /\ code[f].at \in {"register", "timer"} /\ UNCHANGED <<ctrl, word, buffered>>
        /\ waker' = waker
        /\ \/ worker' = worker /\ (Backout(f, "poll") \/ Backout(f, "failed") \/ Goto(f, "timer"))
           \/ Suspend(w) /\ Goto(f, "parked")
    BY <1>3 DEF Register, ArmTimer, At, GoOn
  <2>2. f \notin buffered
    BY <2>1, BodyBefore
  <2>3. "poll" \in Reasons /\ "failed" \in Reasons
    BY DEF Reasons
  <2>4. /\ \A g \in Fibers : g # f => code'[g] = code[g]
        /\ \/ worker' = worker /\ code'[f].at \in {"withdraw", "timer"}
           \/ Suspend(w) /\ code'[f].at = "parked"
    BY <1>0, <1>1, <1>2, <2>1, <2>3, GotoEffect, BackoutEffect
  <2>5. QED
    BY <1>1, <1>2, <2>1, <2>2, <2>4, BodyGoes
<1>4. CASE Withdraw(w, f)
  <2>1. Runs(w, f) /\ code[f].at = "withdraw" /\ f \notin buffered /\ buffered' = buffered
        /\ waker' = waker
    BY <1>4 DEF Withdraw, At, Stored
  <2>2. PICK p \in Reasons : p = code[f].next
    BY <1>0 DEF Codes
  <2>3. p \in Spots /\ p \notin WaitSpots
    BY DEF Spots, Reasons, WaitSpots, None
  <2>4. Goto(f, p)
    BY <1>4, <2>2 DEF Withdraw
  <2>5. code'[f].at = p /\ \A g \in Fibers : g # f => code'[g] = code[g]
    BY <1>0, <2>3, <2>4, GotoEffect
  <2>6. CASE ~Armed(f) /\ Suspend(w) /\ UNCHANGED <<word, ctrl>>
    BY <2>1, <2>3, <2>5, <2>6, BodyGoes
  <2>7. CASE /\ Armed(f) /\ word' = Claimed({f}, "withdrawn")
             /\ ctrl' = [ctrl EXCEPT ![f].phase = "running"] /\ worker' = worker
    <3>1. /\ ctrl'[f].phase = "running" /\ ctrl'[f].wake = ctrl[f].wake
          /\ \A g \in Fibers : g # f => ctrl'[g] = ctrl[g]
      BY <1>0, <2>7, PhaseEffect DEF Phases
    <3>2. /\ word'[f].cause = "withdrawn" /\ \A g \in Fibers : g # f => word'[g] = word[g]
          /\ word' \in [Fibers -> WaitWords]
      BY <2>7, WakeTypes DEF Claimed, WaitWords
    <3>3. ~Due(f)' /\ ~Due(f)
      BY <2>7, <3>1 DEF Due, Armed, Causes
    <3>4. QED
      BY <2>1, <2>3, <2>5, <2>7, <3>1, <3>2, <3>3, WakeTypes DEF BodyWakes, Armed
  <2>8. QED
    BY <1>4, <2>6, <2>7 DEF Withdraw
<1>5. QED
  BY <1>3, <1>4

LEMMA BodyWakes4 ==
    ASSUME WakeInv, NEW w \in Workers, NEW f \in Fibers,
           Woke(w, f) \/ TimerFailed(w, f) \/ PassOn(w, f) \/ Keep(w, f) \/ Refund(w, f)
    PROVE  BodyWakes(w, f)
<1> USE DEF Keeps
<1>0. code \in [Fibers -> Codes] /\ ctrl \in [Fibers -> Words]
  BY WakeTypes
<1> DEFINE Places4 == {"body", "last", "take", "poll", "done", "passOn", "throw", "refund",
                       "parked", "failed", "taken"}
<1>1. \A p \in Places4 : p \in Spots /\ p \notin WaitSpots
  BY DEF Spots, Reasons, WaitSpots
<1>2. /\ Runs(w, f) /\ code[f].at \in Places4 /\ UNCHANGED <<ctrl, word, buffered>>
      /\ \/ /\ worker' = worker
            /\ waker' = waker \/ waker' = [waker EXCEPT ![w].limit = 1]
         \/ Suspend(w) /\ waker' = waker
      /\ \E p \in Places4 : Goto(f, p)
  <2>1. CASE Woke(w, f) \/ TimerFailed(w, f)
    BY <2>1 DEF Woke, TimerFailed, At, Fail
  <2>2. CASE PassOn(w, f) \/ Keep(w, f) \/ Refund(w, f)
    BY <2>2 DEF PassOn, Keep, GivesBack, Refund, At
  <2>3. QED
    BY <2>1, <2>2
<1>3. code'[f].at \in Places4 /\ \A g \in Fibers : g # f => code'[g] = code[g]
  BY <1>0, <1>1, <1>2, GotoEffect
<1>4. f \notin buffered
  BY <1>1, <1>2, BodyBefore
<1> HIDE DEF Places4
<1>5. QED
  BY <1>1, <1>2, <1>3, <1>4, BodyGoes

LEMMA BodyWakesAll ==
    ASSUME WakeInv, NEW w \in Workers, NEW f \in Fibers, FiberStep(w, f)
    PROVE  BodyWakes(w, f) /\ Runs(w, f)
  BY BodyWakes1, BodyWakes2, BodyWakes3, BodyWakes4, BodyEffect DEF FiberStep

WakeRest ==
    WakesTyped /\ BodiesSound /\ WorkersSound /\ WakersFree /\ QueueSound /\ DebtsSound

-----------------------------------------------------------------------------
(* Steps that leave a part of the invariant alone.                         *)

LEMMA BodiesKept ==
    ASSUME BodiesSound, code' = code,
           \A f \in Fibers : /\ ctrl'[f].phase = ctrl[f].phase
                             /\ Running(f)' <=> Running(f)
                             /\ f \in buffered' <=> f \in buffered
                             /\ word'[f].cause = "armed" => word[f].cause = "armed"
    PROVE  BodiesSound'
  BY DEF BodiesSound, BodySound, Armed, At

LEMMA WorkersKept ==
    ASSUME WorkersSound,
           \A w \in Workers : /\ worker'[w] = worker[w]
                              /\ worker[w].at \notin {"idle", "run"} => waker'[w] = waker[w]
                              /\ worker[w].at \in {"record", "terminate"} =>
                                    ctrl'[worker[w].task].phase = ctrl[worker[w].task].phase
    PROVE  WorkersSound'
  BY DEF WorkersSound, WorkerSound

LEMMA QueueKept ==
    ASSUME QueueSound, code' = code, unit'.queue = unit.queue
    PROVE  QueueSound'
  BY DEF QueueSound, LinkedSpot

LEMMA DebtsKept ==
    ASSUME DebtsSound, \A t \in Threads : waker'[t].owed = waker[t].owed,
           \A f \in Fibers : ctrl'[f].wake = ctrl[f].wake /\ (Due(f)' <=> Due(f))
    PROVE  DebtsSound'
<1>1. \A t \in Threads : \A i, f : Owed(t, i, f)' <=> Owed(t, i, f)
  BY DEF Owed
<1>2. \A f \in Fibers : ctrl'[f].wake \in {0, 1}
  BY DEF DebtsSound
<1>3. \A f \in Fibers : Due(f)' <=> ctrl'[f].wake = 1 \/ \E t \in Threads : \E i : Owed(t, i, f)'
  BY <1>1 DEF DebtsSound
<1>4. \A f \in Fibers : \A t \in Threads : \A i : Owed(t, i, f)' => ctrl'[f].wake = 0
  BY <1>1 DEF DebtsSound
<1>5. \A f \in Fibers : \A t, u \in Threads : \A i, j :
          Owed(t, i, f)' /\ Owed(u, j, f)' => t = u /\ i = j
  BY <1>1 DEF DebtsSound
<1>6. QED
  BY <1>2, <1>3, <1>4, <1>5 DEF DebtsSound

(* Who claims waits that are armed owes each one wake.                     *)
LEMMA DebtsClaimed ==
    ASSUME WakeInv, NEW t \in Threads, waker[t].owed = <<>>, NEW s \in Seq(Fibers),
           \A i, j \in DOMAIN s : s[i] = s[j] => i = j, \A i \in DOMAIN s : Armed(s[i]),
           NEW cause \in Causes, word' = Claimed({s[i] : i \in DOMAIN s}, cause),
           waker'[t].owed = s, \A u \in Threads : u # t => waker'[u].owed = waker[u].owed,
           UNCHANGED <<ctrl, buffered>>
    PROVE  /\ DebtsSound'
           /\ word' \in [Fibers -> WaitWords]
           /\ \A f \in Fibers : word'[f].cause = "armed" => word[f].cause = "armed"
<1> DEFINE Won(f) == \E i \in DOMAIN s : s[i] = f
<1>0. \A i \in DOMAIN s : s[i] \in Fibers
  BY LenProperties
<1>1. /\ word' \in [Fibers -> WaitWords]
      /\ \A f \in Fibers : Won(f) => word'[f].cause = cause
      /\ \A f \in Fibers : ~Won(f) => word'[f] = word[f]
  <2>1. \A f \in Fibers : f \in {s[i] : i \in DOMAIN s} <=> Won(f)
    OBVIOUS
  <2>2. PICK W : W = {s[i] : i \in DOMAIN s}
    OBVIOUS
  <2>3. word' = [f \in Fibers |-> IF f \in W THEN [word[f] EXCEPT !.cause = cause] ELSE word[f]]
    BY <2>2 DEF Claimed
  <2>4. /\ word' \in [Fibers -> WaitWords]
        /\ \A f \in Fibers : f \in W => word'[f].cause = cause
        /\ \A f \in Fibers : f \notin W => word'[f] = word[f]
    <3>1. \A r \in WaitWords : /\ [r EXCEPT !.cause = cause] \in WaitWords
                               /\ [r EXCEPT !.cause = cause].cause = cause
      BY DEF WaitWords
    <3>2. \A f \in Fibers : word'[f] = IF f \in W THEN [word[f] EXCEPT !.cause = cause] ELSE word[f]
      BY <2>3
    <3>3. \A f \in Fibers : /\ word'[f] \in WaitWords
                            /\ f \in W => word'[f].cause = cause
                            /\ f \notin W => word'[f] = word[f]
      <4>1. ASSUME NEW f \in Fibers
            PROVE  \E r \in WaitWords : r = word[f] /\ word'[f] = IF f \in W THEN [r EXCEPT !.cause = cause] ELSE r
        BY <3>2, WakeTypes
      <4>2. QED
        BY <3>1, <4>1
    <3>4. \A f \in Fibers : (IF f \in W THEN [word[f] EXCEPT !.cause = cause] ELSE word[f]) \in WaitWords
      BY <3>1, WakeTypes
    <3>5. word' \in [Fibers -> WaitWords]
      BY <2>3, <3>4
    <3>6. QED
      BY <3>3, <3>5
  <2> HIDE DEF Won
  <2>5. QED
    BY <2>1, <2>2, <2>4
<1>2. cause # "armed"
  BY DEF Causes
<1>3. \A f \in Fibers : Won(f) => Armed(f) /\ ctrl[f].phase = "waiting" /\ f \notin buffered
  BY DEF WakeInv, BodiesSound, BodySound
<1>4. \A f \in Fibers : Won(f) => ~Due(f) /\ Due(f)'
  BY <1>1, <1>3 DEF Due, Stored, Armed, Causes
<1>5. \A f \in Fibers : ~Won(f) => (Due(f)' <=> Due(f))
  BY <1>1 DEF Due, Stored
<1>6. \A i, f : ~Owed(t, i, f)
  BY DEF Owed
<1>7. \A i, f : Owed(t, i, f)' <=> i \in DOMAIN s /\ s[i] = f
  BY DEF Owed
<1>8. \A u \in Threads : u # t => \A i, f : Owed(u, i, f)' <=> Owed(u, i, f)
  BY DEF Owed
<1>9. \A f \in Fibers : Won(f) => ctrl[f].wake = 0 /\ \A u \in Threads : \A i : ~Owed(u, i, f)
  BY <1>4 DEF WakeInv, DebtsSound
<1>10. \A f \in Fibers : ctrl'[f].wake \in {0, 1}
  BY DEF WakeInv, DebtsSound
<1>11. ASSUME NEW f \in Fibers
       PROVE  Due(f)' <=> ctrl'[f].wake = 1 \/ \E u \in Threads : \E i : Owed(u, i, f)'
  <2>1. CASE Won(f)
    BY <1>4, <1>7, <2>1
  <2>2. CASE ~Won(f)
    <3>1. \A u \in Threads : \A i : Owed(u, i, f)' <=> Owed(u, i, f)
      BY <1>6, <1>7, <1>8, <2>2
    <3>2. Due(f) <=> ctrl[f].wake = 1 \/ \E u \in Threads : \E i : Owed(u, i, f)
      BY DEF WakeInv, DebtsSound
    <3>3. Due(f)' <=> Due(f)
      BY <1>5, <2>2
    <3> HIDE DEF Won
    <3>4. QED
      BY <3>1, <3>2, <3>3
  <2>3. QED
    BY <2>1, <2>2
<1>12. ASSUME NEW f \in Fibers, NEW u \in Threads, NEW i, Owed(u, i, f)'
       PROVE  ctrl'[f].wake = 0
  <2>1. CASE Won(f)
    BY <1>9, <2>1
  <2>2. CASE ~Won(f)
    <3>1. Owed(u, i, f)
      BY <1>7, <1>8, <1>12, <2>2
    <3>2. QED
      BY <3>1 DEF WakeInv, DebtsSound
  <2>3. QED
    BY <2>1, <2>2
<1>13. ASSUME NEW f \in Fibers, NEW u \in Threads, NEW v \in Threads, NEW i, NEW j,
              Owed(u, i, f)', Owed(v, j, f)'
       PROVE  u = v /\ i = j
  <2>1. CASE Won(f)
    <3>1. u = t /\ v = t
      BY <1>8, <1>9, <1>13, <2>1
    <3>2. QED
      BY <1>7, <1>13, <3>1
  <2>2. CASE ~Won(f)
    <3>1. Owed(u, i, f) /\ Owed(v, j, f)
      BY <1>7, <1>8, <1>13, <2>2
    <3>2. QED
      BY <3>1 DEF WakeInv, DebtsSound
  <2>3. QED
    BY <2>1, <2>2
<1>14. \A f \in Fibers : word'[f].cause = "armed" => word[f].cause = "armed"
  <2> HIDE DEF Won
  <2> QED
    BY <1>1, <1>2
<1> HIDE DEF Won
<1>15. DebtsSound'
  BY <1>10, <1>11, <1>12, <1>13 DEF DebtsSound
<1>16. QED
  BY <1>1, <1>14, <1>15

-----------------------------------------------------------------------------
(* What a body's step leaves in order.                                     *)

LEMMA BodyKeepsRest ==
    ASSUME WakeInv, NEW w \in Workers, NEW f \in Fibers, BodyWakes(w, f), Runs(w, f),
           UNCHANGED <<pump, cancel>>
    PROVE  BodiesSound' /\ WorkersSound' /\ WakersFree' /\ DebtsSound'
<1>0. /\ f # None /\ waker[w] = Quiet /\ worker[w].at = "run" /\ worker[w].task = f
      /\ w \in Threads
  BY FiberArgs DEF Runs, Threads
<1>1. \A v \in Workers : v # w => worker[v].task # f
  BY <1>0 DEF WakeInv, PlaceInv, OneWorker
<1>2. /\ \A v \in Workers : v # w => worker'[v] = worker[v]
      /\ worker'[w].task = f
      /\ worker' = worker \/ worker'[w].at = "suspend"
  BY <1>0, WakeTypes DEF BodyWakes
<1>3. \A g \in Fibers : g # f => (Running(g)' <=> Running(g))
  BY <1>0, <1>2 DEF Running
<1>4. Running(f)' <=> worker' = worker
  <2>1. CASE worker' = worker
    BY <1>0, <2>1 DEF Running
  <2>2. CASE worker' # worker
    BY <1>1, <1>2, <2>2 DEF Running
  <2>3. QED
    BY <2>1, <2>2
<1>5. BodiesSound'
  <2>1. \A g \in Fibers : BodySound(g)
    BY DEF WakeInv, BodiesSound
  <2>2. ASSUME NEW g \in Fibers, g # f PROVE BodySound(g)'
    <3>1. /\ ctrl'[g] = ctrl[g] /\ code'[g] = code[g] /\ word'[g] = word[g]
          /\ g \in buffered' <=> g \in buffered
      BY <2>2 DEF BodyWakes
    <3>2. QED
      BY <1>3, <2>1, <2>2, <3>1 DEF BodySound, Armed, At
  <2>3. BodySound(f)'
    <3>1. /\ worker' = worker =>
                ctrl'[f].phase = IF code'[f].at \in WaitSpots THEN "waiting" ELSE "running"
          /\ worker' # worker => code'[f].at \notin WaitSpots
          /\ f \in buffered' => code'[f].at = "armed" /\ word'[f].cause # "armed"
          /\ word'[f].cause = "armed" => ctrl'[f].phase = "waiting"
      BY DEF BodyWakes
    <3>2. /\ code'[f].at \in WaitSpots => Running(f)'
          /\ Running(f)' =>
                ctrl'[f].phase = IF code'[f].at \in WaitSpots THEN "waiting" ELSE "running"
      BY <1>4, <3>1
    <3>3. QED
      BY <3>1, <3>2 DEF BodySound, Armed, At
  <2>4. QED
    BY <2>2, <2>3 DEF BodiesSound
<1>6. /\ \A t \in Threads : waker'[t].owed = waker[t].owed
      /\ \A t \in Threads : t # w => waker'[t] = waker[t]
      /\ waker'[w].owed = <<>>
  <2>1. waker' = waker \/ waker' = [waker EXCEPT ![w].limit = 1]
    BY DEF BodyWakes
  <2>2. waker[w].owed = <<>>
    BY <1>0 DEF Quiet
  <2>3. CASE waker' = waker
    BY <2>2, <2>3
  <2>4. CASE waker' = [waker EXCEPT ![w].limit = 1]
    BY <1>0, <2>2, <2>4, WakeTypes
  <2>5. QED
    BY <2>1, <2>3, <2>4
<1>7. WorkersSound'
  <2>1. ASSUME NEW v \in Workers, v # w PROVE WorkerSound(v)'
    <3>1. waker'[v] = waker[v] /\ worker'[v] = worker[v]
      BY <1>2, <1>6, <2>1 DEF Threads
    <3>2. worker[v].at \in {"record", "terminate"} => worker[v].task \in Fibers /\ worker[v].task # f
      BY <1>1, <2>1, WakeTypes DEF WakeInv, PlaceInv, OneWorker
    <3>3. \A g \in Fibers : g # f => ctrl'[g] = ctrl[g]
      BY DEF BodyWakes
    <3>4. QED
      BY <3>1, <3>2, <3>3 DEF WakeInv, WorkersSound, WorkerSound
  <2>2. WorkerSound(w)'
    <3>1. worker' # worker => waker' = waker
      BY DEF BodyWakes
    <3>2. QED
      BY <1>0, <1>2, <3>1 DEF WorkerSound
  <2>3. QED
    BY <2>1, <2>2 DEF WorkersSound
<1>8. WakersFree'
  <2>1. w # "timers" /\ w # "director"
    BY ThreadsApart
  <2>2. waker'["timers"] = waker["timers"] /\ waker'["director"] = waker["director"]
    BY <1>6, <2>1, ThreadsApart
  <2>3. QED
    BY <1>6, <2>2 DEF WakeInv, WakersFree
<1>9. DebtsSound'
  <2>1. \A g \in Fibers : ctrl'[g].wake = ctrl[g].wake /\ (Due(g)' <=> Due(g))
    BY DEF BodyWakes, Due, Stored
  <2>2. QED
    BY <1>6, <2>1, DebtsKept DEF WakeInv
<1>10. QED
  BY <1>5, <1>7, <1>8, <1>9

-----------------------------------------------------------------------------
(* The queue, and the lists of joiners, in a body's step.                  *)

LEMMA QueueFields ==
    ASSUME NEW Q, NEW u \in Owners(Q), NEW n, NEW m, NEW k, NEW q
    PROVE  /\ [u EXCEPT !.units = n].queue = u.queue /\ [u EXCEPT !.spent = n].queue = u.queue
           /\ [u EXCEPT !.units = n, !.granted = m].queue = u.queue
           /\ [u EXCEPT !.units = n, !.given = m, !.posts = k].queue = u.queue
           /\ [u EXCEPT !.queue = q].queue = q /\ [u EXCEPT !.queue = q, !.granted = m].queue = q
  BY DEF Owners

LEMMA QueueStays ==
    ASSUME WakeInv, NEW f \in Fibers, \A g \in Fibers : g # f => code'[g] = code[g],
           unit'.queue = unit.queue, LinkedSpot(f) => LinkedSpot(f)'
    PROVE  QueueSound'
<1>1. \A g \in Fibers : LinkedSpot(g) => LinkedSpot(g)'
  BY DEF LinkedSpot
<1>2. \A i \in DOMAIN unit.queue : unit.queue[i] \in Fibers
  BY WakeTypes, LenProperties
<1>3. PICK q : q = unit.queue /\ q = unit'.queue
  OBVIOUS
<1>4. \A i \in DOMAIN q : q[i] \in Fibers /\ LinkedSpot(q[i])
  BY <1>2, <1>3 DEF WakeInv, QueueSound
<1>5. \A i \in DOMAIN q : LinkedSpot(q[i])'
  BY <1>1, <1>4
<1>6. QED
  BY <1>3, <1>5 DEF WakeInv, QueueSound

LEMMA QueueLeft ==
    ASSUME WakeInv, NEW f \in Fibers, \A g \in Fibers : g # f => code'[g] = code[g],
           unit'.queue = Without(f)
    PROVE  QueueSound'
<1>1. \A g \in Fibers : g # f /\ LinkedSpot(g) => LinkedSpot(g)'
  BY DEF LinkedSpot
<1>2. PICK r : r = Without(f) /\ r = unit'.queue
  OBVIOUS
<1>3. /\ r \in Seq(Fibers) /\ \A i, j \in DOMAIN r : r[i] = r[j] => i = j
      /\ \A i \in DOMAIN r : \E j \in DOMAIN unit.queue : unit.queue[j] # f /\ r[i] = unit.queue[j]
  BY <1>2, WithoutQueued DEF WakeInv, QueueSound
<1>4. \A i \in DOMAIN r : r[i] \in Fibers /\ r[i] # f /\ LinkedSpot(r[i])
  <2>1. \A i \in DOMAIN r : r[i] \in Fibers
    BY <1>3, LenProperties
  <2>2. QED
    BY <1>3, <2>1 DEF WakeInv, QueueSound
<1>5. \A i \in DOMAIN r : LinkedSpot(r[i])'
  BY <1>1, <1>4
<1>6. QED
  BY <1>2, <1>3, <1>5 DEF QueueSound

LEMMA QueueLinked ==
    ASSUME WakeInv, NEW f \in Fibers, \A g \in Fibers : g # f => code'[g] = code[g],
           unit'.queue = Append(unit.queue, f), ~LinkedSpot(f), LinkedSpot(f)'
    PROVE  QueueSound'
<1>1. \A g \in Fibers : LinkedSpot(g) => LinkedSpot(g)'
  BY DEF LinkedSpot
<1>2. PICK q \in Seq(Fibers) : q = unit.queue
  BY WakeTypes
<1>3. PICK r : r = Append(q, f) /\ r = unit'.queue
  BY <1>2
<1>4. /\ \A i, j \in DOMAIN q : q[i] = q[j] => i = j
      /\ \A i \in DOMAIN q : q[i] \in Fibers /\ LinkedSpot(q[i])
  <2>1. \A i \in DOMAIN q : q[i] \in Fibers
    BY LenProperties
  <2>2. QED
    BY <1>2, <2>1 DEF WakeInv, QueueSound
<1>5. \A i \in DOMAIN q : q[i] # f
  BY <1>4
<1>6. /\ r \in Seq(Fibers) /\ \A i, j \in DOMAIN r : r[i] = r[j] => i = j
      /\ \A i \in DOMAIN r : r[i] = f \/ \E j \in DOMAIN q : r[i] = q[j]
  <2>1. r = Append(q, f)
    BY <1>3
  <2>2. \A i, j \in DOMAIN q : q[i] = q[j] => i = j
    BY <1>4
  <2>3. QED
    BY <1>5, <2>1, <2>2, OneLinked
<1>7. \A i \in DOMAIN r : LinkedSpot(r[i])'
  BY <1>1, <1>4, <1>6
<1>8. QED
  BY <1>3, <1>6, <1>7 DEF QueueSound

LEMMA BodyKeepsQueue ==
    ASSUME WakeInv, NEW w \in Workers, NEW f \in Fibers, FiberStep(w, f)
    PROVE  QueueSound'
<1> USE DEF Keeps
<1>0. code \in [Fibers -> Codes] /\ \A g \in Fibers : g # f => code'[g] = code[g]
  BY WakeTypes, BodyWakesAll DEF BodyWakes
<1>00. PICK Q : unit \in Owners(Q)
  BY WakeTypes
<1>1. ASSUME NEW place, At(f, place),
             place \notin {"retake", "timer", "parked", "taken", "failed", "withdraw"},
             unit'.queue = unit.queue
      PROVE  QueueSound'
  BY <1>0, <1>1, QueueStays DEF LinkedSpot, At
<1>2. CASE Body(w, f) \/ Throw(w, f) \/ YieldReady(w, f)
  BY <1>1, <1>2 DEF Body, Throw, YieldReady
<1>3. CASE TryTake(w, f) \/ Poll(w, f)
  <2>1. unit'.queue = unit.queue
    <3>1. unit' = unit \/ \E n, m : unit' = [unit EXCEPT !.units = n, !.granted = m]
      BY <1>3 DEF TryTake, Take1, Poll, OnlyCode
    <3>2. ASSUME NEW n, NEW m, unit' = [unit EXCEPT !.units = n, !.granted = m]
          PROVE  unit'.queue = unit.queue
      BY <1>00, <3>2, QueueFields
    <3>3. QED
      BY <3>1, <3>2
  <2>2. QED
    BY <1>1, <1>3, <2>1 DEF TryTake, Take1, Poll
<1>4. CASE Arm(w, f) \/ Armable(w, f)
  BY <1>1, <1>4 DEF Arm, Armable, OnlyCode
<1>5. CASE Register(w, f) \/ PassOn(w, f)
  BY <1>1, <1>5 DEF Register, PassOn
<1>6. CASE Refund(w, f)
  <2>1. unit'.queue = unit.queue
    BY <1>6, <1>00, QueueFields DEF Refund
  <2>2. QED
    BY <1>1, <1>6, <2>1 DEF Refund
<1>7. CASE Link(w, f)
  <2>1. ~LinkedSpot(f) /\ Goto(f, "retake") /\ unit'.queue = Append(unit.queue, f)
    BY <1>7, <1>00, QueueFields DEF Link, At, LinkedSpot
  <2>2. "retake" \in Spots
    BY DEF Spots
  <2>3. LinkedSpot(f)'
    BY <1>0, <2>1, <2>2, GotoEffect DEF LinkedSpot
  <2>4. QED
    BY <1>0, <2>1, <2>3, QueueLinked
<1>8. CASE Retake(w, f) \/ ArmTimer(w, f)
  <2>1. /\ unit'.queue = unit.queue
        /\ Backout(f, "taken") \/ Backout(f, "failed") \/ Goto(f, "timer") \/ Goto(f, "parked")
    <3>1. unit' = unit \/ \E n : unit' = [unit EXCEPT !.units = n]
      BY <1>8 DEF Retake, ArmTimer
    <3>2. ASSUME NEW n, unit' = [unit EXCEPT !.units = n]
          PROVE  unit'.queue = unit.queue
      BY <1>00, <3>2, QueueFields
    <3>3. unit'.queue = unit.queue
      BY <3>1, <3>2
    <3>4. QED
      BY <1>8, <3>3 DEF Retake, ArmTimer, GoOn
  <2>2. "timer" \in Spots /\ "parked" \in Spots /\ "taken" \in Reasons /\ "failed" \in Reasons
    BY DEF Spots, Reasons
  <2>3. LinkedSpot(f)'
    BY <1>0, <2>1, <2>2, GotoEffect, BackoutEffect DEF LinkedSpot
  <2>4. QED
    BY <1>0, <2>1, <2>3, QueueStays
<1>9. CASE Withdraw(w, f)
  <2>1. unit'.queue = unit.queue /\ code[f].at = "withdraw" /\ Goto(f, code[f].next)
    BY <1>9, <1>00, QueueFields DEF Withdraw, At
  <2>2. PICK p \in Reasons : p = code[f].next
    BY <1>0 DEF Codes
  <2>3. code'[f].at = p
    <3>1. p \in Spots
      BY DEF Spots
    <3>2. QED
      BY <1>0, <2>1, <2>2, <3>1, GotoEffect
  <2>4. LinkedSpot(f) => LinkedSpot(f)'
    BY <2>1, <2>2, <2>3 DEF LinkedSpot
  <2>5. QED
    BY <1>0, <2>1, <2>4, QueueStays
<1>10. CASE Woke(w, f) \/ TimerFailed(w, f) \/ Keep(w, f)
  <2>1. unit'.queue = Without(f)
    <3>1. CASE Woke(w, f) \/ TimerFailed(w, f)
      <4>1. unit' = [unit EXCEPT !.queue = Without(f)]
        BY <3>1 DEF Woke, TimerFailed, Unlink
      <4>2. QED
        BY <1>00, <4>1, QueueFields
    <3>2. CASE Keep(w, f)
      <4>1. PICK m : unit' = [unit EXCEPT !.queue = Without(f), !.granted = m]
        BY <3>2 DEF Keep, GivesBack
      <4>2. QED
        BY <1>00, <4>1, QueueFields
    <3>3. QED
      BY <1>10, <3>1, <3>2
  <2>2. QED
    BY <1>0, <2>1, QueueLeft
<1>11. QED
  BY <1>2, <1>3, <1>4, <1>5, <1>6, <1>7, <1>8, <1>9, <1>10 DEF FiberStep

(* A body links itself to one list at a time, and leaves all.              *)
LEMMA BodyKeepsJoiners ==
    ASSUME WakeInv, NEW w \in Workers, NEW f \in Fibers, FiberStep(w, f)
    PROVE  joiners' \in [Fibers -> SUBSET Fibers]
<1> USE DEF Keeps
<1>1. joiners \in [Fibers -> SUBSET Fibers]
  BY WakeTypes
<1>2. CASE Register(w, f)
  <2>1. joiners' = joiners \/ \E t : joiners' = [joiners EXCEPT ![t] = @ \cup {f}]
    BY <1>2 DEF Register
  <2>2. QED
    BY <1>1, <2>1
<1>3. CASE Woke(w, f) \/ TimerFailed(w, f)
  BY <1>1, <1>3 DEF Woke, TimerFailed, Unlink
<1>4. CASE Body(w, f) \/ Throw(w, f) \/ YieldReady(w, f) \/ TryTake(w, f) \/ Poll(w, f)
  BY <1>1, <1>4 DEF Body, Throw, YieldReady, TryTake, Take1, Poll, OnlyCode
<1>5. CASE Arm(w, f) \/ Armable(w, f) \/ Link(w, f) \/ Retake(w, f)
  BY <1>1, <1>5 DEF Arm, Armable, Link, Retake, OnlyCode
<1>6. CASE ArmTimer(w, f) \/ Withdraw(w, f) \/ PassOn(w, f) \/ Keep(w, f) \/ Refund(w, f)
  BY <1>1, <1>6 DEF ArmTimer, Withdraw, PassOn, Keep, GivesBack, Refund
<1>7. QED
  BY <1>2, <1>3, <1>4, <1>5, <1>6 DEF FiberStep

LEMMA WakeBody ==
    ASSUME WakeInv, NEW w \in Workers, NEW f \in Fibers, FiberStep(w, f),
           UNCHANGED domainVars
    PROVE  WakeRest'
<1>1. BodyWakes(w, f) /\ Runs(w, f)
  BY BodyWakesAll
<1>2. UNCHANGED <<pump, cancel>>
  BY DEF domainVars
<1>3. BodiesSound' /\ WorkersSound' /\ WakersFree' /\ DebtsSound'
  BY <1>1, <1>2, BodyKeepsRest
<1>4. waker' \in [Threads -> [limit : Nat, owed : Seq(Fibers)]]
  <2>1. waker' = waker \/ waker' = [waker EXCEPT ![w].limit = 1]
    BY <1>1 DEF BodyWakes
  <2>2. w \in Threads
    BY DEF Threads
  <2>3. \A r \in [limit : Nat, owed : Seq(Fibers)] :
           [r EXCEPT !.limit = 1] \in [limit : Nat, owed : Seq(Fibers)]
    OBVIOUS
  <2>4. CASE waker' = [waker EXCEPT ![w].limit = 1]
    <3>1. waker' = [waker EXCEPT ![w] = [waker[w] EXCEPT !.limit = 1]]
      BY <2>4
    <3>2. QED
      BY <2>2, <2>3, <3>1, WakeTypes
  <2>5. QED
    BY <2>1, <2>4, WakeTypes
<1>5. WakesTyped'
  BY <1>1, <1>2, <1>4, BodyKeepsJoiners DEF BodyWakes, WakeInv, WakesTyped
<1>6. QED
  BY <1>3, <1>5, BodyKeepsQueue DEF WakeRest

-----------------------------------------------------------------------------
(* The other steps.                                                        *)

Wakers == [limit : Nat, owed : Seq(Fibers)]

LEMMA TailOf ==
    ASSUME NEW S, NEW o \in Seq(S), o # <<>>
    PROVE  \E l \in Nat : /\ l >= 1 /\ DOMAIN o = 1 .. l /\ Head(o) = o[1] /\ o[1] \in S
                          /\ Tail(o) \in Seq(S) /\ DOMAIN Tail(o) = 1 .. l - 1
                          /\ \A i \in 1 .. l - 1 : Tail(o)[i] = o[i + 1]
<1>1. PICK l \in Nat : l = Len(o) /\ DOMAIN o = 1 .. l
  BY LenProperties
<1>2. l >= 1
  BY <1>1, EmptySeq
<1>3. Head(o) = o[1] /\ o[1] \in S
  BY <1>1, <1>2, LenProperties
<1>4. Tail(o) \in Seq(S) /\ DOMAIN Tail(o) = 1 .. l - 1 /\ \A i \in 1 .. l - 1 : Tail(o)[i] = o[i + 1]
  BY <1>1, <1>2, HeadTailProperties, LenProperties
<1>5. QED
  BY <1>1, <1>2, <1>3, <1>4

(* Steps that touch no wait, no body and no worker.                        *)
LEMMA WakeAside ==
    ASSUME WakeInv, UNCHANGED <<word, buffered, code, worker, joiners>>,
           unit'.queue = unit.queue,
           \A f \in Fibers : ctrl'[f].phase = ctrl[f].phase /\ ctrl'[f].wake = ctrl[f].wake,
           waker' \in [Threads -> Wakers],
           \A t \in Threads : waker'[t].owed = waker[t].owed,
           \A w \in Workers : waker'[w] = waker[w],
           pump'.task \in Fibers \/ pump' = NoEntry,
           cancel'.at \in {"add", "accept", "claim"} => cancel'.task \in Fibers,
           cancel' \in Cancels, WakersFree'
    PROVE  WakeRest'
<1>1. WakesTyped'
  BY DEF WakeInv, WakesTyped, Wakers
<1>2. BodiesSound'
  BY BodiesKept DEF WakeInv, Running
<1>3. WorkersSound'
  <2>1. \A w \in Workers : worker[w].at \in {"record", "terminate"} => worker[w].task \in Fibers
    BY WakeTypes DEF WakeInv, PlaceInv, OneWorker
  <2>2. QED
    BY <2>1, WorkersKept DEF WakeInv
<1>4. QueueSound'
  BY QueueKept DEF WakeInv
<1>5. DebtsSound'
  <2>1. \A f \in Fibers : Due(f)' <=> Due(f)
    BY DEF Due, Stored
  <2>2. QED
    BY <2>1, DebtsKept DEF WakeInv
<1>6. QED
  BY <1>1, <1>2, <1>3, <1>4, <1>5 DEF WakeRest

LEMMA WakeUnchanged == ASSUME WakeInv, UNCHANGED vars PROVE WakeRest'
<1>1. /\ UNCHANGED <<word, buffered, code, worker, joiners, waker, pump, cancel, ctrl>>
      /\ unit'.queue = unit.queue
  BY DEF vars, taskVars, domainVars
<1>2. WakersFree'
  BY <1>1 DEF WakeInv, WakersFree
<1>3. QED
  BY <1>1, <1>2, WakeTypes, WakeAside DEF WakeInv, WakesTyped, Wakers

LEMMA WakePosters ==
    ASSUME WakeInv, NEW p \in Posters, Post(p) \/ Reset(p), UNCHANGED domainVars
    PROVE  WakeRest'
<1>0. /\ UNCHANGED <<word, buffered, code, worker, joiners, ctrl, pump, cancel>>
      /\ p \in Threads
  BY DEF Post, Reset, taskVars, domainVars, Threads
<1>1. PICK Q : unit \in Owners(Q)
  BY WakeTypes
<1>2. unit'.queue = unit.queue
  <2>1. ASSUME NEW n, NEW m, NEW k, unit' = [unit EXCEPT !.units = n, !.given = m, !.posts = k]
        PROVE  unit'.queue = unit.queue
    BY <1>1, <2>1, QueueFields
  <2>2. ASSUME NEW n, unit' = [unit EXCEPT !.units = n] PROVE unit'.queue = unit.queue
    BY <1>1, <2>2, QueueFields
  <2>3. CASE Post(p)
    <3>1. PICK n \in 1 .. 2 :
             unit' = [unit EXCEPT !.units = UnitsAfterPost(n), !.given = unit.given + n,
                                  !.posts = unit.posts + 1]
      BY <2>3 DEF Post
    <3>2. QED
      BY <2>1, <3>1
  <2>4. CASE Reset(p)
    BY <2>2, <2>4 DEF Reset
  <2>5. QED
    BY <2>3, <2>4
<1>3. waker' = waker \/ (waker[p] = Quiet /\ \E n \in Nat : waker' = [waker EXCEPT ![p].limit = n])
  <2>1. CASE Reset(p)
    BY <2>1 DEF Reset, taskVars
  <2>2. CASE Post(p)
    <3>1. \A n \in 1 .. 2 : n \in Nat
      OBVIOUS
    <3>2. PICK n \in 1 .. 2 : waker[p] = Quiet /\ waker' = [waker EXCEPT ![p].limit = n]
      BY <2>2 DEF Post
    <3>3. QED
      BY <3>1, <3>2
  <2>3. QED
    BY <2>1, <2>2
<1>4. /\ waker' \in [Threads -> Wakers]
      /\ \A t \in Threads : waker'[t].owed = waker[t].owed /\ (t # p => waker'[t] = waker[t])
      /\ waker' = waker \/ waker'[p].owed = <<>>
  <2>1. waker \in [Threads -> Wakers]
    BY WakeTypes DEF Wakers
  <2>2. CASE waker' = waker
    BY <2>1, <2>2
  <2>3. ASSUME NEW n \in Nat, waker' = [waker EXCEPT ![p].limit = n], waker[p] = Quiet
        PROVE  /\ waker' \in [Threads -> Wakers]
               /\ \A t \in Threads : waker'[t].owed = waker[t].owed /\ (t # p => waker'[t] = waker[t])
               /\ waker'[p].owed = <<>>
    <3>1. \A r \in Wakers : [r EXCEPT !.limit = n] \in Wakers /\ [r EXCEPT !.limit = n].owed = r.owed
      BY DEF Wakers
    <3>2. waker' = [waker EXCEPT ![p] = [waker[p] EXCEPT !.limit = n]]
      BY <2>3
    <3>3. waker[p].owed = <<>>
      BY <2>3 DEF Quiet
    <3>4. QED
      BY <1>0, <2>1, <3>1, <3>2, <3>3
  <2>4. QED
    BY <1>3, <2>2, <2>3
<1>5. \A w \in Workers : waker'[w] = waker[w]
  BY <1>4, ThreadsApart
<1>6. WakersFree'
  BY <1>0, <1>4, ThreadsApart DEF WakeInv, WakersFree
<1>7. QED
  BY <1>0, <1>2, <1>4, <1>5, <1>6, WakeAside DEF WakeInv, WakesTyped

LEMMA WakeSpawn == ASSUME WakeInv, NEW f \in Fibers, Spawn(f) PROVE WakeRest'
<1>1. UNCHANGED <<word, buffered, code, worker, joiners, waker, pump, cancel, ctrl, unit>>
  BY DEF Spawn
<1>2. WakersFree'
  BY <1>1 DEF WakeInv, WakersFree
<1>3. QED
  BY <1>1, <1>2, WakeTypes, WakeAside DEF WakeInv, WakesTyped, Wakers

LEMMA WakeExpire == ASSUME WakeInv, Expire PROVE WakeRest'
<1>1. /\ UNCHANGED <<word, buffered, code, worker, joiners, waker, cancel, ctrl, unit>>
      /\ waker["timers"] = Quiet /\ pump'.task \in Fibers
  BY DEF Expire
<1>2. WakersFree'
  BY <1>1 DEF WakeInv, WakersFree
<1>3. QED
  BY <1>1, <1>2, WakeTypes, WakeAside DEF WakeInv, WakesTyped, Wakers


(* The cancellations that claim no wait.                                   *)
LEMMA CancelFields ==
    ASSUME NEW c \in Cancels, NEW at \in {"idle", "next", "add", "accept", "claim"},
           NEW f \in Fibers \cup {None}, NEW n \in Nat, NEW s \in Seq(Fibers), NEW b \in BOOLEAN,
           NEW k \in Nat
    PROVE  /\ [c EXCEPT !.at = at] \in Cancels /\ [c EXCEPT !.at = at].at = at
           /\ [c EXCEPT !.at = at].task = c.task
           /\ [c EXCEPT !.at = at, !.n = n] \in Cancels /\ [c EXCEPT !.at = at, !.n = n].task = c.task
           /\ [c EXCEPT !.at = at, !.task = f, !.n = n] \in Cancels
           /\ [c EXCEPT !.at = at, !.task = f, !.n = n].at = at
           /\ [c EXCEPT !.at = at, !.task = f, !.todo = s] \in Cancels
           /\ [c EXCEPT !.at = at, !.task = f, !.todo = s].task = f
           /\ [c EXCEPT !.todo = s] \in Cancels /\ [c EXCEPT !.todo = s].at = c.at
           /\ [c EXCEPT !.orders = k] \in Cancels /\ [c EXCEPT !.orders = k].at = c.at
           /\ [c EXCEPT !.orders = k].task = c.task
           /\ [c EXCEPT !.all = b, !.at = at, !.orders = k, !.todo = s] \in Cancels
           /\ [c EXCEPT !.all = b, !.at = at, !.orders = k, !.todo = s].at = at
<1>1. /\ [c EXCEPT !.at = at] \in Cancels /\ [c EXCEPT !.at = at].at = at
      /\ [c EXCEPT !.at = at].task = c.task
  BY DEF Cancels
<1>2. [c EXCEPT !.at = at, !.n = n] \in Cancels /\ [c EXCEPT !.at = at, !.n = n].task = c.task
  BY DEF Cancels
<1>3. /\ [c EXCEPT !.at = at, !.task = f, !.n = n] \in Cancels
      /\ [c EXCEPT !.at = at, !.task = f, !.n = n].at = at
  BY DEF Cancels
<1>4. /\ [c EXCEPT !.at = at, !.task = f, !.todo = s] \in Cancels
      /\ [c EXCEPT !.at = at, !.task = f, !.todo = s].task = f
  BY DEF Cancels
<1>5. /\ [c EXCEPT !.todo = s] \in Cancels /\ [c EXCEPT !.todo = s].at = c.at
      /\ [c EXCEPT !.orders = k] \in Cancels /\ [c EXCEPT !.orders = k].at = c.at
      /\ [c EXCEPT !.orders = k].task = c.task
  BY DEF Cancels
<1>6. /\ [c EXCEPT !.all = b, !.at = at, !.orders = k, !.todo = s] \in Cancels
      /\ [c EXCEPT !.all = b, !.at = at, !.orders = k, !.todo = s].at = at
  BY DEF Cancels
<1>7. QED
  BY <1>1, <1>2, <1>3, <1>4, <1>5, <1>6

(* What the next task's cancellation becomes.                              *)
LEMMA ApplyFields ==
    ASSUME cancel \in Cancels, NEW f \in Fibers, NEW s \in Seq(Fibers)
    PROVE  /\ Apply(f, s) \in Cancels
           /\ Apply(f, s).at \in {"add", "accept", "claim"} => Apply(f, s).task \in Fibers
<1>1. CASE Refuses(f)
  <2>1. PICK c \in Cancels : c = Applied /\ c.at = "next"
    <3>1. [cancel EXCEPT !.at = "next", !.task = None, !.n = 0] \in Cancels
      BY DEF Cancels
    <3>2. [cancel EXCEPT !.at = "next", !.task = None, !.n = 0].at = "next"
      BY DEF Cancels
    <3>3. QED
      BY <3>1, <3>2 DEF Applied
  <2>2. Apply(f, s) = [c EXCEPT !.todo = s]
    BY <1>1, <2>1 DEF Apply
  <2>3. QED
    BY <2>1, <2>2 DEF Cancels
<1>2. CASE ~Refuses(f)
  <2>1. Apply(f, s) = [cancel EXCEPT !.at = "add", !.task = f, !.todo = s]
    BY <1>2 DEF Apply
  <2>2. QED
    BY <2>1 DEF Cancels
<1>3. QED
  BY <1>1, <1>2

LEMMA WakeApplier ==
    ASSUME WakeInv,
           \/ BeginShutdown \/ NextTask \/ AddCancel \/ Accept
           \/ \E f \in Fibers : Request(f)
    PROVE  WakeRest'
<1>0. cancel \in Cancels /\ cancel.todo \in Seq(Fibers) /\ roots \in Seq(Fibers) /\ cancel.orders \in Nat
  BY DEF WakeInv, WakesTyped, Cancels, PlaceInv, RootsTyped
<1>1. UNCHANGED <<word, buffered, code, worker, joiners, waker, pump, unit>>
  BY DEF BeginShutdown, NextTask, AddCancel, Accept, Request, OnlyCancel, taskVars
<1>2. \A f \in Fibers : ctrl'[f].phase = ctrl[f].phase /\ ctrl'[f].wake = ctrl[f].wake
  <2>1. CASE AddCancel
    BY <2>1, WakeTypes DEF AddCancel, Words
  <2>2. CASE BeginShutdown \/ NextTask \/ Accept \/ \E f \in Fibers : Request(f)
    BY <2>2 DEF BeginShutdown, NextTask, Accept, Request, taskVars
  <2>3. QED
    BY <2>1, <2>2
<1>3. /\ cancel' \in Cancels
      /\ cancel'.at \in {"add", "accept", "claim"} =>
            cancel'.task \in Fibers /\ waker["director"] = Quiet
  <2>1. ASSUME NEW f \in Fibers, Request(f)
        PROVE  /\ cancel' \in Cancels
               /\ cancel'.at \in {"add", "accept", "claim"} => cancel'.task \in Fibers
    <3>1. <<>> \in Seq(Fibers) /\ cancel.orders + 1 \in Nat
      BY <1>0
    <3>2. PICK c \in Cancels : /\ c = Apply(f, <<>>)
                               /\ c.at \in {"add", "accept", "claim"} => c.task \in Fibers
      BY <1>0, <3>1, ApplyFields
    <3>3. cancel' = [c EXCEPT !.orders = c.orders + 1] /\ c.orders + 1 \in Nat
      BY <2>1, <3>2 DEF Request, Cancels
    <3>4. QED
      BY <3>2, <3>3 DEF Cancels
  <2>2. CASE BeginShutdown
    <3>1. PICK b \in BOOLEAN, s \in Seq(Fibers), k \in Nat :
             cancel' = [cancel EXCEPT !.all = b, !.at = "next", !.orders = k, !.todo = s]
      <4>1. PICK b \in CancelActive :
               cancel' = [cancel EXCEPT !.all = b, !.at = "next", !.orders = @ + 1,
                                        !.todo = IF b THEN roots ELSE <<>>]
        BY <2>2 DEF BeginShutdown
      <4>2. b \in BOOLEAN
        BY FiberArgs
      <4>3. PICK s \in Seq(Fibers) : s = IF b THEN roots ELSE <<>>
        <5>1. <<>> \in Seq(Fibers)
          OBVIOUS
        <5>2. CASE b
          BY <1>0, <5>2
        <5>3. CASE ~b
          BY <5>1, <5>3
        <5>4. QED
          BY <5>2, <5>3
      <4>4. cancel.orders + 1 \in Nat
        BY <1>0
      <4>5. cancel' = [cancel EXCEPT !.all = b, !.at = "next", !.orders = cancel.orders + 1, !.todo = s]
        BY <1>0, <4>1, <4>3 DEF Cancels
      <4>6. QED
        BY <4>2, <4>4, <4>5
    <3>2. cancel' \in Cancels /\ cancel'.at = "next"
      BY <1>0, <3>1 DEF Cancels
    <3>3. QED
      BY <3>2
  <2>3. CASE NextTask
    <3>1. CASE cancel.todo = <<>>
      <4>1. cancel' = [cancel EXCEPT !.at = "idle"]
        BY <2>3, <3>1 DEF NextTask
      <4>2. QED
        BY <1>0, <4>1 DEF Cancels
    <3>2. CASE cancel.todo # <<>>
      <4>1. PICK o \in Seq(Fibers) : o = cancel.todo /\ o # <<>>
        BY <1>0, <3>2
      <4>2. Head(o) \in Fibers /\ Tail(o) \in Seq(Fibers)
        BY <4>1, TailOf
      <4>3. cancel' = Apply(Head(o), Tail(o)) /\ waker["director"] = Quiet
        BY <2>3, <4>1 DEF NextTask
      <4>4. QED
        BY <1>0, <4>2, <4>3, ApplyFields
    <3>3. QED
      BY <3>1, <3>2
  <2>4. CASE AddCancel \/ Accept
    <3>1. cancel.task \in Fibers /\ waker["director"] = Quiet
      BY <2>4 DEF AddCancel, Accept, WakeInv, WakesTyped, WakersFree
    <3>2. \/ cancel' = Applied \/ cancel' = [cancel EXCEPT !.at = "accept"]
          \/ cancel' = [cancel EXCEPT !.at = "claim", !.n = word[cancel.task].n]
      BY <2>4 DEF AddCancel, Accept
    <3>3. word[cancel.task].n \in Nat
      BY <3>1, WakeTypes DEF WaitWords
    <3>4. PICK k \in Nat : k = word[cancel.task].n
      BY <3>3
    <3>5. CASE cancel' = Applied
      BY <1>0, <3>5 DEF Applied, Cancels
    <3>6. CASE cancel' = [cancel EXCEPT !.at = "accept"]
      BY <1>0, <3>1, <3>6 DEF Cancels
    <3>7. CASE cancel' = [cancel EXCEPT !.at = "claim", !.n = k]
      BY <1>0, <3>1, <3>7 DEF Cancels
    <3>8. QED
      BY <3>1, <3>2, <3>4, <3>5, <3>6, <3>7
  <2>5. \A f \in Fibers : Request(f) => waker["director"] = Quiet
    BY DEF Request, AdmissionFree
  <2>6. BeginShutdown => waker["director"] = Quiet
    BY DEF BeginShutdown, AdmissionFree
  <2>7. NextTask => waker["director"] = Quiet
    BY DEF NextTask
  <2>8. QED
    BY <2>1, <2>2, <2>3, <2>4, <2>5, <2>6, <2>7
<1>4. WakersFree'
  BY <1>1, <1>3 DEF WakeInv, WakersFree
<1>5. QED
  BY <1>1, <1>2, <1>3, <1>4, WakeTypes, WakeAside DEF WakeInv, WakesTyped, Wakers

(* The word of a wait leaves the store buffer.                             *)
LEMMA WakeDrain ==
    ASSUME WakeInv, NEW f \in Fibers, Drain(f), UNCHANGED domainVars
    PROVE  WakeRest'
<1>1. /\ UNCHANGED <<code, worker, joiners, waker, pump, cancel, ctrl, unit>>
      /\ f \in buffered /\ buffered' = buffered \ {f}
      /\ word' = [word EXCEPT ![f] = [n |-> @.n + 1, cause |-> "armed"]]
  BY DEF Drain, domainVars
<1>2. /\ word' \in [Fibers -> WaitWords] /\ word'[f].cause = "armed"
      /\ \A g \in Fibers : g # f => word'[g] = word[g]
  <2>1. PICK r : r = [n |-> word[f].n + 1, cause |-> "armed"]
    OBVIOUS
  <2>2. r \in WaitWords /\ r.cause = "armed"
    <3>1. word[f].n \in Nat
      BY WakeTypes DEF WaitWords
    <3>2. QED
      BY <2>1, <3>1 DEF WaitWords
  <2>3. word' = [word EXCEPT ![f] = r]
    BY <1>1, <2>1
  <2>4. QED
    BY <2>2, <2>3, WakeTypes
<1>3. code[f].at = "armed" /\ ctrl[f].phase = "waiting" /\ BodySound(f) /\ "armed" \in WaitSpots
  <2>1. BodySound(f) /\ "armed" \in WaitSpots
    BY DEF WakeInv, BodiesSound, WaitSpots
  <2>2. QED
    BY <1>1, <2>1 DEF BodySound, At
<1>4. WakesTyped'
  BY <1>1, <1>2 DEF WakeInv, WakesTyped
<1>5. BodiesSound'
  <2>1. \A g \in Fibers : Running(g)' <=> Running(g)
    BY <1>1 DEF Running
  <2>2. ASSUME NEW g \in Fibers, g # f PROVE BodySound(g)'
    <3>1. BodySound(g) /\ word'[g] = word[g] /\ (g \in buffered' <=> g \in buffered)
      BY <1>1, <1>2, <2>2 DEF WakeInv, BodiesSound
    <3>2. QED
      BY <1>1, <2>1, <3>1 DEF BodySound, Armed, At
  <2>3. BodySound(f)'
    BY <1>1, <1>2, <1>3, <2>1 DEF BodySound, Armed, At
  <2>4. QED
    BY <2>2, <2>3 DEF BodiesSound
<1>6. WorkersSound' /\ WakersFree'
  BY <1>1 DEF WakeInv, WorkersSound, WorkerSound, WakersFree
<1>7. QueueSound'
  BY <1>1, QueueKept DEF WakeInv
<1>8. DebtsSound'
  <2>1. ~Due(f) /\ ~Due(f)'
    BY <1>1, <1>2 DEF Due, Stored, Causes
  <2>2. \A g \in Fibers : g # f => (Due(g)' <=> Due(g))
    BY <1>1, <1>2 DEF Due, Stored
  <2>3. QED
    BY <1>1, <2>1, <2>2, DebtsKept DEF WakeInv
<1>9. QED
  BY <1>4, <1>5, <1>6, <1>7, <1>8 DEF WakeRest

-----------------------------------------------------------------------------
(* Who claims waits.                                                       *)

LEMMA WakeClaims ==
    ASSUME WakeInv, NEW t \in Threads, waker[t].owed = <<>>, NEW s \in Seq(Fibers),
           \A i, j \in DOMAIN s : s[i] = s[j] => i = j, \A i \in DOMAIN s : Armed(s[i]),
           NEW cause \in Causes, word' = Claimed({s[i] : i \in DOMAIN s}, cause),
           waker' = [waker EXCEPT ![t] = [limit |-> 0, owed |-> s]],
           UNCHANGED <<ctrl, buffered, code>>, \A f \in Fibers : Running(f)' <=> Running(f)
    PROVE  /\ DebtsSound' /\ BodiesSound'
           /\ word' \in [Fibers -> WaitWords] /\ waker' \in [Threads -> Wakers]
           /\ waker'[t].limit = 0 /\ \A u \in Threads : u # t => waker'[u] = waker[u]
<1>1. /\ waker'[t] = [limit |-> 0, owed |-> s] /\ waker' \in [Threads -> Wakers]
      /\ \A u \in Threads : u # t => waker'[u] = waker[u]
  <2>1. PICK r \in Wakers : r = [limit |-> 0, owed |-> s]
    BY DEF Wakers
  <2>2. waker \in [Threads -> Wakers]
    BY WakeTypes DEF Wakers
  <2>3. waker' = [waker EXCEPT ![t] = r]
    BY <2>1
  <2>4. QED
    BY <2>1, <2>2, <2>3
<1>2. waker'[t].owed = s /\ waker'[t].limit = 0
  BY <1>1
<1>3. \A u \in Threads : u # t => waker'[u].owed = waker[u].owed
  BY <1>1
<1>4. /\ DebtsSound' /\ word' \in [Fibers -> WaitWords]
      /\ \A f \in Fibers : word'[f].cause = "armed" => word[f].cause = "armed"
  BY <1>2, <1>3, DebtsClaimed
<1>5. BodiesSound'
  BY <1>4, BodiesKept DEF WakeInv
<1>6. QED
  BY <1>1, <1>2, <1>4, <1>5

LEMMA WakeClaimFront ==
    ASSUME WakeInv, NEW t \in Threads, ClaimFront(t), UNCHANGED domainVars
    PROVE  WakeRest'
<1>1. PICK limit \in Nat : limit = waker[t].limit /\ limit > 0
  BY WakeTypes DEF ClaimFront
<1>2. waker[t].owed = <<>>
  BY <1>1 DEF WakeInv, WakersFree
<1>3. PICK won : won = Winners(limit)
  OBVIOUS
<1>4. PICK q : q = Behind(limit)
  OBVIOUS
<1>5. /\ word' = Claimed({won[i] : i \in DOMAIN won}, "signalled")
      /\ unit' = [unit EXCEPT !.queue = q]
      /\ waker' = [waker EXCEPT ![t].limit = 0, ![t].owed = won]
      /\ UNCHANGED <<ctrl, buffered, code, worker, joiners, pump, cancel>>
  BY <1>1, <1>3, <1>4 DEF ClaimFront, domainVars
<1>6. \A i, j \in DOMAIN unit.queue : unit.queue[i] = unit.queue[j] => i = j
  BY DEF WakeInv, QueueSound
<1>7. /\ won \in Seq(Fibers) /\ \A i \in DOMAIN won : Armed(won[i])
      /\ \A i, j \in DOMAIN won : won[i] = won[j] => i = j
  BY <1>3, <1>6, WinnersArmed, WakeTypes
<1>8. waker' = [waker EXCEPT ![t] = [limit |-> 0, owed |-> won]]
  <2>1. PICK r \in Wakers : r = waker[t]
    BY WakeTypes DEF Wakers
  <2>2. [r EXCEPT !.limit = 0, !.owed = won] = [limit |-> 0, owed |-> won]
    <3> DEFINE c == [r EXCEPT !.limit = 0]
    <3>1. c \in Wakers /\ c.limit = 0
      BY DEF Wakers
    <3>2. [c EXCEPT !.owed = won] = [limit |-> 0, owed |-> won]
      <4> HIDE DEF c
      <4> QED
        BY <3>1 DEF Wakers
    <3>3. QED
      BY <3>2
  <2>3. waker' = [waker EXCEPT ![t] = [r EXCEPT !.limit = 0, !.owed = won]]
    BY <1>5, <2>1
  <2>4. QED
    BY <2>2, <2>3
<1>9. \A f \in Fibers : Running(f)' <=> Running(f)
  BY <1>5 DEF Running
<1>10. "signalled" \in Causes
  BY DEF Causes
<1>11. /\ DebtsSound' /\ BodiesSound'
       /\ word' \in [Fibers -> WaitWords] /\ waker' \in [Threads -> Wakers]
       /\ waker'[t].limit = 0 /\ \A u \in Threads : u # t => waker'[u] = waker[u]
  BY <1>2, <1>5, <1>7, <1>8, <1>9, <1>10, WakeClaims
<1>12. WakesTyped'
  BY <1>5, <1>11 DEF WakeInv, WakesTyped, Wakers
<1>13. WorkersSound'
  <2>1. \A w \in Workers : worker[w].at \notin {"idle", "run"} => w \in Threads /\ w # t
    BY <1>1 DEF WakeInv, WorkersSound, WorkerSound, Quiet, Threads
  <2>2. QED
    <3>1. \A w \in Workers : worker'[w] = worker[w] /\ ctrl'[worker[w].task] = ctrl[worker[w].task]
      BY <1>5
    <3>2. \A w \in Workers : worker[w].at \notin {"idle", "run"} => waker'[w] = waker[w]
      BY <1>11, <2>1
    <3>3. QED
      BY <3>1, <3>2, WorkersKept DEF WakeInv
<1>14. WakersFree'
  <2>1. waker[t] # Quiet
    BY <1>1 DEF Quiet
  <2>2. QED
    BY <1>5, <1>11, <2>1, ThreadsApart DEF WakeInv, WakersFree
<1>15. QueueSound'
  <2>1. unit'.queue = q
    BY <1>5, WakeTypes, QueueFields
  <2>2. /\ q \in Seq(Fibers) /\ \A i, j \in DOMAIN q : q[i] = q[j] => i = j
        /\ \A i \in DOMAIN q : \E j \in DOMAIN unit.queue : q[i] = unit.queue[j]
    BY <1>1, <1>4, <1>6, BehindQueued, WakeTypes
  <2>3. \A i \in DOMAIN q : LinkedSpot(q[i])
    BY <2>2 DEF WakeInv, QueueSound
  <2>4. \A i \in DOMAIN q : LinkedSpot(q[i])'
    BY <1>5, <2>3 DEF LinkedSpot
  <2>5. QED
    BY <2>1, <2>2, <2>4 DEF QueueSound
<1>16. QED
  BY <1>11, <1>12, <1>13, <1>14, <1>15 DEF WakeRest

(* A timer or a cancellation claims one wait, if it is still the armed one.*)
LEMMA WakeClaimWait ==
    ASSUME WakeInv, NEW t \in {"timers", "director"}, NEW f \in Fibers, NEW n,
           NEW cause \in Causes, ClaimWait(t, f, n, cause), waker[t] = Quiet,
           pump'.task \in Fibers \/ pump' = NoEntry,
           cancel'.at \in {"add", "accept", "claim"} => cancel'.task \in Fibers,
           cancel' \in Cancels,
           t = "timers" => pump' = NoEntry /\ cancel' = cancel,
           t = "director" => cancel'.at \notin {"add", "accept", "claim"} /\ pump' = pump
    PROVE  WakeRest'
<1>1. UNCHANGED <<ctrl, buffered, code, worker, joiners, unit>>
  BY DEF ClaimWait
<1>2. CASE ~Names(f, n)
  <2>1. UNCHANGED <<word, waker>>
    BY <1>2 DEF ClaimWait
  <2>2. WakersFree'
    BY <2>1 DEF WakeInv, WakersFree
  <2>3. QED
    BY <1>1, <2>1, <2>2, WakeTypes, WakeAside DEF Wakers
<1>3. CASE Names(f, n)
  <2>1. t \in Threads /\ \A w \in Workers : w # t /\ w \in Threads
    BY ThreadsApart
  <2>2. waker[t].owed = <<>> /\ waker[t].limit = 0
    BY DEF Quiet
  <2>3. PICK s : s = <<f>>
    OBVIOUS
  <2>4. s \in Seq(Fibers) /\ DOMAIN s = {1} /\ s[1] = f
    BY <2>3
  <2>5. {s[i] : i \in DOMAIN s} = {f}
    BY <2>4
  <2>6. word' = Claimed({s[i] : i \in DOMAIN s}, cause) /\ waker' = [waker EXCEPT ![t].owed = s]
    BY <1>3, <2>3, <2>5 DEF ClaimWait
  <2>7. waker' = [waker EXCEPT ![t] = [limit |-> 0, owed |-> s]]
    <3>1. PICK r \in Wakers : r = waker[t]
      BY <2>1, WakeTypes DEF Wakers
    <3>2. [r EXCEPT !.owed = s] = [limit |-> 0, owed |-> s]
      BY <2>2, <3>1 DEF Wakers
    <3>3. waker' = [waker EXCEPT ![t] = [r EXCEPT !.owed = s]]
      BY <2>6, <3>1
    <3>4. QED
      BY <3>2, <3>3
  <2>8. \A i \in DOMAIN s : Armed(s[i])
    BY <1>3, <2>4 DEF Names, Armed
  <2>9. \A i, j \in DOMAIN s : s[i] = s[j] => i = j
    BY <2>4
  <2>10. \A g \in Fibers : Running(g)' <=> Running(g)
    BY <1>1 DEF Running
  <2>11. /\ DebtsSound' /\ BodiesSound'
         /\ word' \in [Fibers -> WaitWords] /\ waker' \in [Threads -> Wakers]
         /\ waker'[t].limit = 0 /\ \A u \in Threads : u # t => waker'[u] = waker[u]
    <3>1. t \in Threads /\ waker[t].owed = <<>> /\ s \in Seq(Fibers)
      BY <2>1, <2>2, <2>4
    <3>2. word' = Claimed({s[i] : i \in DOMAIN s}, cause)
      BY <2>6
    <3>3. UNCHANGED <<ctrl, buffered, code>>
      BY <1>1
    <3>4. QED
      BY <2>7, <2>8, <2>9, <2>10, <3>1, <3>2, <3>3, WakeClaims
  <2>12. WakesTyped'
    BY <1>1, <2>11 DEF WakeInv, WakesTyped, Wakers
  <2>13. WorkersSound'
    <3>1. \A w \in Workers : worker'[w] = worker[w] /\ ctrl'[worker[w].task] = ctrl[worker[w].task]
      BY <1>1
    <3>2. \A w \in Workers : waker'[w] = waker[w]
      BY <2>1, <2>11
    <3>3. QED
      BY <3>1, <3>2, WorkersKept DEF WakeInv
  <2>14. WakersFree'
    <3>1. \A u \in Threads : waker'[u].limit > 0 => waker'[u].owed = <<>>
      BY <2>11 DEF WakeInv, WakersFree
    <3>2. CASE t = "timers"
      BY <2>11, <3>1, <3>2, ThreadsApart DEF WakeInv, WakersFree
    <3>3. CASE t = "director"
      BY <2>11, <3>1, <3>3, ThreadsApart DEF WakeInv, WakersFree
    <3>4. QED
      BY <3>2, <3>3
  <2>15. QueueSound'
    BY <1>1, QueueKept DEF WakeInv
  <2>16. QED
    BY <2>11, <2>12, <2>13, <2>14, <2>15 DEF WakeRest
<1>4. QED
  BY <1>2, <1>3

LEMMA WakeTimeOut == ASSUME WakeInv, TimeOut PROVE WakeRest'
<1>1. /\ pump # NoEntry /\ pump' = NoEntry /\ cancel' = cancel
      /\ ClaimWait("timers", pump.task, pump.n, "timedOut")
  BY DEF TimeOut
<1>2. PICK f \in Fibers : f = pump.task
  BY <1>1 DEF WakeInv, WakesTyped
<1>3. waker["timers"] = Quiet
  BY <1>1 DEF WakeInv, WakersFree
<1>4. /\ cancel'.at \in {"add", "accept", "claim"} => cancel'.task \in Fibers
      /\ cancel' \in Cancels /\ "timedOut" \in Causes
  BY <1>1 DEF WakeInv, WakesTyped, Causes
<1>5. QED
  BY <1>1, <1>2, <1>3, <1>4, WakeClaimWait

LEMMA WakeCancelWait == ASSUME WakeInv, CancelWait PROVE WakeRest'
<1>1. /\ cancel.at = "claim" /\ cancel' = Applied /\ pump' = pump
      /\ ClaimWait("director", cancel.task, cancel.n, "cancelled")
  BY DEF CancelWait
<1>2. PICK f \in Fibers : f = cancel.task
  BY <1>1 DEF WakeInv, WakesTyped
<1>3. waker["director"] = Quiet
  BY <1>1 DEF WakeInv, WakersFree
<1>4. cancel' \in Cancels /\ cancel'.at = "next" /\ "cancelled" \in Causes
  <2>1. [cancel EXCEPT !.at = "next", !.task = None, !.n = 0] \in Cancels
    BY DEF Cancels, WakeInv, WakesTyped
  <2>2. [cancel EXCEPT !.at = "next", !.task = None, !.n = 0].at = "next"
    BY DEF Cancels, WakeInv, WakesTyped
  <2>3. QED
    BY <1>1, <2>1, <2>2 DEF Applied, Causes
<1>5. pump'.task \in Fibers \/ pump' = NoEntry
  BY <1>1 DEF WakeInv, WakesTyped
<1>6. QED
  BY <1>1, <1>2, <1>3, <1>4, <1>5, WakeClaimWait

LEMMA WakeWakeJoiners ==
    ASSUME WakeInv, NEW w \in Workers, WakeJoiners(w), UNCHANGED <<unit, domainVars>>
    PROVE  WakeRest'
<1>1. PICK f \in Fibers : f = worker[w].task /\ worker[w].at = "joiners"
  BY DEF WakeJoiners, WakeInv, PlaceInv, OneWorker
<1>2. waker[w] = Quiet /\ w \in Threads
  BY <1>1 DEF WakeInv, WorkersSound, WorkerSound, Threads
<1>3. PICK won : won = {j \in joiners[f] : Armed(j)}
  OBVIOUS
<1>4. PICK s : s = SetToSeq(won)
  OBVIOUS
<1>5. /\ word' = Claimed(won, "signalled") /\ waker' = [waker EXCEPT ![w].owed = s]
      /\ joiners' = [joiners EXCEPT ![f] = {}] /\ Leave(w)
      /\ UNCHANGED <<ctrl, buffered, code, pump, cancel>> /\ unit'.queue = unit.queue
  BY <1>1, <1>3, <1>4 DEF WakeJoiners, domainVars
<1>6. won \in SUBSET Fibers /\ IsFiniteSet(won)
  <2>1. won \subseteq Fibers
    BY <1>3, WakeTypes
  <2>2. QED
    BY <2>1, FiberArgs, FS_Subset
<1>7. /\ s \in Seq(won) /\ \A i, j \in DOMAIN s : s[i] = s[j] => i = j
      /\ \A x \in won : \E i \in DOMAIN s : s[i] = x
  BY <1>4, <1>6, SetIsListed
<1>8. s \in Seq(Fibers) /\ \A i \in DOMAIN s : s[i] \in won
  BY <1>6, <1>7, LenProperties
<1>9. \A i \in DOMAIN s : Armed(s[i])
  BY <1>3, <1>8
<1>10. won = {s[i] : i \in DOMAIN s}
  BY <1>7, <1>8
<1>11. word' = Claimed({s[i] : i \in DOMAIN s}, "signalled")
  BY <1>5, <1>10
<1>12. waker' = [waker EXCEPT ![w] = [limit |-> 0, owed |-> s]]
  <2>1. PICK r \in Wakers : r = waker[w] /\ r.limit = 0
    BY <1>2, WakeTypes DEF Wakers, Quiet
  <2>2. [r EXCEPT !.owed = s] = [limit |-> 0, owed |-> s]
    BY <2>1 DEF Wakers
  <2>3. waker' = [waker EXCEPT ![w] = [r EXCEPT !.owed = s]]
    BY <1>5, <2>1
  <2>4. QED
    BY <2>2, <2>3
<1>13. /\ worker'[w].at = "idle" /\ \A v \in Workers : v # w => worker'[v] = worker[v]
  BY <1>5, LeaveEffect DEF WakeInv
<1>14. \A g \in Fibers : Running(g)' <=> Running(g)
  <2>1. worker[w].at # "run" /\ worker'[w].at # "run"
    BY <1>1, <1>13
  <2>2. QED
    BY <1>13, <2>1 DEF Running
<1>15. waker[w].owed = <<>> /\ "signalled" \in Causes
  BY <1>2 DEF Quiet, Causes
<1>16. /\ DebtsSound' /\ BodiesSound'
       /\ word' \in [Fibers -> WaitWords] /\ waker' \in [Threads -> Wakers]
       /\ waker'[w].limit = 0 /\ \A u \in Threads : u # w => waker'[u] = waker[u]
  <2>1. w \in Threads
    BY <1>2
  <2>2. UNCHANGED <<ctrl, buffered, code>>
    BY <1>5
  <2>3. \A i, j \in DOMAIN s : s[i] = s[j] => i = j
    BY <1>7
  <2>4. s \in Seq(Fibers)
    BY <1>8
  <2>5. QED
    BY <1>9, <1>11, <1>12, <1>14, <1>15, <2>1, <2>2, <2>3, <2>4, WakeClaims
<1>17. WakesTyped'
  <2>1. joiners' \in [Fibers -> SUBSET Fibers]
    BY <1>5, WakeTypes
  <2>2. QED
    BY <1>5, <1>16, <2>1 DEF WakeInv, WakesTyped, Wakers
<1>18. WorkersSound'
  <2>1. ASSUME NEW v \in Workers, v # w PROVE WorkerSound(v)'
    <3>1. worker'[v] = worker[v] /\ waker'[v] = waker[v] /\ ctrl' = ctrl
      BY <1>5, <1>13, <1>16, <2>1 DEF Threads
    <3>2. QED
      BY <3>1 DEF WakeInv, WorkersSound, WorkerSound
  <2>2. WorkerSound(w)'
    BY <1>13 DEF WorkerSound
  <2>3. QED
    BY <2>1, <2>2 DEF WorkersSound
<1>19. WakersFree'
  <2>1. w # "timers" /\ w # "director"
    BY ThreadsApart
  <2>2. waker'["timers"] = waker["timers"] /\ waker'["director"] = waker["director"]
    BY <1>16, <2>1, ThreadsApart
  <2>3. UNCHANGED <<pump, cancel>>
    BY <1>5
  <2>4. QED
    BY <1>16, <2>2, <2>3 DEF WakeInv, WakersFree
<1>20. QueueSound'
  BY <1>5, QueueKept DEF WakeInv
<1>21. QED
  BY <1>16, <1>17, <1>18, <1>19, <1>20 DEF WakeRest

-----------------------------------------------------------------------------
(* A wake that is added.                                                   *)

(* Publishing a parked task uses its wake up.                              *)
LEMMA PublishEffect ==
    ASSUME ctrl \in [Fibers -> Words], NEW f \in Fibers, Publish(f)
    PROVE  /\ ctrl'[f].phase = "ready" /\ ctrl'[f].wake = 0
           /\ \A g \in Fibers : g # f => ctrl'[g] = ctrl[g]
<1>1. ctrl' = [ctrl EXCEPT ![f].phase = "ready", ![f].park = 0, ![f].wake = 0]
  BY DEF Publish
<1>2. ctrl'[f].phase = "ready"
  BY <1>1 DEF Words
<1>3. ctrl'[f].wake = 0
  BY <1>1 DEF Words
<1>4. \A g \in Fibers : g # f => ctrl'[g] = ctrl[g]
  BY <1>1 DEF Words
<1>5. QED
  BY <1>2, <1>3, <1>4

LEMMA WakeDeliver ==
    ASSUME WakeInv, NEW t \in Threads, Deliver(t), UNCHANGED <<unit, domainVars>>
    PROVE  WakeRest'
<1>1. PICK o \in Seq(Fibers) : o = waker[t].owed /\ o # <<>>
  BY WakeTypes DEF Deliver
<1>2. PICK l \in Nat : /\ l >= 1 /\ DOMAIN o = 1 .. l /\ Head(o) = o[1] /\ o[1] \in Fibers
                       /\ Tail(o) \in Seq(Fibers) /\ DOMAIN Tail(o) = 1 .. l - 1
                       /\ \A i \in 1 .. l - 1 : Tail(o)[i] = o[i + 1]
  BY <1>1, TailOf
<1>3. PICK f \in Fibers : f = o[1]
  BY <1>2
<1>4. PICK rest \in Seq(Fibers) : rest = Tail(o)
  BY <1>2
<1>5. /\ waker' = [waker EXCEPT ![t].owed = rest]
      /\ UNCHANGED <<word, buffered, code, worker, joiners, pump, cancel>>
      /\ unit'.queue = unit.queue
      /\ IF Meets(ctrl[f], "park") THEN Publish(f)
         ELSE ctrl' = [ctrl EXCEPT ![f].wake = ctrl[f].wake + 1]
  BY <1>1, <1>2, <1>3, <1>4 DEF Deliver, domainVars
<1>6. /\ waker' \in [Threads -> Wakers] /\ waker'[t].owed = rest
      /\ waker'[t].limit = waker[t].limit
      /\ \A u \in Threads : u # t => waker'[u] = waker[u]
  <2>1. waker \in [Threads -> Wakers]
    BY WakeTypes DEF Wakers
  <2>2. \A r \in Wakers : /\ [r EXCEPT !.owed = rest] \in Wakers
                          /\ [r EXCEPT !.owed = rest].owed = rest
                          /\ [r EXCEPT !.owed = rest].limit = r.limit
    BY DEF Wakers
  <2>3. waker' = [waker EXCEPT ![t] = [waker[t] EXCEPT !.owed = rest]]
    BY <1>5
  <2>4. QED
    BY <2>1, <2>2, <2>3
<1>7. Owed(t, 1, f)
  <2>1. 1 \in 1 .. l
    BY <1>2
  <2>2. QED
    BY <1>1, <1>2, <1>3, <2>1 DEF Owed
<1>8. Due(f) /\ ctrl[f].wake = 0
  BY <1>7 DEF WakeInv, DebtsSound
<1>9. ~Armed(f) /\ f \notin buffered /\ ctrl[f].phase = "waiting"
  BY <1>8 DEF Due, Stored, Armed, Causes
<1>10. waker[t] # Quiet
  BY <1>1 DEF Quiet
<1>11. /\ \A g \in Fibers : g # f => ctrl'[g] = ctrl[g]
       /\ \/ ctrl'[f].phase = "ready" /\ ctrl'[f].wake = 0 /\ ~Held(f)
          \/ ctrl'[f].phase = "waiting" /\ ctrl'[f].wake = 1
  <2>1. CASE Meets(ctrl[f], "park")
    <3>1. ctrl[f].park = 1 /\ ~Held(f)
      BY <2>1 DEF WakeInv, PlaceInv, WordsTyped, Words, Apart, Meets
    <3>2. QED
      BY <1>5, <2>1, <3>1, PublishEffect, WakeTypes
  <2>2. CASE ~Meets(ctrl[f], "park")
    <3>1. ctrl' = [ctrl EXCEPT ![f].wake = ctrl[f].wake + 1]
      BY <1>5, <2>2
    <3>2. ctrl'[f].wake = 1 /\ ctrl'[f].phase = "waiting"
      BY <1>8, <1>9, <3>1, WakeTypes DEF Words
    <3>3. \A g \in Fibers : g # f => ctrl'[g] = ctrl[g]
      BY <3>1, WakeTypes DEF Words
    <3>4. QED
      BY <3>2, <3>3
  <2>3. QED
    BY <2>1, <2>2
<1>12. WakesTyped'
  BY <1>5, <1>6 DEF WakeInv, WakesTyped, Wakers
<1>13. BodiesSound'
  <2>1. \A g \in Fibers : (Running(g)' <=> Running(g)) /\ BodySound(g)
    BY <1>5 DEF Running, WakeInv, BodiesSound
  <2>2. ASSUME NEW g \in Fibers, g # f PROVE BodySound(g)'
    <3>1. ctrl'[g] = ctrl[g]
      BY <1>11, <2>2
    <3>2. QED
      BY <1>5, <2>1, <3>1 DEF BodySound, Armed, At
  <2>3. BodySound(f)'
    <3>1. Running(f) => Held(f)
      BY DEF Running, Held
    <3>2. ctrl'[f].phase = ctrl[f].phase \/ ~Running(f)
      BY <1>9, <1>11, <3>1
    <3>3. QED
      BY <1>5, <1>9, <2>1, <3>2 DEF BodySound, Armed, At
  <2>4. QED
    BY <2>2, <2>3 DEF BodiesSound
<1>14. WorkersSound'
  <2>1. ASSUME NEW w \in Workers PROVE WorkerSound(w)'
    <3>1. worker[w].at \notin {"idle", "run"} => waker'[w] = waker[w]
      BY <1>6, <1>10 DEF WakeInv, WorkersSound, WorkerSound, Threads
    <3>2. worker[w].at \in {"record", "terminate"} =>
             /\ worker[w].task \in Fibers
             /\ ctrl'[worker[w].task].phase = ctrl[worker[w].task].phase
      <4>1. worker[w].at \in {"record", "terminate"} => worker[w].task \in Fibers
        BY WakeTypes DEF WakeInv, PlaceInv, OneWorker
      <4>2. worker[w].task = f => Held(f)
        BY DEF Held
      <4>3. QED
        BY <1>9, <1>11, <4>1, <4>2
    <3>3. QED
      BY <1>5, <3>1, <3>2 DEF WakeInv, WorkersSound, WorkerSound
  <2>2. QED
    BY <2>1 DEF WorkersSound
<1>15. WakersFree'
  <2>1. \A u \in Threads : waker'[u].limit > 0 => waker'[u].owed = <<>>
    BY <1>1, <1>6 DEF WakeInv, WakersFree
  <2>2. /\ pump # NoEntry => t # "timers"
        /\ cancel.at \in {"add", "accept", "claim"} => t # "director"
    BY <1>10 DEF WakeInv, WakersFree
  <2>3. /\ t # "timers" => waker'["timers"] = waker["timers"]
        /\ t # "director" => waker'["director"] = waker["director"]
    BY <1>6, ThreadsApart
  <2>4. QED
    BY <1>5, <2>1, <2>2, <2>3 DEF WakeInv, WakersFree
<1>16. QueueSound'
  BY <1>5, QueueKept DEF WakeInv
<1>17. DebtsSound'
  <2>1. \A u \in Threads : u # t => \A i, g : Owed(u, i, g)' <=> Owed(u, i, g)
    BY <1>6 DEF Owed
  <2>2. ASSUME NEW i, NEW g, Owed(t, i, g)'
        PROVE  i \in 1 .. l - 1 /\ Owed(t, i + 1, g)
    <3>1. i \in 1 .. l - 1 /\ rest[i] = g
      BY <1>2, <1>4, <1>6, <2>2 DEF Owed
    <3>2. i + 1 \in 1 .. l /\ o[i + 1] = g
      BY <1>2, <1>4, <3>1
    <3>3. QED
      BY <1>1, <1>2, <3>1, <3>2 DEF Owed
  <2>3. ASSUME NEW i, NEW g, Owed(t, i, g), g # f PROVE Owed(t, i - 1, g)'
    <3>1. i \in 1 .. l /\ o[i] = g /\ i # 1
      BY <1>1, <1>2, <1>3, <2>3 DEF Owed
    <3>2. i - 1 \in 1 .. l - 1 /\ i - 1 + 1 = i
      BY <3>1
    <3>3. rest[i - 1] = g /\ i - 1 \in DOMAIN rest
      BY <1>2, <1>4, <3>1, <3>2
    <3>4. QED
      BY <1>6, <3>3 DEF Owed
  <2>4. \A u \in Threads : \A i : Owed(u, i, f) => u = t /\ i = 1
    BY <1>7 DEF WakeInv, DebtsSound
  <2>5. ASSUME NEW u \in Threads, NEW i, Owed(u, i, f)' PROVE FALSE
    <3>1. CASE u # t
      BY <2>1, <2>4, <2>5, <3>1
    <3>2. CASE u = t
      <4>1. i \in 1 .. l - 1 /\ Owed(t, i + 1, f)
        BY <2>2, <2>5, <3>2
      <4>2. i + 1 = 1
        BY <2>4, <4>1
      <4>3. QED
        BY <4>1, <4>2
    <3>3. QED
      BY <3>1, <3>2
  <2>6. \A g \in Fibers : g # f => (Due(g)' <=> Due(g))
    BY <1>5, <1>11 DEF Due, Stored
  <2>7. Due(f)' <=> ctrl'[f].wake = 1
    BY <1>5, <1>8, <1>11 DEF Due, Stored
  <2>8. ASSUME NEW g \in Fibers
        PROVE  ctrl'[g].wake \in {0, 1}
    BY <1>11 DEF WakeInv, DebtsSound
  <2>9. ASSUME NEW g \in Fibers
        PROVE  Due(g)' <=> ctrl'[g].wake = 1 \/ \E u \in Threads : \E i : Owed(u, i, g)'
    <3>1. CASE g = f
      BY <2>5, <2>7, <3>1
    <3>2. CASE g # f
      <4>1. (\E u \in Threads : \E i : Owed(u, i, g)) => \E u \in Threads : \E i : Owed(u, i, g)'
        BY <2>1, <2>3, <3>2
      <4>2. (\E u \in Threads : \E i : Owed(u, i, g)') => \E u \in Threads : \E i : Owed(u, i, g)
        BY <2>1, <2>2
      <4>3. Due(g) <=> ctrl[g].wake = 1 \/ \E u \in Threads : \E i : Owed(u, i, g)
        BY DEF WakeInv, DebtsSound
      <4>4. ctrl'[g] = ctrl[g] /\ (Due(g)' <=> Due(g))
        BY <1>11, <2>6, <3>2
      <4>5. QED
        BY <4>1, <4>2, <4>3, <4>4
    <3>3. QED
      BY <3>1, <3>2
  <2>10. ASSUME NEW g \in Fibers, NEW u \in Threads, NEW i, Owed(u, i, g)'
         PROVE  ctrl'[g].wake = 0
    <3>1. g # f
      BY <2>5, <2>10
    <3>2. \E j : Owed(u, j, g)
      BY <2>1, <2>2, <2>10
    <3>3. ctrl'[g] = ctrl[g]
      BY <1>11, <3>1
    <3>4. QED
      BY <3>2, <3>3 DEF WakeInv, DebtsSound
  <2>11. ASSUME NEW g \in Fibers, NEW u \in Threads, NEW v \in Threads, NEW i, NEW j,
                Owed(u, i, g)', Owed(v, j, g)'
         PROVE  u = v /\ i = j
    <3>1. \A x, y \in Threads : \A a, b : Owed(x, a, g) /\ Owed(y, b, g) => x = y /\ a = b
      BY DEF WakeInv, DebtsSound
    <3>2. CASE u = t /\ v = t
      <4>1. /\ i \in 1 .. l - 1 /\ Owed(t, i + 1, g)
            /\ j \in 1 .. l - 1 /\ Owed(t, j + 1, g)
        BY <2>2, <2>11, <3>2
      <4>2. i + 1 = j + 1
        BY <3>1, <4>1
      <4>3. QED
        BY <3>2, <4>1, <4>2
    <3>3. CASE u = t /\ v # t
      BY <2>1, <2>2, <2>11, <3>1, <3>3
    <3>4. CASE u # t /\ v = t
      BY <2>1, <2>2, <2>11, <3>1, <3>4
    <3>5. CASE u # t /\ v # t
      BY <2>1, <2>11, <3>1, <3>5
    <3>6. QED
      BY <3>2, <3>3, <3>4, <3>5
  <2>12. QED
    BY <2>8, <2>9, <2>10, <2>11 DEF DebtsSound
<1>18. QED
  BY <1>12, <1>13, <1>14, <1>15, <1>16, <1>17 DEF WakeRest

-----------------------------------------------------------------------------
(* A worker resumes a task, is back from it, or ends it.                   *)

(* A step of w about its task f, whose wait is over or not yet armed, that *)
(* leaves words and bodies alone.                                          *)
LEMMA WakeWorker ==
    ASSUME WakeInv, NEW w \in Workers, NEW f \in Fibers,
           UNCHANGED <<word, buffered, code, waker, joiners, unit, domainVars>>,
           \A v \in Workers : v # w => worker'[v] = worker[v] /\ worker[v].task # f,
           \A g \in Fibers : g # f => ctrl'[g] = ctrl[g],
           \A g \in Fibers : g # f => (Running(g)' <=> Running(g)),
           BodySound(f)', WorkerSound(w)',
           ctrl'[f].wake \in {0, 1},
           Due(f)' <=> Due(f), ctrl'[f].wake = ctrl[f].wake
    PROVE  WakeRest'
<1>1. WakesTyped'
  BY DEF WakeInv, WakesTyped, domainVars
<1>2. BodiesSound'
  <2>1. ASSUME NEW g \in Fibers, g # f PROVE BodySound(g)'
    <3>1. BodySound(g) /\ ctrl'[g] = ctrl[g] /\ (Running(g)' <=> Running(g))
      BY <2>1 DEF WakeInv, BodiesSound
    <3>2. QED
      BY <3>1 DEF BodySound, Armed, At
  <2>2. QED
    BY <2>1 DEF BodiesSound
<1>3. WorkersSound'
  <2>1. ASSUME NEW v \in Workers, v # w PROVE WorkerSound(v)'
    <3>1. worker'[v] = worker[v] /\ worker[v].task # f
      BY <2>1
    <3>2. worker[v].at \in {"record", "terminate"} => worker[v].task \in Fibers
      BY WakeTypes DEF WakeInv, PlaceInv, OneWorker
    <3>3. QED
      BY <3>1, <3>2 DEF WakeInv, WorkersSound, WorkerSound
  <2>2. QED
    BY <2>1 DEF WorkersSound
<1>4. WakersFree' /\ QueueSound'
  BY QueueKept DEF WakeInv, WakersFree, domainVars
<1>5. DebtsSound'
  <2>1. \A g \in Fibers : ctrl'[g].wake = ctrl[g].wake /\ (Due(g)' <=> Due(g))
    BY DEF Due, Stored
  <2>2. QED
    BY <2>1, DebtsKept DEF WakeInv
<1>6. QED
  BY <1>1, <1>2, <1>3, <1>4, <1>5 DEF WakeRest

LEMMA WakeResume ==
    ASSUME WakeInv, NEW w \in Workers, Resume(w), UNCHANGED <<unit, domainVars>>
    PROVE  WakeRest'
<1>1. PICK f \in Fibers :
         /\ lane[f] > 0
         /\ \/ ctrl[f].phase # "ready" /\ UNCHANGED <<ctrl, worker>>
            \/ \E ph \in {"running", "terminating"}, at \in {"run", "record"} :
                  /\ (ph = "running") <=> (at = "run")
                  /\ ctrl' = [ctrl EXCEPT ![f].phase = ph, ![f].enter = 1]
                  /\ worker' = [worker EXCEPT ![w] = [at |-> at, task |-> f]]
  BY DEF Resume
<1>2. waker[w] = Quiet /\ worker[w].task = None /\ f # None
  BY FiberArgs DEF Resume, WakeInv, PlaceInv, OneWorker
<1>3. ctrl[f].phase = "ready" /\ ~Held(f)
  BY <1>1 DEF WakeInv, PlaceInv, WordsTyped, Apart
<1>4. PICK ph \in {"running", "terminating"}, at \in {"run", "record"} :
         /\ (ph = "running") <=> (at = "run")
         /\ ctrl' = [ctrl EXCEPT ![f].phase = ph, ![f].enter = 1]
         /\ worker' = [worker EXCEPT ![w] = [at |-> at, task |-> f]]
  BY <1>1, <1>3
<1>5. UNCHANGED <<word, buffered, code, waker, joiners, unit, domainVars>>
  BY DEF Resume
<1>6. /\ worker'[w].task = f /\ worker'[w].at = at
      /\ \A v \in Workers : v # w => worker'[v] = worker[v] /\ worker[v].task # f
  BY <1>3, <1>4, WakeTypes DEF Held
<1>7. /\ ctrl'[f].phase = ph /\ ctrl'[f].wake = ctrl[f].wake
      /\ \A g \in Fibers : g # f => ctrl'[g] = ctrl[g]
  <2>1. \A g \in Fibers : g # f => ctrl'[g] = ctrl[g]
    BY <1>4, WakeTypes DEF Words
  <2>2. ctrl'[f].phase = ph
    BY <1>4, WakeTypes DEF Words
  <2>3. ctrl'[f].wake = ctrl[f].wake
    BY <1>4, WakeTypes DEF Words
  <2>4. QED
    BY <2>1, <2>2, <2>3
<1>8. \A g \in Fibers : g # f => (Running(g)' <=> Running(g))
  BY <1>2, <1>6, FiberArgs DEF Running
<1>9. Running(f)' <=> ph = "running"
  BY <1>4, <1>6 DEF Running
<1>10. code[f].at \notin WaitSpots /\ f \notin buffered /\ ~Armed(f)
  <2>1. BodySound(f) /\ ~Running(f)
    BY <1>3 DEF WakeInv, BodiesSound, Running, Held
  <2>2. "armed" \in WaitSpots
    BY DEF WaitSpots
  <2>3. QED
    BY <1>3, <2>1, <2>2 DEF BodySound, At
<1>11. BodySound(f)'
  BY <1>5, <1>7, <1>9, <1>10 DEF BodySound, Armed, At
<1>12. WorkerSound(w)'
  BY <1>2, <1>4, <1>5, <1>6, <1>7 DEF WorkerSound
<1>13. ~Due(f) /\ ~Due(f)'
  BY <1>3, <1>7 DEF Due
<1>14. ctrl'[f].wake \in {0, 1}
  BY <1>7 DEF WakeInv, DebtsSound
<1>15. QED
  BY <1>5, <1>6, <1>7, <1>8, <1>11, <1>12, <1>13, <1>14, WakeWorker

LEMMA WakeTerminate ==
    ASSUME WakeInv, NEW w \in Workers, Terminate(w), UNCHANGED <<unit, domainVars>>
    PROVE  WakeRest'
<1>1. PICK f \in Fibers : f = worker[w].task /\ worker[w].at \in {"record", "terminate"}
  BY DEF Terminate, WakeInv, PlaceInv, WordsTyped, OneWorker
<1>2. waker[w] = Quiet /\ ctrl[f].phase = "terminating"
  BY <1>1 DEF WakeInv, WorkersSound, WorkerSound
<1>3. /\ ctrl' = [ctrl EXCEPT ![f].phase = "terminated"]
      /\ worker' = [worker EXCEPT ![w].at = "joiners"]
      /\ UNCHANGED <<word, buffered, code, waker, joiners, unit, domainVars>>
  BY <1>1 DEF Terminate
<1>4. f # None /\ \A v \in Workers : v # w => worker[v].task # f
  BY <1>1, FiberArgs DEF WakeInv, PlaceInv, OneWorker
<1>5. /\ worker'[w].task = f /\ worker'[w].at = "joiners"
      /\ \A v \in Workers : v # w => worker'[v] = worker[v]
  BY <1>1, <1>3, WakeTypes
<1>6. /\ ctrl'[f].phase = "terminated" /\ ctrl'[f].wake = ctrl[f].wake
      /\ \A g \in Fibers : g # f => ctrl'[g] = ctrl[g]
  BY <1>3, WakeTypes, PhaseEffect DEF Phases
<1>7. /\ \A g \in Fibers : g # f => (Running(g)' <=> Running(g))
      /\ ~Running(f) /\ ~Running(f)'
  BY <1>1, <1>4, <1>5 DEF Running
<1>8. code[f].at \notin WaitSpots /\ f \notin buffered /\ ~Armed(f)
  <2>1. BodySound(f) /\ "armed" \in WaitSpots
    BY DEF WakeInv, BodiesSound, WaitSpots
  <2>2. QED
    BY <1>2, <1>7, <2>1 DEF BodySound, At
<1>9. BodySound(f)'
  BY <1>3, <1>7, <1>8 DEF BodySound, Armed, At
<1>10. WorkerSound(w)'
  BY <1>2, <1>3, <1>5 DEF WorkerSound
<1>11. ~Due(f) /\ ~Due(f)' /\ ctrl'[f].wake \in {0, 1}
  BY <1>2, <1>6 DEF Due, WakeInv, DebtsSound
<1>12. QED
  BY <1>3, <1>4, <1>5, <1>6, <1>7, <1>9, <1>10, <1>11, WakeWorker

(* Words, wakes and bodies are left alone but for the control word of f,   *)
(* whose wake, if it has one, is used up by the worker that leaves it.     *)
LEMMA WakeSuspended ==
    ASSUME WakeInv, NEW w \in Workers, Suspended(w), UNCHANGED <<unit, domainVars>>
    PROVE  WakeRest'
<1>1. PICK f \in Fibers : f = worker[w].task /\ worker[w].at = "suspend"
  BY DEF Suspended, WakeInv, PlaceInv, WordsTyped, OneWorker
<1>2. waker[w] = Quiet
  BY <1>1 DEF WakeInv, WorkersSound, WorkerSound
<1>3. UNCHANGED <<word, buffered, code, waker, joiners, unit, domainVars>>
  BY DEF Suspended
<1>4. f # None /\ \A v \in Workers : v # w => worker[v].task # f
  BY <1>1, FiberArgs DEF WakeInv, PlaceInv, OneWorker
<1>5. ~Running(f)
  BY <1>1, <1>4 DEF Running
<1>6. code[f].at \notin WaitSpots /\ f \notin buffered /\ (Armed(f) => ctrl[f].phase = "waiting")
  <2>1. BodySound(f) /\ "armed" \in WaitSpots
    BY DEF WakeInv, BodiesSound, WaitSpots
  <2>2. QED
    BY <1>5, <2>1 DEF BodySound, At
<1>7. ctrl[f].wake \in {0, 1}
  BY DEF WakeInv, DebtsSound
<1>8. ASSUME \A v \in Workers : v # w => worker'[v] = worker[v], worker'[w].at # "run",
             worker'[w].task \in {f, None}
      PROVE  /\ \A v \in Workers : v # w => worker'[v] = worker[v] /\ worker[v].task # f
             /\ \A g \in Fibers : g # f => (Running(g)' <=> Running(g))
             /\ ~Running(f)'
  BY <1>1, <1>4, <1>8 DEF Running
<1>9. ASSUME Leave(w)
      PROVE  /\ \A v \in Workers : v # w => worker'[v] = worker[v] /\ worker[v].task # f
             /\ \A g \in Fibers : g # f => (Running(g)' <=> Running(g))
             /\ ~Running(f)' /\ WorkerSound(w)'
  <2>1. worker'[w] = [at |-> "idle", task |-> None] /\ \A v \in Workers : v # w => worker'[v] = worker[v]
    BY <1>9, LeaveEffect DEF WakeInv
  <2>2. WorkerSound(w)'
    BY <2>1 DEF WorkerSound
  <2>3. QED
    BY <1>8, <2>1, <2>2
<1>10. CASE Leave(w) /\ ctrl' = ctrl
  <2>1. BodySound(f)'
    BY <1>3, <1>6, <1>9, <1>10 DEF BodySound, Armed, At
  <2>2. Due(f)' <=> Due(f)
    BY <1>3, <1>10 DEF Due, Stored
  <2>3. QED
    BY <1>3, <1>7, <1>9, <1>10, <2>1, <2>2, WakeWorker
<1>11. CASE ctrl[f].phase = "waiting" /\ Leave(w) /\ ctrl' = [ctrl EXCEPT ![f].park = @ + 1]
  <2>1. ctrl'[f].phase = "waiting"
    BY <1>11, WakeTypes DEF Words
  <2>2. ctrl'[f].wake = ctrl[f].wake
    BY <1>11, WakeTypes DEF Words
  <2>3. \A g \in Fibers : g # f => ctrl'[g] = ctrl[g]
    BY <1>11, WakeTypes DEF Words
  <2>4. BodySound(f)'
    BY <1>3, <1>6, <1>9, <1>11, <2>1 DEF BodySound, Armed, At
  <2>5. Due(f)' <=> Due(f)
    BY <1>3, <1>11, <2>1 DEF Due, Stored
  <2>6. QED
    BY <1>3, <1>7, <1>9, <1>11, <2>2, <2>3, <2>4, <2>5, WakeWorker
<1>12. CASE /\ ctrl[f].phase = "running"
            /\ ctrl' = [ctrl EXCEPT ![f].phase = "terminating"]
            /\ \E at \in {"record", "terminate"} : worker' = [worker EXCEPT ![w].at = at]
  <2>1. /\ ctrl'[f].phase = "terminating" /\ ctrl'[f].wake = ctrl[f].wake
        /\ \A g \in Fibers : g # f => ctrl'[g] = ctrl[g]
    BY <1>12, WakeTypes, PhaseEffect DEF Phases
  <2>2. /\ worker'[w].task = f /\ worker'[w].at \in {"record", "terminate"}
        /\ \A v \in Workers : v # w => worker'[v] = worker[v]
    BY <1>1, <1>12, WakeTypes
  <2>3. /\ \A v \in Workers : v # w => worker'[v] = worker[v] /\ worker[v].task # f
        /\ \A g \in Fibers : g # f => (Running(g)' <=> Running(g))
        /\ ~Running(f)'
    BY <1>8, <2>2
  <2>4. BodySound(f)'
    BY <1>3, <1>6, <1>12, <2>1, <2>3 DEF BodySound, Armed, At
  <2>5. WorkerSound(w)'
    BY <1>2, <1>3, <2>1, <2>2 DEF WorkerSound
  <2>6. ~Due(f) /\ ~Due(f)'
    BY <1>12, <2>1 DEF Due
  <2>7. QED
    BY <1>3, <1>7, <2>1, <2>3, <2>4, <2>5, <2>6, WakeWorker
<1>13. CASE ctrl[f].phase = "waiting" /\ Leave(w) /\ Meets(ctrl[f], "wake") /\ Publish(f)
  <2>1. ctrl[f].wake = 1
    BY <1>7, <1>13 DEF Meets
  <2>2. /\ ctrl'[f].phase = "ready" /\ ctrl'[f].wake = 0
        /\ \A g \in Fibers : g # f => ctrl'[g] = ctrl[g]
    BY <1>13, PublishEffect, WakeTypes
  <2>3. Due(f) /\ \A t \in Threads : \A i : ~Owed(t, i, f)
    BY <2>1 DEF WakeInv, DebtsSound
  <2>4. ~Armed(f)
    BY <2>3 DEF Due, Armed, Causes
  <2>5. BodySound(f)'
    BY <1>3, <1>6, <1>9, <1>13, <2>4 DEF BodySound, Armed, At
  <2>6. DebtsSound'
    <3>1. \A t \in Threads : \A i, g : Owed(t, i, g)' <=> Owed(t, i, g)
      BY <1>3 DEF Owed
    <3>2. ~Due(f)'
      BY <2>2 DEF Due
    <3>3. \A g \in Fibers : g # f => (Due(g)' <=> Due(g)) /\ ctrl'[g].wake = ctrl[g].wake
      BY <1>3, <2>2 DEF Due, Stored
    <3>4. \A g \in Fibers : ctrl'[g].wake \in {0, 1}
      BY <2>2, <3>3 DEF WakeInv, DebtsSound
    <3>5. ASSUME NEW g \in Fibers
          PROVE  Due(g)' <=> ctrl'[g].wake = 1 \/ \E t \in Threads : \E i : Owed(t, i, g)'
      <4>1. CASE g = f
        BY <2>2, <2>3, <3>1, <3>2, <4>1
      <4>2. CASE g # f
        BY <3>1, <3>3, <4>2 DEF WakeInv, DebtsSound
      <4>3. QED
        BY <4>1, <4>2
    <3>6. \A g \in Fibers : \A t \in Threads : \A i : Owed(t, i, g)' => ctrl'[g].wake = 0
      BY <2>2, <3>1, <3>3 DEF WakeInv, DebtsSound
    <3>7. \A g \in Fibers : \A t, u \in Threads : \A i, j :
             Owed(t, i, g)' /\ Owed(u, j, g)' => t = u /\ i = j
      BY <3>1 DEF WakeInv, DebtsSound
    <3>8. QED
      BY <3>4, <3>5, <3>6, <3>7 DEF DebtsSound
  <2>7. BodiesSound'
    <3>1. ASSUME NEW g \in Fibers, g # f PROVE BodySound(g)'
      <4>1. BodySound(g) /\ ctrl'[g] = ctrl[g] /\ (Running(g)' <=> Running(g))
        BY <1>9, <1>13, <2>2, <3>1 DEF WakeInv, BodiesSound
      <4>2. QED
        BY <1>3, <4>1 DEF BodySound, Armed, At
    <3>2. QED
      BY <2>5, <3>1 DEF BodiesSound
  <2>8. WorkersSound'
    <3>1. ASSUME NEW v \in Workers, v # w PROVE WorkerSound(v)'
      <4>1. worker'[v] = worker[v] /\ worker[v].task # f
        BY <1>9, <1>13, <3>1
      <4>2. worker[v].at \in {"record", "terminate"} => worker[v].task \in Fibers
        BY WakeTypes DEF WakeInv, PlaceInv, OneWorker
      <4>3. QED
        BY <1>3, <2>2, <4>1, <4>2 DEF WakeInv, WorkersSound, WorkerSound
    <3>2. QED
      BY <1>9, <1>13, <3>1 DEF WorkersSound
  <2>9. WakesTyped' /\ WakersFree' /\ QueueSound'
    BY <1>3, QueueKept DEF WakeInv, WakesTyped, WakersFree, domainVars
  <2>10. QED
    BY <2>6, <2>7, <2>8, <2>9 DEF WakeRest
<1>14. QED
  BY <1>1, <1>10, <1>11, <1>12, <1>13 DEF Suspended

-----------------------------------------------------------------------------
LEMMA WakeStep == ASSUME WakeInv, [Next]_vars PROVE WakeInv'
<1>1. PlaceInv' /\ PermitInv'
  BY PlaceStep, PermitStep DEF WakeInv
<1>2. WakeRest'
  <2>1. CASE UNCHANGED vars
    BY <2>1, WakeUnchanged
  <2>2. CASE TaskStep /\ UNCHANGED <<unit, domainVars>>
    BY <2>2, WakeDeliver, WakeResume, WakeSuspended, WakeTerminate, WakeWakeJoiners DEF TaskStep
  <2>3. CASE WaitStep /\ UNCHANGED domainVars
    BY <2>3, WakeBody, WakeDrain, WakeClaimFront, WakePosters DEF WaitStep
  <2>4. CASE TimerStep
    BY <2>4, WakeExpire, WakeTimeOut DEF TimerStep
  <2>5. CASE ApplierStep
    BY <2>5, WakeApplier, WakeCancelWait DEF ApplierStep
  <2>6. CASE \E f \in Fibers : Spawn(f)
    BY <2>6, WakeSpawn
  <2>7. QED
    BY <2>1, <2>2, <2>3, <2>4, <2>5, <2>6 DEF Next
<1>3. QED
  BY <1>1, <1>2 DEF WakeInv, WakeRest

LEMMA WakeInit == ASSUME Init PROVE WakeInv
<1> USE DEF Init, TaskInit, WaitInit, DomainInit
<1>1. WakesTyped
  <2>1. word \in [Fibers -> WaitWords]
    BY DEF WaitWords
  <2>2. waker \in [Threads -> [limit : Nat, owed : Seq(Fibers)]]
    BY DEF Quiet
  <2>3. cancel \in Cancels
    BY DEF Cancels
  <2>4. buffered \in SUBSET Fibers /\ joiners \in [Fibers -> SUBSET Fibers] /\ pump = NoEntry
        /\ cancel.at = "idle"
    OBVIOUS
  <2>5. QED
    BY <2>1, <2>2, <2>3, <2>4 DEF WakesTyped
<1>2. BodiesSound
  <2>1. \A f \in Fibers : /\ code[f].at = "body" /\ word[f].cause = "none"
                          /\ ~Running(f)
    BY DEF Fresh, Running
  <2>2. buffered = {} /\ "body" \notin WaitSpots
    BY DEF WaitSpots
  <2>3. QED
    BY <2>1, <2>2 DEF BodiesSound, BodySound, Armed
<1>3. WorkersSound
  BY DEF WorkersSound, WorkerSound
<1>4. WakersFree
  BY DEF WakersFree, Quiet
<1>5. QueueSound
  <2>1. unit.queue = <<>>
    OBVIOUS
  <2>2. <<>> \in Seq(Fibers) /\ DOMAIN <<>> = {} /\ Len(<<>>) = 0
    BY EmptySeq
  <2>3. QED
    BY <2>1, <2>2 DEF QueueSound
<1>6. DebtsSound
  <2>1. \A f \in Fibers : ctrl[f].wake = 0 /\ ctrl[f].phase = "ready" /\ ~Due(f)
    BY DEF Unborn, Due
  <2>2. \A t \in Threads : \A i, f : ~Owed(t, i, f)
    BY DEF Owed, Quiet
  <2>3. QED
    BY <2>1, <2>2 DEF DebtsSound
<1>7. QED
  BY <1>1, <1>2, <1>3, <1>4, <1>5, <1>6, PlaceInit, PermitInit DEF WakeInv

(* Debts are counted among as many positions as there are fibers, which a  *)
(* list of those owed, each named once, does not exceed.                   *)
LEMMA OwedWithin ==
    ASSUME WakeInv, NEW t \in Threads, NEW i, NEW f \in Fibers, Owed(t, i, f)
    PROVE  i \in 1 .. Cardinality(Fibers)
<1>1. PICK o \in Seq(Fibers) : o = waker[t].owed
  BY WakeTypes
<1>2. PICK l \in Nat : l = Len(o) /\ DOMAIN o = 1 .. l /\ o \in [1 .. l -> Fibers]
  BY LenProperties
<1>3. \A a, b \in 1 .. l : o[a] = o[b] => a = b
  <2> TAKE a, b \in 1 .. l
  <2> HAVE o[a] = o[b]
  <2>1. PICK g \in Fibers : g = o[a]
    BY <1>2
  <2>2. Owed(t, a, g) /\ Owed(t, b, g)
    BY <1>1, <1>2, <2>1 DEF Owed
  <2>3. QED
    BY <2>2 DEF WakeInv, DebtsSound
<1>4. Cardinality(Fibers) \in Nat /\ IsFiniteSet(Fibers)
  BY FiberArgs, FS_CardinalityType
<1>5. IsFiniteSet(1 .. l) /\ Cardinality(1 .. l) = l
  BY FS_Interval
<1>6. l <= Cardinality(Fibers)
  <2>1. SUFFICES ASSUME Cardinality(Fibers) < Cardinality(1 .. l) PROVE FALSE
    BY <1>4, <1>5
  <2>2. \E a, b \in 1 .. l : a # b /\ o[a] = o[b]
    BY <1>2, <1>4, <1>5, <2>1, FS_PigeonHole
  <2>3. QED
    BY <1>3, <2>2
<1>7. QED
  BY <1>1, <1>2, <1>4, <1>6 DEF Owed

LEMMA WakeGivesOnce == ASSUME WakeInv PROVE WokenOnce
<1>1. OnePlace
  BY PlaceGivesOne DEF WakeInv
<1>2. ASSUME NEW f \in Live PROVE Debts(f) + ctrl[f].wake = IF Due(f) THEN 1 ELSE 0
  <2> DEFINE D == {d \in Threads \X (1 .. Cardinality(Fibers)) :
                      LET owed == waker[d[1]].owed
                      IN  d[2] \in DOMAIN owed /\ owed[d[2]] = f}
  <2>1. f \in Fibers
    BY DEF Live, Rooted, WakeInv, PlaceInv, RootsTyped
  <2>2. \A d \in D : d[1] \in Threads /\ d = <<d[1], d[2]>> /\ Owed(d[1], d[2], f)
    BY DEF Owed
  <2>3. \A t \in Threads : \A i : Owed(t, i, f) => <<t, i>> \in D
    BY <2>1, OwedWithin DEF Owed
  <2>4. Debts(f) = Cardinality(D)
    BY DEF Debts
  <2> HIDE DEF D
  <2>5. CASE \E t \in Threads : \E i : Owed(t, i, f)
    <3>0. PICK t \in Threads : \E i : Owed(t, i, f)
      BY <2>5
    <3>1. PICK i : Owed(t, i, f)
      BY <3>0
    <3>2. \A d \in D : d = <<t, i>>
      BY <2>1, <2>2, <3>1 DEF WakeInv, DebtsSound
    <3>3. D = {<<t, i>>}
      BY <2>3, <3>1, <3>2
    <3>4. Cardinality(D) = 1
      BY <3>3, FS_Singleton
    <3>5. ctrl[f].wake = 0 /\ Due(f)
      BY <2>1, <3>1 DEF WakeInv, DebtsSound
    <3>6. QED
      BY <2>4, <3>4, <3>5
  <2>6. CASE ~ \E t \in Threads : \E i : Owed(t, i, f)
    <3>1. D = {}
      BY <2>2, <2>6
    <3>2. Cardinality(D) = 0
      BY <3>1, FS_EmptySet
    <3>3. ctrl[f].wake = IF Due(f) THEN 1 ELSE 0
      BY <2>1, <2>6 DEF WakeInv, DebtsSound
    <3>4. QED
      BY <2>4, <3>2, <3>3
  <2>7. QED
    BY <2>5, <2>6
<1>3. QED
  BY <1>1, <1>2 DEF WokenOnce, Due, Causes

(* Whoever claims a wait, whether a signal, the timer or a cancellation,   *)
(* owes its fiber one WAKE until that is added, and a fiber that is not to *)
(* be woken is owed none, for any number of fibers, workers and posters    *)
(* (armWait, claimWait, makeWaiterReady, publishParkedWaiter, resume).     *)
THEOREM EachWaitWokenOnce == Spec => []WokenOnce
<1>1. Init => WakeInv
  BY WakeInit
<1>2. WakeInv /\ [Next]_vars => WakeInv'
  BY WakeStep
<1>3. WakeInv => WokenOnce
  BY WakeGivesOnce
<1>4. QED
  BY <1>1, <1>2, <1>3, PTL DEF Spec

-----------------------------------------------------------------------------
(* Why a wait ends: who has heard of it.                                   *)

(* The places of a wait that has looked for a cancellation.                *)
Looked == {"link", "register", "retake", "timer", "parked"}

(* A word is armed only where its body waits; a task that has ended, or    *)
(* was never entered, has no wait; a body that ended is at its end.        *)
SpotSound(f) ==
    /\ code[f].at \in {"link", "retake"} => code[f].op.kind = "unit"
    /\ code[f].at = "register" => code[f].op.kind # "unit"
    /\ code[f].op.kind = "join" => code[f].op.target \in Fibers
    /\ ctrl[f].phase = "waiting" /\ Stored(f) => word[f].cause \in Causes \cup {"armed"}
    /\ Armed(f) => code[f].at \in WaitSpots \cup {"parked"}
    /\ ctrl[f].phase \in Terminal => code[f].at \in {"body", "done"}
    /\ f \notin Rooted => code[f].at = "body"
    /\ ctrl[f].enter = 0 => code[f].at = "body" /\ ~Running(f)
    /\ ctrl[f].phase = "running" /\ ~Running(f) => code[f].at = "done"

SpotsSound == \A f \in Fibers : SpotSound(f)

(* A cancellation that an armed wait did not see is about to claim it.     *)
CancelHeard(f) ==
    Armed(f) /\ code[f].at \in Looked /\ Cancelled(f) =>
        /\ cancel.task = f
        /\ cancel.at = "accept" \/ (cancel.at = "claim" /\ cancel.n = word[f].n)

(* A parked wait with a deadline is in the heap, or with the pump.         *)
TimerHeard(f) ==
    Armed(f) /\ code[f].at = "parked" /\ code[f].op.timed =>
        heap[f] = word[f].n \/ (pump.task = f /\ pump.n = word[f].n)

(* A join that waits is on its target's list, a unit wait in the queue.    *)
JoinHeard(f) ==
    Armed(f) /\ code[f].at \in {"timer", "parked"} /\ code[f].op.kind = "join" =>
        f \in joiners[code[f].op.target]

Linked(f) == \E i \in DOMAIN unit.queue : unit.queue[i] = f

UnitHeard(f) ==
    Armed(f) /\ code[f].at \in {"retake", "timer", "parked"} /\ code[f].op.kind = "unit" =>
        Linked(f)

AllHeard == \A f \in Fibers : CancelHeard(f) /\ TimerHeard(f) /\ JoinHeard(f) /\ UnitHeard(f)

HeapTyped == heap \in [Fibers -> Nat] /\ \A f \in Fibers : Armed(f) => word[f].n # 0

(* What has ended has told its joiners, or its worker is about to.         *)
EndsHeard ==
    \A t \in Fibers : Ended(t) /\ joiners[t] # {} =>
        \E w \in Workers : worker[w].at = "joiners" /\ worker[w].task = t

(* A shutdown that cancels has reached every task, or is about to.         *)
Reached(f) ==
    \/ Cancelled(f) \/ ctrl[f].phase \in Terminal
    \/ cancel.at = "add" /\ cancel.task = f
    \/ cancel.at # "idle" /\ \E i \in DOMAIN cancel.todo : cancel.todo[i] = f

ShutHeard == cancel.all => ~accepting /\ \A f \in Rooted : Reached(f)

(* PARK and WAKE have not met: whoever adds the second publishes.          *)
Meeting == \A f \in Fibers : ctrl[f].park = 1 => ctrl[f].wake = 0

RestInv ==
    WakeInv /\ SpotsSound /\ HeapTyped /\ AllHeard /\ EndsHeard /\ ShutHeard /\ Meeting

-----------------------------------------------------------------------------
(* What a step that does not concern a fiber leaves in order.              *)

LEMMA SpotKept ==
    ASSUME NEW f \in Fibers, SpotSound(f), code'[f] = code[f],
           ctrl'[f].phase = "waiting" /\ Stored(f)' =>
               \/ word'[f].cause \in Causes \cup {"armed"}
               \/ ctrl[f].phase = "waiting" /\ Stored(f) /\ word'[f] = word[f],
           Armed(f)' => Armed(f),
           ctrl'[f].phase \in Terminal =>
               ctrl[f].phase \in Terminal \/ code[f].at \in {"body", "done"},
           f \in Rooted => f \in Rooted',
           ctrl'[f].enter = 0 => ctrl[f].enter = 0 /\ ~Running(f)',
           ctrl'[f].phase = "running" /\ ~Running(f)' => ctrl[f].phase = "running" /\ ~Running(f)
    PROVE  SpotSound(f)'
  BY DEF SpotSound

LEMMA CancelKept ==
    ASSUME NEW f \in Fibers, CancelHeard(f), code'[f] = code[f],
           Armed(f)' => Armed(f) /\ word'[f] = word[f],
           Cancelled(f)' => Cancelled(f),
           UNCHANGED <<cancel.task, cancel.at, cancel.n>>
    PROVE  CancelHeard(f)'
  BY DEF CancelHeard

LEMMA TimerKept ==
    ASSUME NEW f \in Fibers, TimerHeard(f), code'[f] = code[f],
           Armed(f)' => Armed(f) /\ word'[f] = word[f], heap'[f] = heap[f], pump' = pump
    PROVE  TimerHeard(f)'
  BY DEF TimerHeard

LEMMA JoinKept ==
    ASSUME NEW f \in Fibers, JoinHeard(f), SpotSound(f), code'[f] = code[f],
           Armed(f)' => Armed(f) /\ \A t \in Fibers : f \in joiners[t] => f \in joiners'[t]
    PROVE  JoinHeard(f)'
  BY DEF JoinHeard, SpotSound

LEMMA UnitKept ==
    ASSUME NEW f \in Fibers, UnitHeard(f), code'[f] = code[f],
           Armed(f)' => Armed(f) /\ (Linked(f) => Linked(f)')
    PROVE  UnitHeard(f)'
  BY DEF UnitHeard

LEMMA EndsKept ==
    ASSUME EndsHeard,
           \A t \in Fibers : Ended(t)' /\ joiners'[t] # {} => Ended(t) /\ joiners[t] # {},
           \A w \in Workers : worker[w].at = "joiners" =>
               worker'[w].at = "joiners" /\ worker'[w].task = worker[w].task
    PROVE  EndsHeard'
  BY DEF EndsHeard

LEMMA ShutKept ==
    ASSUME ShutHeard, UNCHANGED <<cancel, accepting, roots>>,
           \A f \in Rooted : Cancelled(f) => Cancelled(f)',
           \A f \in Rooted : ctrl[f].phase \in Terminal => ctrl'[f].phase \in Terminal
    PROVE  ShutHeard'
<1>1. Rooted' = Rooted
  BY DEF Rooted
<1>2. QED
  BY <1>1 DEF ShutHeard, Reached

-----------------------------------------------------------------------------
(* The steps of a body, again.                                             *)

LEMMA GotoOp ==
    ASSUME code \in [Fibers -> Codes], NEW f \in Fibers, NEW place, Goto(f, place)
    PROVE  code'[f].op = IF place \in {"body", "throw", "done"} THEN NoOp ELSE code[f].op
<1>1. PICK c \in Codes : c = code[f]
  OBVIOUS
<1> DEFINE op == IF place \in {"body", "throw", "done"} THEN NoOp ELSE c.op
<1>2. [c EXCEPT !.at = place, !.next = None, !.op = op].op = op
  BY DEF Codes
<1>3. code' = [code EXCEPT ![f] = [c EXCEPT !.at = place, !.next = None, !.op = op]]
  BY <1>1 DEF Goto
<1> HIDE DEF op
<1>4. code'[f].op = op
  BY <1>2, <1>3
<1>5. QED
  BY <1>1, <1>4 DEF op

LEMMA BackoutOp ==
    ASSUME code \in [Fibers -> Codes], NEW f \in Fibers, NEW why, Backout(f, why)
    PROVE  code'[f].op = code[f].op
  BY DEF Backout, Codes

LEMMA BodyOp ==
    ASSUME code \in [Fibers -> Codes], NEW f \in Fibers, NEW o,
           code' = [code EXCEPT ![f] = [@ EXCEPT !.at = First[o.kind], !.op = o,
                                                 !.turns = code[f].turns + 1]]
    PROVE  code'[f].op = o
<1>1. PICK c \in Codes : c = code[f]
  OBVIOUS
<1>2. PICK p : p = First[o.kind]
  OBVIOUS
<1>3. [c EXCEPT !.at = p, !.op = o, !.turns = c.turns + 1].op = o
  BY DEF Codes
<1>4. code' = [code EXCEPT ![f] = [c EXCEPT !.at = p, !.op = o, !.turns = c.turns + 1]]
  BY <1>1, <1>2
<1>5. QED
  BY <1>3, <1>4

LEMMA PhaseOnly ==
    ASSUME ctrl \in [Fibers -> Words], NEW f \in Fibers, NEW ph,
           ctrl' = [ctrl EXCEPT ![f].phase = ph]
    PROVE  /\ ctrl'[f].phase = ph /\ ctrl'[f].enter = ctrl[f].enter
           /\ ctrl'[f].cancel = ctrl[f].cancel
           /\ \A g \in Fibers : g # f => ctrl'[g] = ctrl[g]
  BY DEF Words

(* Who runs is admitted, and runs on unless it switched back.              *)
LEMMA RunnerFacts ==
    ASSUME RestInv, NEW w \in Workers, NEW f \in Fibers, Runs(w, f),
           worker' = worker \/ worker' = [worker EXCEPT ![w].at = "suspend"]
    PROVE  /\ f \in Rooted /\ Running(f) /\ ctrl[f].phase \in {"waiting", "running"}
           /\ worker' = worker => Running(f)'
           /\ worker' # worker => ~Running(f)'
           /\ \A g \in Fibers : g # f => (Running(g)' <=> Running(g))
           /\ \A v \in Workers : v # w => worker'[v] = worker[v] /\ worker[v].task # f
           /\ worker[w].at = "run" /\ worker[w].task = f
<1>0. f # None /\ worker[w].at = "run" /\ worker[w].task = f
  BY FiberArgs DEF Runs
<1>1. Running(f) /\ Held(f)
  BY <1>0 DEF Running, Held
<1>2. f \in Rooted
  BY <1>1 DEF RestInv, WakeInv, PlaceInv, Somewhere
<1>3. ctrl[f].phase \in {"waiting", "running"}
  BY <1>1 DEF RestInv, WakeInv, BodiesSound, BodySound
<1>4. \A v \in Workers : v # w => worker[v].task # f
  BY <1>0 DEF RestInv, WakeInv, PlaceInv, OneWorker
<1>5. worker \in [Workers -> [at : Stages, task : Fibers \cup {None}]]
  BY WakeTypes DEF RestInv
<1>6. CASE worker' = worker
  BY <1>0, <1>1, <1>2, <1>3, <1>4, <1>6 DEF Running
<1>7. CASE worker' # worker
  <2>1. /\ worker'[w].at = "suspend" /\ \A v \in Workers : v # w => worker'[v] = worker[v]
    BY <1>5, <1>7
  <2>2. ~Running(f)' /\ \A g \in Fibers : g # f => (Running(g)' <=> Running(g))
    BY <1>0, <1>4, <2>1 DEF Running
  <2>3. QED
    BY <1>0, <1>1, <1>2, <1>3, <1>4, <1>7, <2>1, <2>2
<1>8. QED
  BY <1>6, <1>7

(* Most steps leave the words alone and stay where the wait is, or are     *)
(* made while there is none.                                               *)
LEMMA SpotGoes ==
    ASSUME RestInv, NEW w \in Workers, NEW f \in Fibers, Runs(w, f), roots' = roots,
           UNCHANGED <<ctrl, word, buffered>>, worker' = worker \/ Suspend(w),
           code'[f].op \in {code[f].op, NoOp},
           code'[f].at \notin {"link", "register"},
           code'[f].at = "retake" => code[f].at = "link" /\ code'[f].op = code[f].op,
           Armed(f) => code'[f].at \in WaitSpots \cup {"parked"},
           Suspend(w) => code'[f].at = "done" \/ code[f].at \in WaitSpots
    PROVE  SpotSound(f)'
<1>0. SpotSound(f)
  BY DEF RestInv, SpotsSound
<1>1. /\ f \in Rooted /\ Running(f) /\ ctrl[f].phase \in {"waiting", "running"}
      /\ worker' = worker => Running(f)'
  BY RunnerFacts DEF Suspend
<1>2. f \in Rooted'
  BY <1>1 DEF Rooted
<1>3. ctrl[f].phase \notin Terminal
  BY <1>1 DEF Terminal
<1>4. ctrl[f].enter # 0
  BY <1>0, <1>1 DEF SpotSound
<1>5. ctrl[f].phase = "running" /\ ~Running(f)' => code'[f].at = "done"
  <2>1. code[f].at \in WaitSpots => ctrl[f].phase # "running"
    BY <1>1 DEF RestInv, WakeInv, BodiesSound, BodySound
  <2>2. QED
    BY <1>1, <2>1
<1>6. NoOp.kind = "none"
  BY DEF NoOp
<1>7. QED
  BY <1>0, <1>2, <1>3, <1>4, <1>5, <1>6 DEF SpotSound, Armed, Stored

LEMMA SpotOthers ==
    ASSUME RestInv, NEW w \in Workers, NEW f \in Fibers, FiberStep(w, f), roots' = roots,
           NEW g \in Fibers, g # f
    PROVE  SpotSound(g)'
<1>1. BodyWakes(w, f) /\ Runs(w, f)
  BY BodyWakesAll DEF RestInv
<1>2. /\ ctrl'[g] = ctrl[g] /\ code'[g] = code[g] /\ word'[g] = word[g]
      /\ g \in buffered' <=> g \in buffered
  BY <1>1 DEF BodyWakes
<1>3. worker' = worker \/ worker' = [worker EXCEPT ![w].at = "suspend"]
  BY BodyEffect
<1>4. Running(g)' <=> Running(g)
  BY <1>1, <1>3, RunnerFacts
<1>5. Rooted' = Rooted
  BY DEF Rooted
<1>6. SpotSound(g)
  BY DEF RestInv, SpotsSound
<1>7. QED
  BY <1>2, <1>4, <1>5, <1>6, SpotKept DEF Armed, Stored, SpotSound

LEMMA SpotBody ==
    ASSUME RestInv, NEW w \in Workers, NEW f \in Fibers, roots' = roots,
           \/ Body(w, f) \/ Throw(w, f) \/ YieldReady(w, f) \/ TryTake(w, f) \/ Poll(w, f)
    PROVE  SpotSound(f)'
<1> USE DEF Keeps
<1>0. code \in [Fibers -> Codes] /\ ctrl \in [Fibers -> Words]
  BY WakeTypes DEF RestInv
<1>1. \A p \in {"body", "done", "parked", "check", "take", "poll", "yield", "throw", "last"} :
         /\ p \in Spots /\ p \notin WaitSpots /\ p \notin {"link", "register", "retake"}
  BY DEF Spots, Reasons, WaitSpots
<1>2. SpotSound(f) /\ NoOp.kind = "none"
  BY DEF RestInv, SpotsSound, NoOp
<1>3. CASE Body(w, f)
  <2>1. Runs(w, f) /\ code[f].at = "body" /\ UNCHANGED <<ctrl, word, buffered>>
    BY <1>3 DEF Body, At
  <2>2. ~Armed(f) /\ f \notin buffered /\ ctrl[f].phase = "running"
    BY <1>1, <2>1, BodyBefore DEF RestInv
  <2>3. CASE Goto(f, "done") /\ Suspend(w)
    <3>1. code'[f].at = "done" /\ code'[f].op = NoOp
      BY <1>0, <1>1, <2>3, GotoEffect, GotoOp
    <3>2. QED
      BY <1>1, <2>1, <2>2, <2>3, <3>1, SpotGoes
  <2>4. ASSUME NEW o \in Does[f], worker' = worker, o.kind = "join" => o.target \in Rooted,
               code' = [code EXCEPT ![f] = [@ EXCEPT !.at = First[o.kind], !.op = o,
                                                     !.turns = code[f].turns + 1]]
        PROVE  SpotSound(f)'
    <3>1. code'[f].at \in {"take", "poll", "yield"} /\ code'[f].op = o
      BY <1>0, <2>4, BodyCode, BodyOp
    <3>2. Rooted \subseteq Fibers
      BY LenProperties DEF RestInv, WakeInv, PlaceInv, RootsTyped, Rooted
    <3>3. f \in Rooted /\ Running(f) /\ Running(f)'
      BY <2>1, <2>4, RunnerFacts
    <3>4. f \in Rooted'
      BY <3>3 DEF Rooted
    <3>5. ctrl'[f].phase = "running" /\ ctrl'[f].enter # 0 /\ ~Armed(f)'
      BY <1>2, <2>1, <2>2, <3>3 DEF SpotSound, Armed
    <3>6. QED
      BY <2>4, <3>1, <3>2, <3>3, <3>4, <3>5 DEF SpotSound, Terminal
  <2>5. QED
    BY <1>3, <2>3, <2>4 DEF Body
<1>4. CASE Throw(w, f)
  <2>1. /\ Runs(w, f) /\ code[f].at = "throw" /\ UNCHANGED <<ctrl, word, buffered>>
        /\ Goto(f, "done") /\ Suspend(w)
    BY <1>4 DEF Throw, At, Fail
  <2>2. ~Armed(f)
    BY <1>1, <2>1, BodyBefore DEF RestInv
  <2>3. code'[f].at = "done" /\ code'[f].op = NoOp
    BY <1>0, <1>1, <2>1, GotoEffect, GotoOp
  <2>4. QED
    BY <1>1, <2>1, <2>2, <2>3, SpotGoes
<1>5. CASE YieldReady(w, f)
  <2>1. /\ Runs(w, f) /\ code[f].at = "yield" /\ UNCHANGED <<word, buffered>> /\ Suspend(w)
    BY <1>5 DEF YieldReady, At, Fail
  <2>2. ~Armed(f) /\ f \notin buffered
    BY <1>1, <2>1, BodyBefore DEF RestInv
  <2>3. CASE Goto(f, "done") /\ ctrl' = ctrl
    <3>1. code'[f].at = "done" /\ code'[f].op = NoOp
      BY <1>0, <1>1, <2>3, GotoEffect, GotoOp
    <3>2. QED
      BY <1>1, <2>1, <2>2, <2>3, <3>1, SpotGoes
  <2>4. CASE Goto(f, "parked") /\ ctrl' = [ctrl EXCEPT ![f].phase = "ready"]
    <3>1. code'[f].at = "parked" /\ code'[f].op = code[f].op
      BY <1>0, <1>1, <2>4, GotoEffect, GotoOp
    <3>2. ctrl'[f].phase = "ready" /\ ctrl'[f].enter = ctrl[f].enter
      BY <1>0, <2>4, PhaseOnly
    <3>3. f \in Rooted /\ Running(f)
      BY <2>1, RunnerFacts DEF Suspend
    <3>4. f \in Rooted' /\ ctrl'[f].enter # 0 /\ ~Armed(f)'
      BY <1>2, <2>1, <2>2, <3>2, <3>3 DEF SpotSound, Armed, Rooted
    <3>5. QED
      BY <1>2, <3>1, <3>2, <3>4 DEF SpotSound, Terminal
  <2>5. QED
    BY <1>5, <2>3, <2>4 DEF YieldReady, Fail
<1>6. CASE TryTake(w, f) \/ Poll(w, f)
  <2>1. /\ Runs(w, f) /\ code[f].at \in {"take", "last", "poll"}
        /\ UNCHANGED <<ctrl, word, buffered, worker>>
        /\ \E p \in {"body", "check"} : Goto(f, p)
    BY <1>6 DEF TryTake, Take1, Poll, OnlyCode, At
  <2>2. ~Armed(f)
    BY <1>1, <2>1, BodyBefore DEF RestInv
  <2>3. code'[f].at \in {"body", "check"} /\ code'[f].op \in {NoOp, code[f].op}
    BY <1>0, <1>1, <2>1, GotoEffect, GotoOp
  <2>4. ~Suspend(w)
    BY <2>1, WakeTypes DEF Suspend, RestInv, Runs
  <2>5. QED
    BY <1>1, <2>1, <2>2, <2>3, <2>4, SpotGoes
<1>7. QED
  BY <1>3, <1>4, <1>5, <1>6

LEMMA SpotArm ==
    ASSUME RestInv, NEW w \in Workers, NEW f \in Fibers, roots' = roots, Arm(w, f)
    PROVE  SpotSound(f)'
<1>0. code \in [Fibers -> Codes] /\ ctrl \in [Fibers -> Words]
  BY WakeTypes DEF RestInv
<1>1. \A p \in {"done", "body", "armed", "check"} :
         /\ p \in Spots /\ p \notin {"link", "register", "retake", "withdraw"}
         /\ p # "armed" => p \notin WaitSpots
  BY DEF Spots, Reasons, WaitSpots
<1>2. Runs(w, f) /\ code[f].at = "check" /\ word' = word
  BY DEF Arm, At, Keeps
<1>3. ~Armed(f) /\ f \notin buffered
  BY <1>1, <1>2, BodyBefore DEF RestInv
<1>4. CASE Fail(w, f) /\ UNCHANGED <<ctrl, buffered>>
  <2>1. code'[f].at = "done" /\ code'[f].op = NoOp
    BY <1>0, <1>1, <1>4, GotoEffect, GotoOp DEF Fail
  <2>2. QED
    BY <1>1, <1>2, <1>3, <1>4, <2>1, SpotGoes DEF Fail
<1>5. CASE Goto(f, "body") /\ UNCHANGED <<ctrl, buffered, worker>>
  <2>1. code'[f].at = "body" /\ code'[f].op = NoOp
    BY <1>0, <1>1, <1>5, GotoEffect, GotoOp
  <2>2. ~Suspend(w)
    BY <1>2, <1>5, WakeTypes DEF Suspend, RestInv, Runs
  <2>3. QED
    BY <1>1, <1>2, <1>3, <1>5, <2>1, <2>2, SpotGoes
<1>6. CASE /\ Goto(f, "armed") /\ ctrl' = [ctrl EXCEPT ![f].phase = "waiting"]
           /\ buffered' = buffered \cup {f} /\ worker' = worker
  <2>1. code'[f].at = "armed" /\ code'[f].op = code[f].op
    BY <1>0, <1>1, <1>6, GotoEffect, GotoOp
  <2>2. ctrl'[f].phase = "waiting" /\ ctrl'[f].enter = ctrl[f].enter
    BY <1>0, <1>6, PhaseOnly
  <2>3. f \in Rooted' /\ Running(f)' /\ Running(f) /\ SpotSound(f)
    BY <1>2, <1>6, RunnerFacts DEF Rooted, RestInv, SpotsSound
  <2>4. ~Stored(f)' /\ ~Armed(f)'
    BY <1>2, <1>3, <1>6 DEF Stored, Armed
  <2>5. QED
    BY <2>1, <2>2, <2>3, <2>4 DEF SpotSound, Terminal
<1>7. QED
  BY <1>4, <1>5, <1>6 DEF Arm

(* Waits that go on.                                                       *)
LEMMA SpotGoOn ==
    ASSUME RestInv, NEW w \in Workers, NEW f \in Fibers, roots' = roots, Runs(w, f),
           UNCHANGED <<ctrl, word, buffered>>, code[f].at \in WaitSpots,
           \/ /\ worker' = worker
              /\ \E why \in Reasons : Backout(f, why)
           \/ GoOn(w, f)
           \/ Goto(f, "parked") /\ Suspend(w)
           \/ Goto(f, "retake") /\ code[f].at = "link" /\ worker' = worker
    PROVE  SpotSound(f)'
<1>0. code \in [Fibers -> Codes]
  BY WakeTypes DEF RestInv
<1>1. /\ \A p \in {"timer", "parked", "retake"} : p \in Spots /\ p \notin {"link", "register", "body", "throw", "done"}
      /\ "timer" \in WaitSpots /\ "withdraw" \in WaitSpots /\ "retake" \in WaitSpots
      /\ "withdraw" \notin {"link", "register", "retake"}
  BY DEF Spots, WaitSpots
<1>2. CASE worker' = worker /\ \E why \in Reasons : Backout(f, why)
  <2>1. code'[f].at = "withdraw" /\ code'[f].op = code[f].op
    BY <1>0, <1>2, BackoutEffect, BackoutOp
  <2>2. QED
    BY <1>1, <1>2, <2>1, SpotGoes
<1>3. CASE (Goto(f, "timer") /\ worker' = worker) \/ (Goto(f, "parked") /\ Suspend(w))
  <2>1. code'[f].at \in {"timer", "parked"} /\ code'[f].op = code[f].op
    BY <1>0, <1>1, <1>3, GotoEffect, GotoOp
  <2>2. QED
    BY <1>1, <1>3, <2>1, SpotGoes
<1>4. CASE Goto(f, "retake") /\ code[f].at = "link" /\ worker' = worker
  <2>1. code'[f].at = "retake" /\ code'[f].op = code[f].op
    BY <1>0, <1>1, <1>4, GotoEffect, GotoOp
  <2>2. QED
    BY <1>1, <1>4, <2>1, SpotGoes
<1>5. QED
  BY <1>2, <1>3, <1>4 DEF GoOn

LEMMA SpotArmable ==
    ASSUME RestInv, NEW w \in Workers, NEW f \in Fibers, roots' = roots, Armable(w, f)
    PROVE  SpotSound(f)'
<1>0. code \in [Fibers -> Codes]
  BY WakeTypes DEF RestInv
<1>1. /\ Runs(w, f) /\ code[f].at = "armed" /\ code[f].at \in WaitSpots
      /\ UNCHANGED <<ctrl, word, buffered, worker>>
  BY DEF Armable, At, OnlyCode, WaitSpots
<1>2. CASE Backout(f, "throw")
  <2>1. "throw" \in Reasons
    BY DEF Reasons
  <2>2. QED
    BY <1>1, <1>2, <2>1, SpotGoOn
<1>3. CASE Goto(f, IF code[f].op.kind = "unit" THEN "link" ELSE "register")
  <2>1. PICK p \in {"link", "register"} :
           Goto(f, p) /\ p = IF code[f].op.kind = "unit" THEN "link" ELSE "register"
    BY <1>3
  <2>2. p \in Spots /\ p \notin {"body", "throw", "done", "retake"} /\ p \in WaitSpots
    BY DEF Spots, WaitSpots
  <2>3. code'[f].at = p /\ code'[f].op = code[f].op
    BY <1>0, <2>1, <2>2, GotoEffect, GotoOp
  <2>4. SpotSound(f) /\ Running(f)' /\ f \in Rooted /\ f \in Rooted'
    BY <1>1, RunnerFacts DEF RestInv, SpotsSound, Rooted
  <2>5. ctrl[f].phase \in {"waiting", "running"}
    BY <1>1, RunnerFacts
  <2>7. ctrl[f].enter # 0
    BY <1>1, <2>4, RunnerFacts DEF SpotSound
  <2>6. QED
    BY <1>1, <2>1, <2>2, <2>3, <2>4, <2>5, <2>7 DEF SpotSound, Terminal, Stored, Armed
<1>4. QED
  BY <1>2, <1>3 DEF Armable

LEMMA SpotWaiting ==
    ASSUME RestInv, NEW w \in Workers, NEW f \in Fibers, roots' = roots,
           Link(w, f) \/ Retake(w, f) \/ Register(w, f) \/ ArmTimer(w, f)
    PROVE  SpotSound(f)'
<1> USE DEF Keeps, At
<1>1. "taken" \in Reasons /\ "poll" \in Reasons /\ "failed" \in Reasons
  BY DEF Reasons
<1>2. {"link", "retake", "register", "timer"} \subseteq WaitSpots
  BY DEF WaitSpots
<1>3. CASE Link(w, f)
  <2>1. /\ Runs(w, f) /\ code[f].at = "link" /\ UNCHANGED <<ctrl, word, buffered, worker>>
        /\ Goto(f, "retake")
    BY <1>3 DEF Link
  <2>2. QED
    BY <1>2, <2>1, SpotGoOn
<1>4. CASE Retake(w, f)
  <2>1. /\ Runs(w, f) /\ code[f].at = "retake" /\ UNCHANGED <<ctrl, word, buffered>>
        /\ (Backout(f, "taken") /\ worker' = worker) \/ GoOn(w, f)
    BY <1>4 DEF Retake
  <2>2. QED
    BY <1>1, <1>2, <2>1, SpotGoOn
<1>5. CASE Register(w, f)
  <2>1. /\ Runs(w, f) /\ code[f].at = "register" /\ UNCHANGED <<ctrl, word, buffered>>
        /\ (Backout(f, "poll") /\ worker' = worker) \/ GoOn(w, f)
    BY <1>5 DEF Register
  <2>2. QED
    BY <1>1, <1>2, <2>1, SpotGoOn
<1>6. CASE ArmTimer(w, f)
  <2>1. /\ Runs(w, f) /\ code[f].at = "timer" /\ UNCHANGED <<ctrl, word, buffered>>
        /\ (Backout(f, "failed") /\ worker' = worker) \/ (Goto(f, "parked") /\ Suspend(w))
    BY <1>6 DEF ArmTimer
  <2>2. QED
    BY <1>1, <1>2, <2>1, SpotGoOn
<1>7. QED
  BY <1>3, <1>4, <1>5, <1>6

LEMMA SpotWithdraw ==
    ASSUME RestInv, NEW w \in Workers, NEW f \in Fibers, roots' = roots, Withdraw(w, f)
    PROVE  SpotSound(f)'
<1>0. code \in [Fibers -> Codes] /\ ctrl \in [Fibers -> Words] /\ word \in [Fibers -> WaitWords]
  BY WakeTypes DEF RestInv
<1>1. /\ Runs(w, f) /\ code[f].at = "withdraw" /\ Goto(f, code[f].next) /\ buffered' = buffered
  BY DEF Withdraw, At, Keeps
<1>2. code[f].next \in Reasons
  BY <1>0 DEF Codes
<1>3. \A p \in Reasons : p \in Spots /\ p \notin {"link", "register", "retake"}
  BY DEF Reasons, Spots, None
<1>4. code'[f].at = code[f].next /\ code'[f].op \in {NoOp, code[f].op}
  BY <1>0, <1>1, <1>2, <1>3, GotoEffect, GotoOp
<1>5. CASE Armed(f) /\ word' = Claimed({f}, "withdrawn") /\ worker' = worker
           /\ ctrl' = [ctrl EXCEPT ![f].phase = "running"]
  <2>1. ctrl'[f].phase = "running" /\ ctrl'[f].enter = ctrl[f].enter
    BY <1>0, <1>5, PhaseOnly
  <2>2. f \in Rooted' /\ Running(f)' /\ Running(f) /\ SpotSound(f)
    BY <1>1, <1>5, RunnerFacts DEF Rooted, RestInv, SpotsSound
  <2>3. word'[f].cause = "withdrawn"
    BY <1>0, <1>5 DEF Claimed, WaitWords
  <2>4. NoOp.kind = "none"
    BY DEF NoOp
  <2>5. QED
    BY <1>2, <1>3, <1>4, <2>1, <2>2, <2>3, <2>4 DEF SpotSound, Terminal, Armed
<1>6. CASE ~Armed(f) /\ Suspend(w) /\ UNCHANGED <<word, ctrl>>
  <2>1. "withdraw" \in WaitSpots
    BY DEF WaitSpots
  <2>2. QED
    BY <1>1, <1>2, <1>3, <1>4, <1>6, <2>1, SpotGoes
<1>7. QED
  BY <1>5, <1>6 DEF Withdraw

LEMMA SpotAfter ==
    ASSUME RestInv, NEW w \in Workers, NEW f \in Fibers, roots' = roots,
           Woke(w, f) \/ TimerFailed(w, f) \/ PassOn(w, f) \/ Keep(w, f) \/ Refund(w, f)
    PROVE  SpotSound(f)'
<1> DEFINE Onward == {"passOn", "last", "take", "poll", "body", "throw", "refund"}
<1> USE DEF Keeps, At, Fail
<1>0. code \in [Fibers -> Codes]
  BY WakeTypes DEF RestInv
<1>1. \A p \in Onward \cup {"done"} : p \in Spots /\ p \notin {"link", "register", "retake"}
  BY DEF Spots, Reasons
<1>2. \A p \in {"parked", "failed", "passOn", "taken", "refund"} : p \notin WaitSpots
  BY DEF WaitSpots
<1>3. /\ Runs(w, f) /\ code[f].at \in {"parked", "failed", "passOn", "taken", "refund"}
      /\ UNCHANGED <<ctrl, word, buffered>>
  BY DEF Woke, TimerFailed, PassOn, Keep, GivesBack, Refund
<1>4. (worker' = worker /\ \E p \in Onward : Goto(f, p)) \/ (Suspend(w) /\ Goto(f, "done"))
  <2>1. CASE Woke(w, f)
    BY <2>1 DEF Woke
  <2>2. CASE TimerFailed(w, f)
    BY <2>2 DEF TimerFailed
  <2>3. CASE PassOn(w, f)
    BY <2>3 DEF PassOn
  <2>4. CASE Keep(w, f)
    BY <2>4 DEF Keep, GivesBack
  <2>5. CASE Refund(w, f)
    BY <2>5 DEF Refund
  <2>6. QED
    BY <2>1, <2>2, <2>3, <2>4, <2>5
<1>5. ~Armed(f)
  BY <1>2, <1>3, BodyBefore DEF RestInv
<1>6. CASE worker' = worker /\ \E p \in Onward : Goto(f, p)
  <2>1. PICK p \in Onward : Goto(f, p)
    BY <1>6
  <2>2. code'[f].at = p /\ code'[f].op \in {NoOp, code[f].op}
    BY <1>0, <1>1, <2>1, GotoEffect, GotoOp
  <2>3. ~Suspend(w)
    BY <1>3, <1>6, WakeTypes DEF Suspend, RestInv, Runs
  <2>4. QED
    BY <1>1, <1>3, <1>5, <1>6, <2>2, <2>3, SpotGoes
<1>7. CASE Suspend(w) /\ Goto(f, "done")
  <2>1. code'[f].at = "done" /\ code'[f].op = NoOp
    BY <1>0, <1>1, <1>7, GotoEffect, GotoOp
  <2>2. QED
    BY <1>1, <1>3, <1>5, <1>7, <2>1, SpotGoes
<1>8. QED
  BY <1>4, <1>6, <1>7

LEMMA SpotsBody ==
    ASSUME RestInv, NEW w \in Workers, NEW f \in Fibers, FiberStep(w, f), roots' = roots
    PROVE  SpotsSound'
<1>1. SpotSound(f)'
  BY SpotBody, SpotArm, SpotArmable, SpotWaiting, SpotWithdraw, SpotAfter DEF FiberStep
<1>2. QED
  BY <1>1, SpotOthers DEF SpotsSound

-----------------------------------------------------------------------------
(* Heaps, lists and the queue, in a body's step.                           *)

LEMMA WithoutKeeps ==
    ASSUME unit.queue \in Seq(Fibers), NEW f \in Fibers,
           \A i, j \in DOMAIN unit.queue : unit.queue[i] = unit.queue[j] => i = j
    PROVE  \A j \in DOMAIN unit.queue : unit.queue[j] # f =>
               \E i \in DOMAIN Without(f) : Without(f)[i] = unit.queue[j]
<1>1. PICK q \in Seq(Fibers) : q = unit.queue
  OBVIOUS
<1>2. PICK r : r = Without(f)
  OBVIOUS
<1>3. \A i, j \in DOMAIN q : q[i] = q[j] => i = j
  BY <1>1
<1>4. CASE \E i \in DOMAIN q : q[i] = f
  <2>1. f \in Range(unit.queue)
    BY <1>1, <1>4 DEF Range
  <2>2. PICK k \in DOMAIN q : k = Position(f) /\ q[k] = f
    BY <1>1, <1>4 DEF Position
  <2>3. r = RemoveAt(q, k)
    BY <1>1, <1>2, <2>1, <2>2 DEF Without
  <2>4. \A j \in DOMAIN q : j # k => \E i \in DOMAIN r : r[i] = q[j]
    BY <1>3, <2>3, OneRemoved
  <2>5. QED
    BY <1>1, <1>2, <2>2, <2>4
<1>5. CASE ~ \E i \in DOMAIN q : q[i] = f
  <2>1. f \notin Range(unit.queue)
    BY <1>1, <1>5 DEF Range
  <2>2. r = q
    BY <1>1, <1>2, <2>1 DEF Without
  <2>3. QED
    BY <1>1, <1>2, <2>2
<1>6. QED
  BY <1>4, <1>5

(* What the queue becomes when a body does not leave it.                   *)
QueueGrows(f) ==
    unit'.queue = unit.queue \/ unit'.queue = Append(unit.queue, f) \/ unit'.queue = Without(f)

LEMMA BodyQueue ==
    ASSUME RestInv, NEW w \in Workers, NEW f \in Fibers, FiberStep(w, f)
    PROVE  /\ QueueGrows(f)
           /\ code[f].at # "link" => unit'.queue = unit.queue \/ unit'.queue = Without(f)
<1> USE DEF Keeps
<1>0. PICK Q : unit \in Owners(Q)
  BY WakeTypes DEF RestInv
<1>1. \/ unit' = unit
      \/ \E n, m : unit' = [unit EXCEPT !.units = n, !.granted = m]
      \/ \E n : unit' = [unit EXCEPT !.units = n] \/ unit' = [unit EXCEPT !.spent = n]
      \/ code[f].at = "link" /\ unit' = [unit EXCEPT !.queue = Append(unit.queue, f)]
      \/ unit' = [unit EXCEPT !.queue = Without(f)]
      \/ \E m : unit' = [unit EXCEPT !.queue = Without(f), !.granted = m]
  <2>1. CASE Body(w, f) \/ Throw(w, f) \/ YieldReady(w, f) \/ Poll(w, f) \/ Arm(w, f)
             \/ Armable(w, f) \/ Register(w, f) \/ ArmTimer(w, f) \/ PassOn(w, f)
    BY <2>1 DEF Body, Throw, YieldReady, Poll, Arm, Armable, Register, ArmTimer, PassOn, OnlyCode
  <2>2. CASE TryTake(w, f)
    BY <2>2 DEF TryTake, Take1
  <2>3. CASE Retake(w, f)
    BY <2>3 DEF Retake
  <2>4. CASE Withdraw(w, f)
    BY <2>4 DEF Withdraw
  <2>5. CASE Refund(w, f)
    BY <2>5 DEF Refund
  <2>6. CASE Link(w, f)
    BY <2>6 DEF Link, At
  <2>7. CASE Woke(w, f) \/ TimerFailed(w, f)
    BY <2>7 DEF Woke, TimerFailed, Unlink
  <2>8. CASE Keep(w, f)
    BY <2>8 DEF Keep, GivesBack
  <2>9. QED
    BY <2>1, <2>2, <2>3, <2>4, <2>5, <2>6, <2>7, <2>8 DEF FiberStep
<1>2. QED
  <2>1. ASSUME NEW n, NEW m, unit' = [unit EXCEPT !.units = n, !.granted = m]
        PROVE  unit'.queue = unit.queue
    BY <1>0, <2>1, QueueFields
  <2>2. ASSUME NEW n, unit' = [unit EXCEPT !.units = n]
        PROVE  unit'.queue = unit.queue
    BY <1>0, <2>2, QueueFields
  <2>6. ASSUME NEW n, unit' = [unit EXCEPT !.spent = n]
        PROVE  unit'.queue = unit.queue
    BY <1>0, <2>6, QueueFields
  <2>3. ASSUME NEW q, unit' = [unit EXCEPT !.queue = q]
        PROVE  unit'.queue = q
    BY <1>0, <2>3, QueueFields
  <2>4. ASSUME NEW q, NEW m, unit' = [unit EXCEPT !.queue = q, !.granted = m]
        PROVE  unit'.queue = q
    BY <1>0, <2>4, QueueFields
  <2>5. QED
    BY <1>1, <2>1, <2>2, <2>3, <2>4, <2>6 DEF QueueGrows

LEMMA LinkedStays ==
    ASSUME RestInv, NEW f \in Fibers, QueueGrows(f), NEW g \in Fibers, g # f, Linked(g)
    PROVE  Linked(g)'
<1>1. PICK q \in Seq(Fibers) : q = unit.queue
  BY WakeTypes DEF RestInv
<1>2. PICK r : r = unit'.queue
  OBVIOUS
<1>3. PICK i \in DOMAIN q : q[i] = g
  BY <1>1 DEF Linked
<1>4. \E j \in DOMAIN r : r[j] = g
  <2>1. CASE r = q
    BY <1>3, <2>1
  <2>2. CASE r = Append(q, f)
    BY <1>3, <2>2
  <2>3. CASE r = Without(f)
    <3>1. QueueSound
      BY DEF RestInv, WakeInv
    <3>2. QED
      BY <1>1, <1>3, <2>3, <3>1, WithoutKeeps DEF QueueSound
  <2>4. QED
    BY <1>1, <1>2, <2>1, <2>2, <2>3 DEF QueueGrows
<1>5. QED
  BY <1>2, <1>4 DEF Linked

LEMMA BodyHeap ==
    ASSUME RestInv, NEW w \in Workers, NEW f \in Fibers, FiberStep(w, f)
    PROVE  /\ heap' \in [Fibers -> Nat] /\ \A g \in Fibers : g # f => heap'[g] = heap[g]
           /\ accepted' = accepted
<1> USE DEF Keeps
<1>1. heap \in [Fibers -> Nat] /\ word \in [Fibers -> WaitWords]
  BY WakeTypes DEF RestInv, HeapTyped
<1>2. CASE Body(w, f) \/ Throw(w, f) \/ YieldReady(w, f) \/ TryTake(w, f) \/ Poll(w, f)
  BY <1>1, <1>2 DEF Body, Throw, YieldReady, TryTake, Take1, Poll, OnlyCode
<1>3. CASE Arm(w, f) \/ Armable(w, f) \/ Link(w, f) \/ Retake(w, f) \/ Register(w, f)
  BY <1>1, <1>3 DEF Arm, Armable, Link, Retake, Register, OnlyCode
<1>4. CASE TimerFailed(w, f) \/ Withdraw(w, f) \/ PassOn(w, f) \/ Keep(w, f) \/ Refund(w, f)
  BY <1>1, <1>4 DEF TimerFailed, Withdraw, PassOn, Keep, GivesBack, Refund
<1>5. CASE ArmTimer(w, f)
  <2>1. word[f].n \in Nat
    BY <1>1 DEF WaitWords
  <2>2. QED
    BY <1>1, <1>5, <2>1 DEF ArmTimer
<1>6. CASE Woke(w, f)
  BY <1>1, <1>6 DEF Woke, Disarm
<1>7. QED
  BY <1>2, <1>3, <1>4, <1>5, <1>6 DEF FiberStep

LEMMA BodyJoiners ==
    ASSUME RestInv, NEW w \in Workers, NEW f \in Fibers, FiberStep(w, f)
    PROVE  /\ \A g, t \in Fibers : g # f /\ g \in joiners[t] => g \in joiners'[t]
           /\ \A t \in Fibers : Ended(t) /\ joiners'[t] # {} => joiners[t] # {}
<1> USE DEF Keeps
<1>1. joiners \in [Fibers -> SUBSET Fibers]
  BY WakeTypes DEF RestInv
<1>2. CASE Register(w, f)
  <2>1. joiners' = joiners \/ \E t : ~Ended(t) /\ joiners' = [joiners EXCEPT ![t] = @ \cup {f}]
    BY <1>2 DEF Register
  <2>2. QED
    BY <1>1, <2>1
<1>3. CASE Woke(w, f) \/ TimerFailed(w, f)
  BY <1>1, <1>3 DEF Woke, TimerFailed, Unlink
<1>4. CASE Body(w, f) \/ Throw(w, f) \/ YieldReady(w, f) \/ TryTake(w, f) \/ Poll(w, f)
  BY <1>1, <1>4 DEF Body, Throw, YieldReady, TryTake, Take1, Poll, OnlyCode
<1>5. CASE Arm(w, f) \/ Armable(w, f) \/ Link(w, f) \/ Retake(w, f)
  BY <1>1, <1>5 DEF Arm, Armable, Link, Retake, OnlyCode
<1>6. CASE ArmTimer(w, f) \/ Withdraw(w, f) \/ PassOn(w, f) \/ Keep(w, f) \/ Refund(w, f)
  BY <1>1, <1>6 DEF ArmTimer, Withdraw, PassOn, Keep, GivesBack, Refund
<1>7. QED
  BY <1>2, <1>3, <1>4, <1>5, <1>6 DEF FiberStep

-----------------------------------------------------------------------------
(* Who has heard of a wait, after a step of its body.                      *)

Heard(f) == CancelHeard(f) /\ TimerHeard(f) /\ JoinHeard(f) /\ UnitHeard(f)

LEMMA BodyArms ==
    ASSUME RestInv, NEW w \in Workers, NEW f \in Fibers, FiberStep(w, f)
    PROVE  /\ \A g \in Fibers : Armed(g)' => Armed(g) /\ word'[g] = word[g]
           /\ \A g \in Fibers : Cancelled(g)' <=> Cancelled(g)
           /\ \A g \in Fibers : Ended(g)' <=> Ended(g)
           /\ \A g \in Fibers : ctrl'[g].phase \in Terminal <=> ctrl[g].phase \in Terminal
           /\ ~Armed(f) => ~Armed(f)'
<1> USE DEF Keeps
<1>0. BodyWakes(w, f) /\ Runs(w, f)
  BY BodyWakesAll DEF RestInv
<1>1. /\ ctrl \in [Fibers -> Words] /\ word \in [Fibers -> WaitWords]
      /\ word' \in [Fibers -> WaitWords]
  BY <1>0, WakeTypes DEF RestInv, BodyWakes
<1>2. word' = word \/ word' = Claimed({f}, "withdrawn")
  <2>1. CASE Withdraw(w, f)
    BY <2>1 DEF Withdraw
  <2>2. CASE Body(w, f) \/ Throw(w, f) \/ YieldReady(w, f) \/ TryTake(w, f) \/ Poll(w, f)
    BY <2>2 DEF Body, Throw, YieldReady, TryTake, Take1, Poll, OnlyCode
  <2>3. CASE Arm(w, f) \/ Armable(w, f) \/ Link(w, f) \/ Retake(w, f) \/ Register(w, f)
    BY <2>3 DEF Arm, Armable, Link, Retake, Register, OnlyCode
  <2>4. CASE TimerFailed(w, f) \/ PassOn(w, f) \/ Keep(w, f) \/ Refund(w, f) \/ ArmTimer(w, f)
             \/ Woke(w, f)
    BY <2>4 DEF TimerFailed, PassOn, Keep, GivesBack, Refund, ArmTimer, Woke
  <2>5. QED
    BY <2>1, <2>2, <2>3, <2>4 DEF FiberStep
<1>3. \A g \in Fibers : Armed(g)' => Armed(g) /\ word'[g] = word[g]
  <2>1. CASE word' = word
    BY <2>1 DEF Armed
  <2>2. CASE word' = Claimed({f}, "withdrawn")
    <3>1. word'[f].cause = "withdrawn"
      BY <1>1, <2>2 DEF Claimed, WaitWords
    <3>2. \A g \in Fibers : g # f => word'[g] = word[g]
      BY <1>0 DEF BodyWakes
    <3>3. QED
      BY <3>1, <3>2 DEF Armed
  <2>3. QED
    BY <1>2, <2>1, <2>2
<1>4. /\ ctrl'[f].cancel = ctrl[f].cancel
      /\ ctrl'[f].phase \in {"ready", "running", "waiting"} \/ ctrl'[f].phase = ctrl[f].phase
  <2>1. Phased(f)
    BY BodyEffect
  <2>2. ASSUME NEW ph \in {"ready", "running", "waiting"}, ctrl' = [ctrl EXCEPT ![f].phase = ph]
        PROVE  ctrl'[f].cancel = ctrl[f].cancel /\ ctrl'[f].phase = ph
    BY <1>1, <2>2, PhaseOnly
  <2>3. QED
    BY <2>1, <2>2 DEF Phased
<1>5. accepted' = accepted /\ \A g \in Fibers : g # f => ctrl'[g] = ctrl[g]
  BY <1>0, BodyHeap DEF BodyWakes
<1>6. \A g \in Fibers : Cancelled(g)' <=> Cancelled(g)
  BY <1>4, <1>5 DEF Cancelled
<1>7. ctrl[f].phase \in {"waiting", "running"}
  BY <1>0, BodyEffect, RunnerFacts
<1>8. /\ \A g \in Fibers : Ended(g)' <=> Ended(g)
      /\ \A g \in Fibers : ctrl'[g].phase \in Terminal <=> ctrl[g].phase \in Terminal
  <2>1. /\ ctrl[f].phase # "terminated" /\ ctrl'[f].phase # "terminated"
        /\ ctrl[f].phase \notin Terminal /\ ctrl'[f].phase \notin Terminal
    BY <1>4, <1>7 DEF Terminal
  <2>2. ASSUME NEW g \in Fibers
        PROVE  /\ Ended(g)' <=> Ended(g)
               /\ ctrl'[g].phase \in Terminal <=> ctrl[g].phase \in Terminal
    <3>1. CASE g = f
      BY <2>1, <3>1 DEF Ended
    <3>2. CASE g # f
      BY <1>5, <3>2 DEF Ended
    <3>3. QED
      BY <3>1, <3>2
  <2>3. QED
    BY <2>2
<1>9. QED
  BY <1>3, <1>6, <1>8

LEMMA HeardOthers ==
    ASSUME RestInv, NEW w \in Workers, NEW f \in Fibers, FiberStep(w, f),
           UNCHANGED <<pump, cancel>>, NEW g \in Fibers, g # f
    PROVE  Heard(g)'
<1>1. code'[g] = code[g] /\ heap'[g] = heap[g] /\ Heard(g) /\ SpotSound(g)
  BY BodyWakesAll, BodyHeap DEF BodyWakes, RestInv, AllHeard, Heard, SpotsSound
<1>2. (Armed(g)' => Armed(g) /\ word'[g] = word[g]) /\ (Cancelled(g)' <=> Cancelled(g))
  BY BodyArms
<1>3. CancelHeard(g)'
  BY <1>1, <1>2, CancelKept DEF Heard
<1>4. TimerHeard(g)'
  BY <1>1, <1>2, TimerKept DEF Heard
<1>5. JoinHeard(g)'
  BY <1>1, <1>2, BodyJoiners, JoinKept DEF Heard
<1>6. UnitHeard(g)'
  BY <1>1, <1>2, BodyQueue, LinkedStays, UnitKept DEF Heard
<1>7. QED
  BY <1>3, <1>4, <1>5, <1>6 DEF Heard

(* A wait goes on to its next place.                                       *)
LEMMA HeardGoesOn ==
    ASSUME RestInv, NEW f \in Fibers, word' = word, UNCHANGED <<pump, cancel>>,
           Cancelled(f)' <=> Cancelled(f), code'[f].op = code[f].op,
           Armed(f) => code[f].at \in Looked \/ ~Cancelled(f),
           Armed(f) /\ code'[f].at = "parked" /\ code[f].op.timed => heap'[f] = word[f].n,
           Armed(f) /\ code'[f].at \in {"timer", "parked"} /\ code[f].op.kind = "join" =>
               f \in joiners'[code[f].op.target],
           Armed(f) /\ code'[f].at \in {"retake", "timer", "parked"} /\ code[f].op.kind = "unit" =>
               Linked(f)'
    PROVE  Heard(f)'
<1>1. Heard(f)
  BY DEF RestInv, AllHeard, Heard
<1>2. CancelHeard(f)'
  BY <1>1 DEF Heard, CancelHeard, Armed
<1>3. TimerHeard(f)'
  BY DEF TimerHeard, Armed
<1>4. JoinHeard(f)'
  BY DEF JoinHeard, Armed
<1>5. UnitHeard(f)'
  BY DEF UnitHeard, Armed
<1>6. QED
  BY <1>2, <1>3, <1>4, <1>5 DEF Heard

LEMMA HeardIdle == ASSUME NEW f \in Fibers, ~Armed(f)' PROVE Heard(f)'
  BY DEF Heard, CancelHeard, TimerHeard, JoinHeard, UnitHeard

LEMMA HeardOwn ==
    ASSUME RestInv, NEW w \in Workers, NEW f \in Fibers, FiberStep(w, f),
           UNCHANGED <<pump, cancel>>
    PROVE  Heard(f)'
<1> USE DEF Keeps, At
<1>0. code \in [Fibers -> Codes] /\ heap \in [Fibers -> Nat] /\ joiners \in [Fibers -> SUBSET Fibers]
  BY WakeTypes DEF RestInv, HeapTyped
<1>00. PICK Q : unit \in Owners(Q)
  BY WakeTypes DEF RestInv
<1>1. /\ Runs(w, f) /\ (Cancelled(f)' <=> Cancelled(f)) /\ (~Armed(f) => ~Armed(f)')
      /\ Heard(f) /\ SpotSound(f)
  BY BodyWakesAll, BodyArms DEF RestInv, AllHeard, Heard, SpotsSound
<1>2. \A p \in {"link", "register", "retake", "timer", "parked"} :
         /\ p \in Spots /\ p \in Looked /\ p \notin {"body", "throw", "done"}
  BY DEF Spots, Looked
<1>3. "throw" \in Reasons /\ "taken" \in Reasons /\ "poll" \in Reasons /\ "failed" \in Reasons
  BY DEF Reasons
<1>4. ASSUME code[f].at \notin WaitSpots
      PROVE  Heard(f)'
  BY <1>1, <1>4, BodyBefore, HeardIdle DEF RestInv
<1>5. CASE Armable(w, f)
  <2>1. word' = word
    BY <1>5 DEF Armable, OnlyCode
  <2>2. CASE Cancelled(f)
    <3>1. code'[f].at = "withdraw" /\ "withdraw" \notin Looked
      BY <1>0, <1>3, <1>5, <2>2, BackoutEffect DEF Armable, Looked
    <3>2. QED
      BY <3>1 DEF Heard, CancelHeard, TimerHeard, JoinHeard, UnitHeard
  <2>3. CASE ~Cancelled(f)
    <3>1. PICK p \in {"link", "register"} : Goto(f, p)
      BY <1>5, <2>3 DEF Armable
    <3>2. code'[f].at = p /\ code'[f].op = code[f].op
      BY <1>0, <1>2, <3>1, GotoEffect, GotoOp
    <3>3. QED
      BY <1>1, <2>1, <2>3, <3>2, HeardGoesOn
  <2>4. QED
    BY <2>2, <2>3
<1>6. CASE Link(w, f)
  <2>1. word' = word /\ code[f].at = "link" /\ Goto(f, "retake")
    BY <1>6 DEF Link
  <2>2. code'[f].at = "retake" /\ code'[f].op = code[f].op
    BY <1>0, <1>2, <2>1, GotoEffect, GotoOp
  <2>3. Linked(f)'
    <3>1. PICK q \in Seq(Fibers) : q = unit.queue
      BY WakeTypes DEF RestInv
    <3>2. PICK r : r = Append(q, f)
      OBVIOUS
    <3>3. unit'.queue = r
      BY <1>6, <1>00, <3>1, <3>2, QueueFields DEF Link
    <3>4. Len(q) + 1 \in DOMAIN r /\ r[Len(q) + 1] = f
      BY <3>1, <3>2
    <3>5. \E i \in DOMAIN r : r[i] = f
      BY <3>4
    <3>6. QED
      BY <3>3, <3>5 DEF Linked
  <2>4. QED
    BY <1>1, <1>2, <2>1, <2>2, <2>3, HeardGoesOn
<1>7. CASE Retake(w, f)
  <2>1. word' = word /\ code[f].at = "retake"
    BY <1>7 DEF Retake
  <2>2. CASE Backout(f, "taken")
    <3>1. code'[f].at = "withdraw" /\ "withdraw" \notin Looked
      BY <1>0, <1>3, <2>2, BackoutEffect DEF Looked
    <3>2. QED
      BY <3>1 DEF Heard, CancelHeard, TimerHeard, JoinHeard, UnitHeard
  <2>3. CASE GoOn(w, f) /\ unit' = unit
    <3>1. PICK p \in {"timer", "parked"} : Goto(f, p) /\ (p = "parked" => ~code[f].op.timed)
      BY <2>3 DEF GoOn
    <3>2. code'[f].at = p /\ code'[f].op = code[f].op
      BY <1>0, <1>2, <3>1, GotoEffect, GotoOp
    <3>3. code[f].op.kind = "unit"
      BY <1>1, <2>1 DEF SpotSound
    <3>4. Armed(f) => Linked(f)'
      BY <1>1, <2>1, <2>3, <3>3 DEF Heard, UnitHeard, Linked
    <3>5. QED
      BY <1>1, <1>2, <2>1, <3>1, <3>2, <3>3, <3>4, HeardGoesOn
  <2>4. QED
    BY <1>7, <2>2, <2>3 DEF Retake
<1>8. CASE Register(w, f)
  <2>1. word' = word /\ code[f].at = "register"
    BY <1>8 DEF Register
  <2>2. CASE Backout(f, "poll")
    <3>1. code'[f].at = "withdraw" /\ "withdraw" \notin Looked
      BY <1>0, <1>3, <2>2, BackoutEffect DEF Looked
    <3>2. QED
      BY <3>1 DEF Heard, CancelHeard, TimerHeard, JoinHeard, UnitHeard
  <2>3. CASE GoOn(w, f) /\ joiners' = [joiners EXCEPT ![code[f].op.target] = @ \cup {f}]
    <3>1. PICK p \in {"timer", "parked"} : Goto(f, p) /\ (p = "parked" => ~code[f].op.timed)
      BY <2>3 DEF GoOn
    <3>2. code'[f].at = p /\ code'[f].op = code[f].op
      BY <1>0, <1>2, <3>1, GotoEffect, GotoOp
    <3>3. code[f].op.kind # "unit"
      BY <1>1, <2>1 DEF SpotSound
    <3>4. code[f].op.kind = "join" => f \in joiners'[code[f].op.target]
      <4>1. code[f].op.kind = "join" => code[f].op.target \in Fibers
        BY <1>1 DEF SpotSound
      <4>2. QED
        BY <1>0, <2>3, <4>1
    <3>5. QED
      BY <1>1, <1>2, <2>1, <3>1, <3>2, <3>3, <3>4, HeardGoesOn
  <2>4. QED
    BY <1>8, <2>2, <2>3 DEF Register
<1>9. CASE ArmTimer(w, f)
  <2>1. word' = word /\ code[f].at = "timer"
    BY <1>9 DEF ArmTimer
  <2>2. CASE Backout(f, "failed")
    <3>1. code'[f].at = "withdraw" /\ "withdraw" \notin Looked
      BY <1>0, <1>3, <2>2, BackoutEffect DEF Looked
    <3>2. QED
      BY <3>1 DEF Heard, CancelHeard, TimerHeard, JoinHeard, UnitHeard
  <2>3. CASE /\ heap' = [heap EXCEPT ![f] = word[f].n] /\ Goto(f, "parked")
    <3>1. code'[f].at = "parked" /\ code'[f].op = code[f].op
      BY <1>0, <1>2, <2>3, GotoEffect, GotoOp
    <3>2. heap'[f] = word[f].n /\ joiners' = joiners /\ unit' = unit
      BY <1>0, <1>9, <2>3 DEF ArmTimer
    <3>3. Armed(f) /\ code[f].op.kind = "unit" => Linked(f)'
      BY <1>1, <2>1, <3>2 DEF Heard, UnitHeard, Linked
    <3>4. Armed(f) /\ code[f].op.kind = "join" => f \in joiners'[code[f].op.target]
      BY <1>1, <2>1, <3>2 DEF Heard, JoinHeard
    <3>5. QED
      BY <1>1, <1>2, <2>1, <3>1, <3>2, <3>3, <3>4, HeardGoesOn
  <2>4. QED
    BY <1>9, <2>2, <2>3 DEF ArmTimer
<1>10. CASE Withdraw(w, f)
  <2>1. ~Armed(f)'
    <3>1. CASE Armed(f)
      <4>1. word \in [Fibers -> WaitWords] /\ word' = Claimed({f}, "withdrawn")
        BY <1>10, <3>1, WakeTypes DEF Withdraw, RestInv
      <4>2. word'[f].cause = "withdrawn"
        BY <4>1 DEF Claimed, WaitWords
      <4>3. QED
        BY <4>2 DEF Armed
    <3>2. QED
      BY <1>1, <3>1
  <2>2. QED
    BY <2>1, HeardIdle
<1>11. CASE \/ Body(w, f) \/ Throw(w, f) \/ YieldReady(w, f) \/ TryTake(w, f) \/ Poll(w, f)
            \/ Arm(w, f) \/ Woke(w, f) \/ TimerFailed(w, f) \/ PassOn(w, f) \/ Keep(w, f)
            \/ Refund(w, f)
  <2>1. code[f].at \in {"body", "throw", "yield", "take", "last", "poll", "check", "parked",
                        "failed", "passOn", "taken", "refund"}
    BY <1>11 DEF Body, Throw, YieldReady, TryTake, Take1, Poll, Arm, Woke, TimerFailed, PassOn,
                 Keep, GivesBack, Refund
  <2>2. QED
    BY <1>4, <2>1 DEF WaitSpots
<1>12. QED
  BY <1>5, <1>6, <1>7, <1>8, <1>9, <1>10, <1>11 DEF FiberStep

LEMMA RestBody ==
    ASSUME RestInv, NEW w \in Workers, NEW f \in Fibers, FiberStep(w, f),
           UNCHANGED domainVars, WakeInv'
    PROVE  RestInv'
<1>0. UNCHANGED <<roots, accepting, pump, cancel>>
  BY DEF domainVars
<1>1. SpotsSound'
  BY <1>0, SpotsBody
<1>2. HeapTyped'
  BY BodyHeap, BodyArms DEF RestInv, HeapTyped
<1>3. AllHeard'
  BY <1>0, HeardOthers, HeardOwn DEF AllHeard, Heard
<1>4. EndsHeard'
  <2>1. \A t \in Fibers : Ended(t)' /\ joiners'[t] # {} => Ended(t) /\ joiners[t] # {}
    BY BodyArms, BodyJoiners
  <2>2. Runs(w, f) /\ (worker' = worker \/ worker' = [worker EXCEPT ![w].at = "suspend"])
    BY BodyEffect
  <2>3. \A v \in Workers : worker[v].at = "joiners" =>
            worker'[v].at = "joiners" /\ worker'[v].task = worker[v].task
    BY <2>2, RunnerFacts
  <2>4. QED
    BY <2>1, <2>3, EndsKept DEF RestInv
<1>5. ShutHeard'
  <2>1. Rooted \subseteq Fibers
    BY LenProperties DEF RestInv, WakeInv, PlaceInv, RootsTyped, Rooted
  <2>2. QED
    BY <1>0, <2>1, BodyArms, ShutKept DEF RestInv
<1>6. Meeting'
  <2>1. Held(f)'
    <3>1. worker \in [Workers -> [at : Stages, task : Fibers \cup {None}]]
      BY WakeTypes DEF RestInv
    <3>2. worker'[w].task = f
      BY <3>1, BodyEffect DEF Runs
    <3>3. QED
      BY <3>2 DEF Held
  <2>2. ctrl'[f].park # 1
    BY <2>1 DEF WakeInv, PlaceInv, Apart
  <2>3. \A g \in Fibers : g # f => ctrl'[g] = ctrl[g]
    BY BodyWakesAll DEF BodyWakes, RestInv
  <2>4. QED
    BY <2>2, <2>3 DEF RestInv, Meeting
<1>7. QED
  BY <1>1, <1>2, <1>3, <1>4, <1>5, <1>6 DEF RestInv

-----------------------------------------------------------------------------
(* The steps that are not of a body.                                       *)

LEMMA RootsWithin == ASSUME RestInv PROVE Rooted \subseteq Fibers
  BY LenProperties DEF Rooted, RestInv, WakeInv, PlaceInv, RootsTyped

(* Steps that claim or arm no wait, cancel none and tell nobody.           *)
LEMMA RestAside ==
    ASSUME RestInv, WakeInv', UNCHANGED <<word, buffered, accepted, code, heap, joiners>>,
           unit'.queue = unit.queue, UNCHANGED <<roots, accepting, pump, cancel>>,
           \A g \in Fibers : ctrl'[g].cancel = ctrl[g].cancel,
           \A g \in Fibers : ctrl[g].phase \in Terminal => ctrl'[g].phase \in Terminal,
           SpotsSound', EndsHeard', Meeting'
    PROVE  RestInv'
<1>0. Rooted' = Rooted /\ Rooted \subseteq Fibers
  BY RootsWithin DEF Rooted
<1>1. \A g \in Fibers : Armed(g)' <=> Armed(g)
  BY DEF Armed
<1>2. \A g \in Fibers : Cancelled(g)' <=> Cancelled(g)
  BY DEF Cancelled
<1>4. HeapTyped'
  BY <1>1 DEF RestInv, HeapTyped
<1>5. AllHeard'
  <2>1. ASSUME NEW g \in Fibers PROVE Heard(g)'
    <3>1. Heard(g) /\ SpotSound(g) /\ code'[g] = code[g] /\ heap'[g] = heap[g]
      BY DEF RestInv, AllHeard, Heard, SpotsSound
    <3>2. CancelHeard(g)' /\ TimerHeard(g)'
      BY <1>1, <1>2, <3>1, CancelKept, TimerKept DEF Heard
    <3>3. JoinHeard(g)'
      BY <1>1, <3>1, JoinKept DEF Heard
    <3>4. UnitHeard(g)'
      BY <1>1, <3>1, UnitKept DEF Heard, Linked
    <3>5. QED
      BY <3>2, <3>3, <3>4 DEF Heard
  <2>2. QED
    BY <2>1 DEF AllHeard, Heard
<1>7. ShutHeard'
  BY <1>0, <1>2, ShutKept DEF RestInv
<1>9. QED
  BY <1>4, <1>5, <1>7 DEF RestInv

LEMMA RestPosters ==
    ASSUME RestInv, WakeInv', NEW p \in Posters, Post(p) \/ Reset(p), UNCHANGED domainVars
    PROVE  RestInv'
<1>1. unit'.queue = unit.queue
  <2>1. PICK Q : unit \in Owners(Q)
    BY WakeTypes DEF RestInv
  <2>2. CASE Reset(p)
    BY <2>1, <2>2, QueueFields DEF Reset
  <2>3. CASE Post(p)
    <3>1. PICK n \in 1 .. 2 :
             unit' = [unit EXCEPT !.units = UnitsAfterPost(n), !.given = @ + n, !.posts = @ + 1]
      BY <2>3 DEF Post
    <3>2. QED
      BY <2>1, <3>1, QueueFields
  <2>4. QED
    BY <2>2, <2>3
<1>2. UNCHANGED <<ctrl, word, buffered, accepted, code, worker, heap, joiners>>
  BY DEF Post, Reset, taskVars
<1>3. UNCHANGED <<roots, accepting, pump, cancel>>
  BY DEF domainVars
<1>4. SpotsSound' /\ EndsHeard' /\ Meeting'
  BY <1>2, <1>3 DEF RestInv, SpotsSound, SpotSound, EndsHeard, Meeting, Stored, Armed, Running,
                    Rooted, Ended
<1>5. QED
  BY <1>1, <1>2, <1>3, <1>4, RestAside

LEMMA RestUnchanged == ASSUME RestInv, WakeInv', UNCHANGED vars PROVE RestInv'
<1>1. /\ UNCHANGED <<ctrl, word, buffered, accepted, code, worker, heap, joiners>>
      /\ UNCHANGED <<roots, accepting, pump, cancel>> /\ unit'.queue = unit.queue
  BY DEF vars, taskVars, domainVars
<1>2. SpotsSound' /\ EndsHeard' /\ Meeting'
  BY <1>1 DEF RestInv, SpotsSound, SpotSound, EndsHeard, Meeting, Stored, Armed, Running,
              Rooted, Ended
<1>3. QED
  BY <1>1, <1>2, RestAside

(* A step about the control word of one fiber and the worker of that fiber.*)
LEMMA SpotsAside ==
    ASSUME RestInv, UNCHANGED <<word, buffered, code, roots>>, NEW f \in Fibers, SpotSound(f)',
           \A g \in Fibers : g # f => ctrl'[g] = ctrl[g],
           \A g \in Fibers : g # f => (Running(g)' <=> Running(g))
    PROVE  SpotsSound'
<1>1. Rooted' = Rooted
  BY DEF Rooted
<1>2. ASSUME NEW g \in Fibers, g # f PROVE SpotSound(g)'
  <2>1. SpotSound(g) /\ ctrl'[g] = ctrl[g] /\ (Running(g)' <=> Running(g))
    BY <1>2 DEF RestInv, SpotsSound
  <2>2. QED
    BY <1>1, <2>1, SpotKept DEF Stored, SpotSound, Armed
<1>3. QED
  BY <1>2 DEF SpotsSound

LEMMA EndsAside ==
    ASSUME RestInv, joiners' = joiners, NEW f \in Fibers,
           \A g \in Fibers : g # f => ctrl'[g] = ctrl[g],
           \A w \in Workers : worker[w].at = "joiners" => worker'[w] = worker[w],
           Ended(f)' => Ended(f) \/ \E w \in Workers : worker'[w].at = "joiners" /\ worker'[w].task = f
    PROVE  EndsHeard'
<1>1. ASSUME NEW t \in Fibers, Ended(t)', joiners'[t] # {}
      PROVE  \E w \in Workers : worker'[w].at = "joiners" /\ worker'[w].task = t
  <2>1. CASE Ended(t)
    <3>1. PICK w \in Workers : worker[w].at = "joiners" /\ worker[w].task = t
      BY <1>1, <2>1 DEF RestInv, EndsHeard
    <3>2. QED
      BY <3>1
  <2>2. CASE ~Ended(t)
    <3>1. t = f
      BY <1>1, <2>2 DEF Ended
    <3>2. QED
      BY <1>1, <2>2, <3>1
  <2>3. QED
    BY <2>1, <2>2
<1>2. QED
  BY <1>1 DEF EndsHeard

(* Updates of a control word by who resumes, publishes or ends its task.   *)
LEMMA WordFields ==
    ASSUME NEW c \in Words, NEW ph, NEW n
    PROVE  /\ [c EXCEPT !.phase = ph].phase = ph
           /\ [c EXCEPT !.phase = ph].cancel = c.cancel /\ [c EXCEPT !.phase = ph].enter = c.enter
           /\ [c EXCEPT !.phase = ph].park = c.park /\ [c EXCEPT !.phase = ph].wake = c.wake
           /\ [c EXCEPT !.park = n].phase = c.phase /\ [c EXCEPT !.park = n].enter = c.enter
           /\ [c EXCEPT !.park = n].cancel = c.cancel
           /\ [c EXCEPT !.park = n].wake = c.wake
           /\ [c EXCEPT !.wake = n].phase = c.phase /\ [c EXCEPT !.wake = n].enter = c.enter
           /\ [c EXCEPT !.wake = n].cancel = c.cancel
           /\ [c EXCEPT !.wake = n].park = c.park
           /\ [c EXCEPT !.cancel = n].phase = c.phase /\ [c EXCEPT !.cancel = n].enter = c.enter
           /\ [c EXCEPT !.cancel = n].cancel = n
           /\ [c EXCEPT !.cancel = n].park = c.park /\ [c EXCEPT !.cancel = n].wake = c.wake
  BY DEF Words

LEMMA WordPairs ==
    ASSUME NEW c \in Words, NEW ph, NEW d
    PROVE  /\ d = [c EXCEPT !.phase = ph, !.enter = 1] =>
                 d.phase = ph /\ d.enter = 1 /\ d.cancel = c.cancel /\ d.park = c.park /\ d.wake = c.wake
           /\ d = [c EXCEPT !.phase = ph, !.park = 0, !.wake = 0] =>
                 d.phase = ph /\ d.enter = c.enter /\ d.cancel = c.cancel /\ d.park = 0
<1>1. ASSUME d = [c EXCEPT !.phase = ph, !.enter = 1]
      PROVE  d.phase = ph /\ d.enter = 1 /\ d.cancel = c.cancel /\ d.park = c.park /\ d.wake = c.wake
  BY <1>1 DEF Words
<1>2. ASSUME d = [c EXCEPT !.phase = ph, !.park = 0, !.wake = 0]
      PROVE  d.phase = ph /\ d.enter = c.enter /\ d.cancel = c.cancel /\ d.park = 0
  BY <1>2 DEF Words
<1>3. QED
  BY <1>1, <1>2

LEMMA PublishWord ==
    ASSUME ctrl \in [Fibers -> Words], NEW f \in Fibers, Publish(f)
    PROVE  /\ ctrl'[f].phase = "ready" /\ ctrl'[f].enter = ctrl[f].enter
           /\ ctrl'[f].cancel = ctrl[f].cancel /\ ctrl'[f].park = 0
           /\ \A g \in Fibers : g # f => ctrl'[g] = ctrl[g]
<1>1. ctrl' = [ctrl EXCEPT ![f].phase = "ready", ![f].park = 0, ![f].wake = 0]
  BY DEF Publish
<1>2. ctrl'[f].phase = "ready"
  BY <1>1 DEF Words
<1>3. ctrl'[f].enter = ctrl[f].enter
  BY <1>1 DEF Words
<1>4. ctrl'[f].cancel = ctrl[f].cancel
  BY <1>1 DEF Words
<1>5. ctrl'[f].park = 0
  BY <1>1 DEF Words
<1>6. \A g \in Fibers : g # f => ctrl'[g] = ctrl[g]
  BY <1>1 DEF Words
<1>7. QED
  BY <1>2, <1>3, <1>4, <1>5, <1>6

LEMMA RestTask ==
    ASSUME RestInv, WakeInv', UNCHANGED <<word, buffered, accepted, code, heap, joiners>>,
           UNCHANGED <<unit, domainVars>>, NEW f \in Fibers,
           \A g \in Fibers : g # f => ctrl'[g] = ctrl[g],
           \A g \in Fibers : g # f => (Running(g)' <=> Running(g)),
           ctrl'[f].cancel = ctrl[f].cancel, SpotSound(f)',
           ctrl'[f].park = 1 => ctrl'[f].wake = 0,
           ctrl[f].phase \in Terminal => ctrl'[f].phase \in Terminal,
           \A w \in Workers : worker[w].at = "joiners" => worker'[w] = worker[w],
           Ended(f)' => Ended(f) \/ \E w \in Workers : worker'[w].at = "joiners" /\ worker'[w].task = f
    PROVE  RestInv'
<1>1. UNCHANGED <<roots, accepting, pump, cancel>> /\ unit'.queue = unit.queue
  BY DEF domainVars
<1>2. SpotsSound'
  BY <1>1, SpotsAside
<1>3. EndsHeard'
  BY EndsAside
<1>4. Meeting'
  BY DEF RestInv, Meeting
<1>5. \A g \in Fibers : ctrl'[g].cancel = ctrl[g].cancel
  OBVIOUS
<1>6. \A g \in Fibers : ctrl[g].phase \in Terminal => ctrl'[g].phase \in Terminal
  OBVIOUS
<1>7. QED
  BY <1>1, <1>2, <1>3, <1>4, <1>5, <1>6, RestAside

LEMMA RestDeliver ==
    ASSUME RestInv, WakeInv', NEW t \in Threads, Deliver(t), UNCHANGED <<unit, domainVars>>
    PROVE  RestInv'
<1>1. PICK o \in Seq(Fibers) : o = waker[t].owed /\ o # <<>>
  BY WakeTypes DEF Deliver, RestInv
<1>2. PICK f \in Fibers : f = Head(o) /\ Owed(t, 1, f)
  <2>1. PICK l \in Nat : l >= 1 /\ DOMAIN o = 1 .. l /\ Head(o) = o[1] /\ o[1] \in Fibers
    BY <1>1, TailOf
  <2>2. 1 \in DOMAIN o
    BY <2>1
  <2>3. QED
    BY <1>1, <2>1, <2>2 DEF Owed
<1>3. /\ UNCHANGED <<word, buffered, accepted, code, worker, heap, joiners>>
      /\ IF Meets(ctrl[f], "park") THEN Publish(f)
         ELSE ctrl' = [ctrl EXCEPT ![f].wake = ctrl[f].wake + 1]
  BY <1>1, <1>2 DEF Deliver
<1>4. Due(f) /\ ctrl[f].wake = 0
  BY <1>2 DEF RestInv, WakeInv, DebtsSound
<1>5. /\ ~Armed(f) /\ Stored(f) /\ ctrl[f].phase = "waiting" /\ ctrl[f].phase \notin Terminal
      /\ word[f].cause \in Causes
  BY <1>4 DEF Due, Stored, Armed, Causes, Terminal
<1>6. /\ ctrl \in [Fibers -> Words] /\ roots' = roots
  BY WakeTypes DEF RestInv, domainVars
<1>7. /\ \A g \in Fibers : g # f => ctrl'[g] = ctrl[g]
      /\ ctrl'[f].cancel = ctrl[f].cancel /\ ctrl'[f].enter = ctrl[f].enter
      /\ ctrl'[f].phase \in {"ready", "waiting"} /\ (ctrl'[f].park = 1 => ctrl'[f].wake = 0)
  <2>1. CASE Meets(ctrl[f], "park")
    <3>1. Publish(f)
      BY <1>3, <2>1
    <3>2. QED
      BY <1>6, <3>1, PublishWord
  <2>2. CASE ~Meets(ctrl[f], "park")
    <3>1. PICK n : n = ctrl[f].wake + 1
      OBVIOUS
    <3>2. PICK c \in Words : c = ctrl[f]
      BY <1>6
    <3>3. PICK d : d = [c EXCEPT !.wake = n]
      OBVIOUS
    <3>4. ctrl' = [ctrl EXCEPT ![f] = d]
      BY <1>3, <2>2, <3>1, <3>2, <3>3
    <3>5. d.phase = c.phase /\ d.enter = c.enter /\ d.cancel = c.cancel /\ d.park = c.park
      BY <3>3, WordFields
    <3>6. c.park = 0
      BY <2>2, <3>2 DEF Meets, Words
    <3>7. ctrl'[f] = d /\ \A g \in Fibers : g # f => ctrl'[g] = ctrl[g]
      BY <1>6, <3>4
    <3>8. QED
      BY <1>5, <3>2, <3>5, <3>6, <3>7
  <2>3. QED
    BY <2>1, <2>2
<1>8. \A g \in Fibers : Running(g)' <=> Running(g)
  BY <1>3 DEF Running
<1>9. SpotSound(f)'
  <2>1. SpotSound(f) /\ Rooted' = Rooted
    BY <1>6 DEF RestInv, SpotsSound, Rooted
  <2>2. ctrl'[f].phase \notin Terminal /\ ctrl'[f].phase # "running"
    BY <1>7 DEF Terminal
  <2>3. ctrl'[f].enter = 0 => ctrl[f].enter = 0 /\ ~Running(f)'
    BY <1>7, <1>8, <2>1 DEF SpotSound
  <2>4. QED
    BY <1>3, <1>5, <1>7, <2>1, <2>2, <2>3, SpotKept DEF Stored, Armed
<1>10. ~Ended(f)'
  BY <1>7 DEF Ended
<1>11. QED
  BY <1>3, <1>5, <1>7, <1>8, <1>9, <1>10, RestTask

LEMMA RestResume ==
    ASSUME RestInv, WakeInv', NEW w \in Workers, Resume(w), UNCHANGED <<unit, domainVars>>
    PROVE  RestInv'
<1>1. PICK f \in Fibers :
         /\ lane[f] > 0
         /\ \/ ctrl[f].phase # "ready" /\ UNCHANGED <<ctrl, worker>>
            \/ \E ph \in {"running", "terminating"}, at \in {"run", "record"} :
                  /\ (ph = "running") <=> (at = "run")
                  /\ ph = "terminating" => ctrl[f].enter = 0
                  /\ ctrl' = [ctrl EXCEPT ![f].phase = ph, ![f].enter = 1]
                  /\ worker' = [worker EXCEPT ![w] = [at |-> at, task |-> f]]
  BY DEF Resume, PreEmpted
<1>2. worker[w].at = "idle" /\ worker[w].task = None /\ f # None
  BY FiberArgs DEF Resume, RestInv, WakeInv, PlaceInv, OneWorker
<1>3. ctrl[f].phase = "ready" /\ ~Held(f) /\ ctrl[f].park = 0
  BY <1>1 DEF RestInv, WakeInv, PlaceInv, WordsTyped, Apart
<1>4. PICK ph \in {"running", "terminating"}, at \in {"run", "record"} :
         /\ (ph = "running") <=> (at = "run")
         /\ ph = "terminating" => ctrl[f].enter = 0
         /\ ctrl' = [ctrl EXCEPT ![f].phase = ph, ![f].enter = 1]
         /\ worker' = [worker EXCEPT ![w] = [at |-> at, task |-> f]]
  BY <1>1, <1>3
<1>5. UNCHANGED <<word, buffered, accepted, code, heap, joiners>> /\ roots' = roots
  BY DEF Resume, domainVars
<1>6. /\ worker'[w].task = f /\ worker'[w].at = at
      /\ \A v \in Workers : v # w => worker'[v] = worker[v] /\ worker[v].task # f
  BY <1>3, <1>4, WakeTypes DEF Held, RestInv
<1>7. ctrl \in [Fibers -> Words]
  BY WakeTypes DEF RestInv
<1>8. \A g \in Fibers : g # f => ctrl'[g] = ctrl[g]
  BY <1>4, <1>7
<1>9. ctrl'[f].phase = ph
  BY <1>4, <1>7 DEF Words
<1>10. ctrl'[f].enter = 1
  BY <1>4, <1>7 DEF Words
<1>11. ctrl'[f].cancel = ctrl[f].cancel
  BY <1>4, <1>7 DEF Words
<1>12. ctrl'[f].park = 0
  BY <1>3, <1>4, <1>7 DEF Words
<1>13. \A g \in Fibers : g # f => (Running(g)' <=> Running(g))
  BY <1>2, <1>6, FiberArgs DEF Running
<1>14. Running(f)' <=> ph = "running"
  BY <1>4, <1>6 DEF Running
<1>15. SpotSound(f)'
  <2>1. SpotSound(f) /\ Rooted' = Rooted /\ ~Armed(f)
    BY <1>3, <1>5 DEF RestInv, SpotsSound, Rooted, WakeInv, BodiesSound, BodySound
  <2>2. ph = "terminating" => code[f].at = "body"
    BY <1>4, <2>1 DEF SpotSound
  <2>3. ctrl'[f].phase \in Terminal => ph = "terminating"
    BY <1>9 DEF Terminal
  <2>4. ~Armed(f)' /\ ctrl'[f].phase # "waiting" /\ ctrl'[f].enter # 0
    BY <1>5, <1>9, <1>10, <2>1 DEF Armed
  <2>5. ctrl'[f].phase = "running" => Running(f)'
    BY <1>9, <1>14
  <2>6. QED
    BY <1>5, <2>1, <2>2, <2>3, <2>4, <2>5 DEF SpotSound
<1>16. ~Ended(f)' /\ ctrl[f].phase \notin Terminal
  BY <1>3, <1>9 DEF Ended, Terminal
<1>17. \A v \in Workers : worker[v].at = "joiners" => worker'[v] = worker[v]
  BY <1>2, <1>6
<1>18. QED
  BY <1>5, <1>8, <1>11, <1>12, <1>13, <1>15, <1>16, <1>17, RestTask

LEMMA RestTerminate ==
    ASSUME RestInv, WakeInv', NEW w \in Workers, Terminate(w), UNCHANGED <<unit, domainVars>>
    PROVE  RestInv'
<1>1. PICK f \in Fibers : f = worker[w].task /\ worker[w].at \in {"record", "terminate"}
  BY DEF Terminate, RestInv, WakeInv, PlaceInv, WordsTyped, OneWorker
<1>2. ctrl[f].phase = "terminating" /\ Held(f)
  BY <1>1 DEF RestInv, WakeInv, WorkersSound, WorkerSound, Held
<1>3. /\ ctrl' = [ctrl EXCEPT ![f].phase = "terminated"]
      /\ worker' = [worker EXCEPT ![w].at = "joiners"]
      /\ UNCHANGED <<word, buffered, accepted, code, heap, joiners>> /\ roots' = roots
  BY <1>1 DEF Terminate, domainVars
<1>4. f # None /\ \A v \in Workers : v # w => worker[v].task # f
  BY <1>1, FiberArgs DEF RestInv, WakeInv, PlaceInv, OneWorker
<1>5. /\ worker'[w].task = f /\ worker'[w].at = "joiners"
      /\ \A v \in Workers : v # w => worker'[v] = worker[v]
  BY <1>1, <1>3, WakeTypes DEF RestInv
<1>6. ctrl \in [Fibers -> Words]
  BY WakeTypes DEF RestInv
<1>7. /\ ctrl'[f].phase = "terminated" /\ ctrl'[f].enter = ctrl[f].enter
      /\ ctrl'[f].cancel = ctrl[f].cancel
      /\ \A g \in Fibers : g # f => ctrl'[g] = ctrl[g]
  BY <1>3, <1>6, PhaseOnly
<1>8. ctrl'[f].park = 0
  <2>1. ctrl[f].park = 0
    BY <1>2, <1>6 DEF RestInv, WakeInv, PlaceInv, Apart, Words
  <2>2. QED
    BY <1>3, <1>6, <2>1 DEF Words
<1>9. /\ \A g \in Fibers : g # f => (Running(g)' <=> Running(g))
      /\ ~Running(f) /\ ~Running(f)'
  BY <1>1, <1>4, <1>5 DEF Running
<1>10. SpotSound(f)'
  <2>1. SpotSound(f) /\ Rooted' = Rooted /\ ~Armed(f)
    BY <1>2, <1>3 DEF RestInv, SpotsSound, Rooted, WakeInv, BodiesSound, BodySound
  <2>2. code[f].at \in {"body", "done"}
    BY <1>2, <2>1 DEF SpotSound, Terminal
  <2>3. QED
    BY <1>3, <1>7, <1>9, <2>1, <2>2 DEF SpotSound, Armed
<1>11. ctrl'[f].phase \in Terminal
  BY <1>7 DEF Terminal
<1>12. \A v \in Workers : worker[v].at = "joiners" => worker'[v] = worker[v]
  BY <1>1, <1>5
<1>13. QED
  BY <1>3, <1>5, <1>7, <1>8, <1>9, <1>10, <1>11, <1>12, RestTask

LEMMA RestSuspended ==
    ASSUME RestInv, WakeInv', NEW w \in Workers, Suspended(w), UNCHANGED <<unit, domainVars>>
    PROVE  RestInv'
<1>1. PICK f \in Fibers : f = worker[w].task /\ worker[w].at = "suspend"
  BY DEF Suspended, RestInv, WakeInv, PlaceInv, WordsTyped, OneWorker
<1>2. UNCHANGED <<word, buffered, accepted, code, heap, joiners>> /\ roots' = roots
  BY DEF Suspended, domainVars
<1>3. f # None /\ Held(f) /\ \A v \in Workers : v # w => worker[v].task # f
  BY <1>1, FiberArgs DEF RestInv, WakeInv, PlaceInv, OneWorker, Held
<1>4. ctrl \in [Fibers -> Words] /\ ~Running(f) /\ ctrl[f].park = 0
  <2>1. ~Running(f)
    BY <1>1, <1>3 DEF Running
  <2>2. ctrl \in [Fibers -> Words]
    BY WakeTypes DEF RestInv
  <2>3. QED
    BY <1>3, <2>1, <2>2 DEF RestInv, WakeInv, PlaceInv, Apart, Words
<1>5. SpotSound(f) /\ Rooted' = Rooted /\ (Armed(f) => ctrl[f].phase = "waiting")
  BY <1>2 DEF RestInv, SpotsSound, Rooted, WakeInv, BodiesSound, BodySound
<1>6. ASSUME \A v \in Workers : v # w => worker'[v] = worker[v], worker'[w].at # "run",
             worker'[w].task \in {f, None}
      PROVE  /\ \A v \in Workers : worker[v].at = "joiners" => worker'[v] = worker[v]
             /\ \A g \in Fibers : g # f => (Running(g)' <=> Running(g))
             /\ ~Running(f)'
  BY <1>1, <1>3, <1>6 DEF Running
<1>7. ASSUME Leave(w)
      PROVE  /\ \A v \in Workers : worker[v].at = "joiners" => worker'[v] = worker[v]
             /\ \A g \in Fibers : g # f => (Running(g)' <=> Running(g))
             /\ ~Running(f)'
  <2>1. worker'[w] = [at |-> "idle", task |-> None] /\ \A v \in Workers : v # w => worker'[v] = worker[v]
    BY <1>7, LeaveEffect DEF RestInv, WakeInv
  <2>2. QED
    BY <1>6, <2>1
<1>8. CASE ctrl[f].phase = "ready" /\ Leave(w) /\ ctrl' = ctrl
  <2>1. SpotSound(f)'
    BY <1>2, <1>4, <1>5, <1>7, <1>8, SpotKept DEF Armed, Stored
  <2>2. QED
    BY <1>2, <1>4, <1>7, <1>8, <2>1, RestTask DEF Ended
<1>9. CASE ctrl[f].phase = "waiting" /\ Leave(w) /\ Meets(ctrl[f], "wake") /\ Publish(f)
  <2>1. /\ ctrl'[f].phase = "ready" /\ ctrl'[f].enter = ctrl[f].enter
        /\ ctrl'[f].cancel = ctrl[f].cancel /\ ctrl'[f].park = 0
        /\ \A g \in Fibers : g # f => ctrl'[g] = ctrl[g]
    BY <1>4, <1>9, PublishWord
  <2>2. SpotSound(f)'
    BY <1>2, <1>5, <1>7, <1>9, <2>1, SpotKept DEF Armed, Stored, Terminal
  <2>3. ctrl[f].phase \notin Terminal /\ ~Ended(f)'
    BY <1>9, <2>1 DEF Terminal, Ended
  <2>4. QED
    BY <1>2, <1>7, <1>9, <2>1, <2>2, <2>3, RestTask
<1>10. CASE /\ ctrl[f].phase = "waiting" /\ Leave(w) /\ ~Meets(ctrl[f], "wake")
            /\ ctrl' = [ctrl EXCEPT ![f].park = @ + 1]
  <2>1. PICK n : n = ctrl[f].park + 1
    OBVIOUS
  <2>2. PICK c \in Words : c = ctrl[f]
    BY <1>4
  <2>3. PICK d : d = [c EXCEPT !.park = n]
    OBVIOUS
  <2>4. ctrl' = [ctrl EXCEPT ![f] = d]
    BY <1>10, <2>1, <2>2, <2>3
  <2>5. d.phase = c.phase /\ d.enter = c.enter /\ d.cancel = c.cancel /\ d.wake = c.wake
    BY <2>3, WordFields
  <2>6. c.wake = 0
    BY <1>10, <2>2 DEF Meets, Words
  <2>7. ctrl'[f] = d /\ \A g \in Fibers : g # f => ctrl'[g] = ctrl[g]
    BY <1>4, <2>4
  <2>8. SpotSound(f)'
    BY <1>2, <1>5, <1>7, <1>10, <2>2, <2>5, <2>7, SpotKept DEF Armed, Stored, Terminal
  <2>9. ctrl[f].phase \notin Terminal /\ ~Ended(f)'
    BY <1>10, <2>2, <2>5, <2>7 DEF Terminal, Ended
  <2>10. QED
    BY <1>2, <1>7, <1>10, <2>2, <2>5, <2>6, <2>7, <2>8, <2>9, RestTask
<1>11. CASE /\ ctrl[f].phase = "running"
            /\ ctrl' = [ctrl EXCEPT ![f].phase = "terminating"]
            /\ \E at \in {"record", "terminate"} : worker' = [worker EXCEPT ![w].at = at]
  <2>1. /\ ctrl'[f].phase = "terminating" /\ ctrl'[f].enter = ctrl[f].enter
        /\ ctrl'[f].cancel = ctrl[f].cancel
        /\ \A g \in Fibers : g # f => ctrl'[g] = ctrl[g]
    BY <1>4, <1>11, PhaseOnly
  <2>2. /\ worker'[w].task = f /\ worker'[w].at \in {"record", "terminate"}
        /\ \A v \in Workers : v # w => worker'[v] = worker[v]
    BY <1>1, <1>11, WakeTypes DEF RestInv
  <2>3. /\ \A v \in Workers : worker[v].at = "joiners" => worker'[v] = worker[v]
        /\ \A g \in Fibers : g # f => (Running(g)' <=> Running(g))
        /\ ~Running(f)'
    BY <1>6, <2>2
  <2>4. code[f].at = "done"
    BY <1>4, <1>5, <1>11 DEF SpotSound
  <2>5. SpotSound(f)'
    BY <1>2, <1>5, <1>11, <2>1, <2>3, <2>4 DEF SpotSound, Armed
  <2>6. ctrl'[f].park = 0
    BY <1>4, <1>11 DEF Words
  <2>7. ctrl'[f].phase \in Terminal /\ ~Ended(f)'
    BY <2>1 DEF Terminal, Ended
  <2>8. QED
    BY <1>2, <2>1, <2>3, <2>5, <2>6, <2>7, RestTask
<1>12. QED
  BY <1>1, <1>8, <1>9, <1>10, <1>11 DEF Suspended

-----------------------------------------------------------------------------
(* The applier.                                                            *)

LEMMA ShutFields ==
    ASSUME NEW c \in Cancels, NEW at, NEW f, NEW n, NEW s, NEW b, NEW k
    PROVE  /\ [c EXCEPT !.at = at].todo = c.todo /\ [c EXCEPT !.at = at].all = c.all
           /\ [c EXCEPT !.at = at].at = at /\ [c EXCEPT !.at = at].task = c.task
           /\ [c EXCEPT !.orders = k].todo = c.todo /\ [c EXCEPT !.orders = k].all = c.all
           /\ [c EXCEPT !.orders = k].at = c.at /\ [c EXCEPT !.orders = k].task = c.task
           /\ [c EXCEPT !.todo = s].todo = s /\ [c EXCEPT !.todo = s].all = c.all
           /\ [c EXCEPT !.todo = s].at = c.at
  BY DEF Cancels

LEMMA AppliedFields ==
    ASSUME cancel \in Cancels
    PROVE  Applied.at = "next" /\ Applied.todo = cancel.todo /\ Applied.all = cancel.all
<1>1. Applied.at = "next"
  BY DEF Applied, Cancels
<1>2. Applied.todo = cancel.todo
  BY DEF Applied, Cancels
<1>3. Applied.all = cancel.all
  BY DEF Applied, Cancels
<1>4. QED
  BY <1>1, <1>2, <1>3

(* A task whose cancellation is refused has ended, or is cancelled.        *)
LEMMA ApplyReaches ==
    ASSUME cancel \in Cancels, NEW f \in Fibers, NEW s \in Seq(Fibers), NEW d, d = Apply(f, s)
    PROVE  /\ d \in Cancels /\ d.todo = s /\ d.all = cancel.all /\ d.at \in {"next", "add"}
           /\ Cancelled(f) \/ ctrl[f].phase \in Terminal \/ (d.at = "add" /\ d.task = f)
<1>1. d \in Cancels
  BY ApplyFields
<1>2. CASE Refuses(f)
  <2>1. PICK c \in Cancels : c = Applied
    <3>1. [cancel EXCEPT !.at = "next", !.task = None, !.n = 0] \in Cancels
      BY DEF Cancels
    <3>2. QED
      BY <3>1 DEF Applied
  <2>2. d = [c EXCEPT !.todo = s]
    BY <1>2, <2>1 DEF Apply
  <2>3. c.at = "next" /\ c.all = cancel.all
    BY <2>1, AppliedFields
  <2>4. d.todo = s /\ d.all = c.all /\ d.at = c.at
    BY <2>2, ShutFields
  <2>5. QED
    BY <1>1, <1>2, <2>3, <2>4 DEF Refuses, Cancelled
<1>3. CASE ~Refuses(f)
  <2>1. d = [cancel EXCEPT !.at = "add", !.task = f, !.todo = s]
    BY <1>3 DEF Apply
  <2>2. d.at = "add" /\ d.task = f
    BY <2>1 DEF Cancels
  <2>3. d.todo = s /\ d.all = cancel.all
    BY <2>1 DEF Cancels
  <2>4. QED
    BY <1>1, <2>2, <2>3
<1>4. QED
  BY <1>2, <1>3

(* Steps of the applier that claim no wait.                                *)
LEMMA RestCancel ==
    ASSUME RestInv, WakeInv', UNCHANGED <<word, buffered, code, heap, joiners, worker, unit>>,
           UNCHANGED <<roots, pump>>,
           \A g \in Fibers : /\ ctrl'[g].phase = ctrl[g].phase /\ ctrl'[g].enter = ctrl[g].enter
                             /\ ctrl'[g].park = ctrl[g].park /\ ctrl'[g].wake = ctrl[g].wake,
           \A g \in Fibers : CancelHeard(g)', ShutHeard'
    PROVE  RestInv'
<1>1. Rooted' = Rooted /\ \A g \in Fibers : (Armed(g)' <=> Armed(g)) /\ (Running(g)' <=> Running(g))
  BY DEF Rooted, Armed, Running
<1>2. SpotsSound'
  <2>1. ASSUME NEW g \in Fibers PROVE SpotSound(g)'
    <3>1. SpotSound(g)
      BY DEF RestInv, SpotsSound
    <3>2. QED
      BY <1>1, <3>1, SpotKept DEF Stored, SpotSound
  <2>2. QED
    BY <2>1 DEF SpotsSound
<1>3. HeapTyped'
  BY <1>1 DEF RestInv, HeapTyped
<1>4. AllHeard'
  <2>1. ASSUME NEW g \in Fibers PROVE Heard(g)'
    <3>1. Heard(g) /\ SpotSound(g)
      BY DEF RestInv, AllHeard, Heard, SpotsSound
    <3>2. TimerHeard(g)'
      BY <1>1, <3>1, TimerKept DEF Heard
    <3>3. JoinHeard(g)'
      BY <1>1, <3>1, JoinKept DEF Heard
    <3>4. UnitHeard(g)'
      BY <1>1, <3>1, UnitKept DEF Heard, Linked
    <3>5. QED
      BY <3>2, <3>3, <3>4 DEF Heard
  <2>2. QED
    BY <2>1 DEF AllHeard, Heard
<1>5. EndsHeard'
  BY EndsKept DEF RestInv, Ended
<1>6. Meeting'
  BY DEF RestInv, Meeting
<1>7. QED
  BY <1>2, <1>3, <1>4, <1>5, <1>6 DEF RestInv

(* Before any is being applied nobody waits who was cancelled.             *)
LEMMA NoneApplied ==
    ASSUME RestInv, UNCHANGED <<word, code, ctrl, accepted>>,
           cancel.at \notin {"accept", "claim"}, NEW g \in Fibers
    PROVE  CancelHeard(g)'
<1>1. CancelHeard(g)
  BY DEF RestInv, AllHeard
<1>2. QED
  BY <1>1 DEF CancelHeard, Armed, Cancelled

LEMMA RestShutdown == ASSUME RestInv, WakeInv', BeginShutdown PROVE RestInv'
<1>1. /\ UNCHANGED <<ctrl, word, buffered, accepted, code, heap, joiners, worker, unit, roots, pump>>
      /\ cancel.at = "idle" /\ accepting' = FALSE /\ cancel \in Cancels
  BY DEF BeginShutdown, taskVars, RestInv, WakeInv, WakesTyped
<1>2. PICK all \in CancelActive :
         cancel' = [cancel EXCEPT !.all = all, !.at = "next", !.orders = @ + 1,
                                  !.todo = IF all THEN roots ELSE <<>>]
  BY DEF BeginShutdown
<1>3. PICK s : s = IF all THEN roots ELSE <<>>
  OBVIOUS
<1>4. PICK k : k = cancel.orders + 1
  OBVIOUS
<1>5. PICK d : d = [cancel EXCEPT !.all = all, !.at = "next", !.orders = k, !.todo = s]
  OBVIOUS
<1>6. cancel' = d /\ d.at = "next" /\ d.todo = s /\ d.all = all
  <2>1. cancel' = d
    BY <1>2, <1>3, <1>4, <1>5
  <2>2. d.at = "next"
    BY <1>1, <1>5 DEF Cancels
  <2>3. d.todo = s
    BY <1>1, <1>5 DEF Cancels
  <2>4. d.all = all
    BY <1>1, <1>5 DEF Cancels
  <2>5. QED
    BY <2>1, <2>2, <2>3, <2>4
<1>7. ShutHeard'
  <2>1. ASSUME cancel'.all, NEW f \in Rooted'
        PROVE  Reached(f)'
    <3>1. all /\ s = roots
      BY <1>3, <1>6, <2>1
    <3>2. \E i \in DOMAIN s : s[i] = f
      BY <1>1, <2>1, <3>1 DEF Rooted
    <3>3. cancel'.at # "idle" /\ cancel'.todo = s
      BY <1>6
    <3>4. QED
      BY <3>2, <3>3 DEF Reached
  <2>2. QED
    BY <1>1, <2>1 DEF ShutHeard
<1>8. \A g \in Fibers : CancelHeard(g)'
  BY <1>1, NoneApplied
<1>9. QED
  BY <1>1, <1>7, <1>8, RestCancel

LEMMA RestRequest == ASSUME RestInv, WakeInv', NEW f \in Fibers, Request(f) PROVE RestInv'
<1>1. /\ UNCHANGED <<ctrl, word, buffered, accepted, code, heap, joiners, worker, unit, roots, pump>>
      /\ cancel.at = "idle" /\ accepting' = accepting /\ cancel \in Cancels
  BY DEF Request, OnlyCancel, RestInv, WakeInv, WakesTyped
<1>2. PICK s : s = <<>>
  OBVIOUS
<1>10. s \in Seq(Fibers)
  BY <1>2, EmptySeq
<1>3. PICK c : c = Apply(f, s)
  OBVIOUS
<1>4. c \in Cancels /\ c.all = cancel.all
  BY <1>1, <1>3, <1>10, ApplyReaches
<1>5. PICK k : cancel' = [c EXCEPT !.orders = k]
  BY <1>2, <1>3 DEF Request
<1>6. cancel'.all = cancel.all
  BY <1>4, <1>5, ShutFields
<1>7. ShutHeard'
  <2>1. ASSUME cancel'.all, NEW g \in Rooted' PROVE Reached(g)'
    <3>1. Reached(g) /\ g \in Rooted
      BY <1>1, <1>6, <2>1 DEF RestInv, ShutHeard, Rooted
    <3>2. Cancelled(g) \/ ctrl[g].phase \in Terminal
      BY <1>1, <3>1 DEF Reached
    <3>3. QED
      BY <1>1, <3>2 DEF Reached, Cancelled
  <2>2. cancel'.all => ~accepting'
    BY <1>1, <1>6 DEF RestInv, ShutHeard
  <2>3. QED
    BY <2>1, <2>2 DEF ShutHeard
<1>8. \A g \in Fibers : CancelHeard(g)'
  BY <1>1, NoneApplied
<1>9. QED
  BY <1>1, <1>7, <1>8, RestCancel

LEMMA RestNextTask == ASSUME RestInv, WakeInv', NextTask PROVE RestInv'
<1>1. /\ UNCHANGED <<ctrl, word, buffered, accepted, code, heap, joiners, worker, unit, roots, pump>>
      /\ cancel.at = "next" /\ accepting' = accepting /\ cancel \in Cancels
  BY DEF NextTask, OnlyCancel, RestInv, WakeInv, WakesTyped
<1>2. PICK todo \in Seq(Fibers) : todo = cancel.todo
  BY <1>1 DEF Cancels
<1>3. /\ cancel'.all = cancel.all
      /\ \A i \in DOMAIN todo :
            \/ Cancelled(todo[i]) \/ ctrl[todo[i]].phase \in Terminal
            \/ cancel'.at = "add" /\ cancel'.task = todo[i]
            \/ cancel'.at # "idle" /\ \E j \in DOMAIN cancel'.todo : cancel'.todo[j] = todo[i]
  <2>1. CASE todo = <<>>
    <3>1. cancel' = [cancel EXCEPT !.at = "idle"]
      BY <1>2, <2>1 DEF NextTask
    <3>2. cancel'.all = cancel.all
      BY <1>1, <3>1, ShutFields
    <3>3. DOMAIN todo = {}
      BY <2>1, EmptySeq
    <3>4. QED
      BY <3>2, <3>3
  <2>2. CASE todo # <<>>
    <3>1. PICK l \in Nat : /\ l >= 1 /\ DOMAIN todo = 1 .. l /\ Head(todo) = todo[1] /\ todo[1] \in Fibers
                           /\ Tail(todo) \in Seq(Fibers) /\ DOMAIN Tail(todo) = 1 .. l - 1
                           /\ \A i \in 1 .. l - 1 : Tail(todo)[i] = todo[i + 1]
      BY <2>2, TailOf
    <3>2. PICK f \in Fibers : f = todo[1]
      BY <3>1
    <3>3. PICK s \in Seq(Fibers) : s = Tail(todo)
      BY <3>1
    <3>4. PICK d : d = Apply(f, s)
      OBVIOUS
    <3>5. cancel' = d
      BY <1>2, <2>2, <3>1, <3>2, <3>3, <3>4 DEF NextTask
    <3>6. /\ d.todo = s /\ d.all = cancel.all /\ d.at \in {"next", "add"}
          /\ Cancelled(f) \/ ctrl[f].phase \in Terminal \/ (d.at = "add" /\ d.task = f)
      BY <1>1, <3>4, ApplyReaches
    <3>7. ASSUME NEW i \in DOMAIN todo
          PROVE  \/ Cancelled(todo[i]) \/ ctrl[todo[i]].phase \in Terminal
                 \/ d.at = "add" /\ d.task = todo[i]
                 \/ d.at # "idle" /\ \E j \in DOMAIN d.todo : d.todo[j] = todo[i]
      <4>1. CASE i = 1
        BY <3>2, <3>6, <4>1
      <4>2. CASE i # 1
        <5>1. i - 1 \in DOMAIN s /\ s[i - 1] = todo[i]
          BY <3>1, <3>3, <4>2
        <5>2. QED
          BY <3>6, <5>1
      <4>3. QED
        BY <4>1, <4>2
    <3>8. QED
      BY <3>5, <3>6, <3>7
  <2>3. QED
    BY <2>1, <2>2
<1>4. ShutHeard'
  <2>1. ASSUME cancel'.all, NEW g \in Rooted' PROVE Reached(g)'
    <3>1. Reached(g) /\ g \in Rooted
      BY <1>1, <1>3, <2>1 DEF RestInv, ShutHeard, Rooted
    <3>2. Cancelled(g) \/ ctrl[g].phase \in Terminal \/ \E i \in DOMAIN todo : todo[i] = g
      BY <1>1, <1>2, <3>1 DEF Reached
    <3>3. /\ Cancelled(g) => Cancelled(g)'
          /\ ctrl[g].phase \in Terminal => ctrl'[g].phase \in Terminal
      BY <1>1 DEF Cancelled
    <3>4. CASE \E i \in DOMAIN todo : todo[i] = g
      <4>1. PICK i \in DOMAIN todo : todo[i] = g
        BY <3>4
      <4>2. QED
        BY <1>3, <3>3, <4>1 DEF Reached
    <3>5. QED
      BY <3>2, <3>3, <3>4 DEF Reached
  <2>2. cancel'.all => ~accepting'
    BY <1>1, <1>3 DEF RestInv, ShutHeard
  <2>3. QED
    BY <2>1, <2>2 DEF ShutHeard
<1>5. \A g \in Fibers : CancelHeard(g)'
  BY <1>1, NoneApplied
<1>6. QED
  BY <1>1, <1>4, <1>5, RestCancel

LEMMA RestAddCancel == ASSUME RestInv, WakeInv', AddCancel PROVE RestInv'
<1>1. /\ UNCHANGED <<word, buffered, accepted, code, heap, joiners, worker, unit, roots, pump>>
      /\ cancel.at = "add" /\ accepting' = accepting /\ cancel \in Cancels
      /\ ctrl \in [Fibers -> Words]
  BY WakeTypes DEF AddCancel, OnlyCancel, RestInv, WakeInv, WakesTyped
<1>2. PICK f \in Fibers : f = cancel.task
  BY <1>1 DEF RestInv, WakeInv, WakesTyped
<1>3. PICK c \in Words : c = ctrl[f]
  BY <1>1
<1>4. PICK n \in Nat : n = c.cancel + 1 /\ n > 0
  BY <1>3 DEF Words
<1>5. PICK d : d = [c EXCEPT !.cancel = n]
  OBVIOUS
<1>6. ctrl' = [ctrl EXCEPT ![f] = d]
  BY <1>2, <1>3, <1>4, <1>5 DEF AddCancel
<1>7. /\ d.phase = c.phase /\ d.enter = c.enter /\ d.cancel = n /\ d.park = c.park /\ d.wake = c.wake
  BY <1>5, WordFields
<1>8. ctrl'[f] = d /\ \A g \in Fibers : g # f => ctrl'[g] = ctrl[g]
  BY <1>1, <1>6
<1>9. Cancelled(f)'
  BY <1>4, <1>7, <1>8 DEF Cancelled
<1>10. \A g \in Fibers : g # f => (Cancelled(g)' <=> Cancelled(g))
  BY <1>1, <1>8 DEF Cancelled
<1>11. /\ cancel'.all = cancel.all /\ cancel'.todo = cancel.todo /\ cancel'.at \in {"next", "accept"}
       /\ ctrl[f].phase \notin Terminal => cancel'.at = "accept" /\ cancel'.task = f
  <2>1. CASE ctrl[f].phase \in Terminal
    <3>1. cancel' = Applied
      BY <1>2, <2>1 DEF AddCancel
    <3>2. QED
      BY <1>1, <2>1, <3>1, AppliedFields
  <2>2. CASE ctrl[f].phase \notin Terminal
    <3>1. cancel' = [cancel EXCEPT !.at = "accept"]
      BY <1>2, <2>2 DEF AddCancel
    <3>2. QED
      BY <1>1, <1>2, <3>1, ShutFields
  <2>3. QED
    BY <2>1, <2>2
<1>12. ASSUME NEW g \in Fibers PROVE CancelHeard(g)'
  <2>0. CancelHeard(g) /\ (Armed(g)' <=> Armed(g)) /\ code'[g] = code[g]
    BY <1>1 DEF RestInv, AllHeard, Armed
  <2>1. CASE g = f
    <3>1. CASE ctrl[f].phase \in Terminal
      <4>1. ~Armed(f)
        BY <3>1 DEF RestInv, WakeInv, BodiesSound, BodySound, Terminal
      <4>2. QED
        BY <2>0, <2>1, <4>1 DEF CancelHeard
    <3>2. CASE ctrl[f].phase \notin Terminal
      BY <1>11, <2>1, <3>2 DEF CancelHeard
    <3>3. QED
      BY <3>1, <3>2
  <2>2. CASE g # f
    BY <1>1, <1>10, <2>0, <2>2 DEF CancelHeard
  <2>3. QED
    BY <2>1, <2>2
<1>13. ShutHeard'
  <2>1. ASSUME cancel'.all, NEW g \in Rooted' PROVE Reached(g)'
    <3>1. Reached(g) /\ g \in Rooted /\ g \in Fibers
      BY <1>1, <1>11, <2>1, RootsWithin DEF RestInv, ShutHeard, Rooted
    <3>2. CASE g = f
      BY <1>9, <3>2 DEF Reached
    <3>3. CASE g # f
      BY <1>1, <1>2, <1>8, <1>10, <1>11, <3>1, <3>3 DEF Reached
    <3>4. QED
      BY <3>2, <3>3
  <2>2. cancel'.all => ~accepting'
    BY <1>1, <1>11 DEF RestInv, ShutHeard
  <2>3. QED
    BY <2>1, <2>2 DEF ShutHeard
<1>14. ASSUME NEW g \in Fibers
       PROVE  /\ ctrl'[g].phase = ctrl[g].phase /\ ctrl'[g].enter = ctrl[g].enter
              /\ ctrl'[g].park = ctrl[g].park /\ ctrl'[g].wake = ctrl[g].wake
  BY <1>3, <1>7, <1>8
<1>15. QED
  BY <1>1, <1>12, <1>13, <1>14, RestCancel

LEMMA RestAccept == ASSUME RestInv, WakeInv', Accept PROVE RestInv'
<1>1. /\ UNCHANGED <<ctrl, word, buffered, code, heap, joiners, worker, unit, roots, pump>>
      /\ cancel.at = "accept" /\ accepting' = accepting /\ cancel \in Cancels
      /\ accepted' = accepted \cup {cancel.task}
  BY DEF Accept, OnlyCancel, RestInv, WakeInv, WakesTyped
<1>2. PICK f \in Fibers : f = cancel.task
  BY <1>1 DEF RestInv, WakeInv, WakesTyped
<1>3. \A g \in Fibers : /\ Cancelled(g) => Cancelled(g)'
                        /\ g # f => (Cancelled(g)' => Cancelled(g))
  BY <1>1, <1>2 DEF Cancelled
<1>4. /\ cancel'.all = cancel.all /\ cancel'.todo = cancel.todo /\ cancel'.at # "idle"
      /\ Armed(f) => cancel'.at = "claim" /\ cancel'.task = f /\ cancel'.n = word[f].n
  <2>1. CASE Armed(f)
    <3>1. PICK n : n = word[f].n
      OBVIOUS
    <3>2. PICK d : d = [cancel EXCEPT !.at = "claim", !.n = n]
      OBVIOUS
    <3>3. cancel' = d
      BY <1>2, <2>1, <3>1, <3>2 DEF Accept
    <3>4. QED
      <4>1. d.at = "claim" /\ d.n = n
        BY <1>1, <3>2 DEF Cancels
      <4>2. d.task = cancel.task /\ d.todo = cancel.todo /\ d.all = cancel.all
        BY <1>1, <3>2 DEF Cancels
      <4>3. QED
        BY <1>2, <3>1, <3>3, <4>1, <4>2
  <2>2. CASE ~Armed(f)
    <3>1. cancel' = Applied
      BY <1>2, <2>2 DEF Accept
    <3>2. QED
      BY <1>1, <2>2, <3>1, AppliedFields
  <2>3. QED
    BY <2>1, <2>2
<1>5. ASSUME NEW g \in Fibers PROVE CancelHeard(g)'
  <2>0. CancelHeard(g) /\ (Armed(g)' <=> Armed(g)) /\ code'[g] = code[g] /\ word'[g] = word[g]
    BY <1>1 DEF RestInv, AllHeard, Armed
  <2>1. CASE g = f
    BY <1>4, <2>0, <2>1 DEF CancelHeard
  <2>2. CASE g # f
    BY <1>2, <1>3, <2>0, <2>2 DEF CancelHeard
  <2>3. QED
    BY <2>1, <2>2
<1>6. ShutHeard'
  <2>1. ASSUME cancel'.all, NEW g \in Rooted' PROVE Reached(g)'
    <3>1. Reached(g) /\ g \in Fibers
      BY <1>1, <1>4, <2>1, RootsWithin DEF RestInv, ShutHeard, Rooted
    <3>2. QED
      BY <1>1, <1>3, <1>4, <3>1 DEF Reached
  <2>2. cancel'.all => ~accepting'
    BY <1>1, <1>4 DEF RestInv, ShutHeard
  <2>3. QED
    BY <2>1, <2>2 DEF ShutHeard
<1>7. QED
  BY <1>1, <1>5, <1>6, RestCancel

-----------------------------------------------------------------------------
(* Whose wait is armed stays in the queue, or is claimed.                  *)

(* How many members are below one; a greater one has more of them.         *)
Rank(S, j) == Cardinality({m \in S : m < j})

LEMMA RankGrows ==
    ASSUME NEW S \in SUBSET Nat, IsFiniteSet(S), NEW i \in S, NEW j \in S, i < j
    PROVE  Rank(S, i) < Rank(S, j) /\ Rank(S, i) \in Nat /\ Rank(S, j) \in Nat
<1>1. PICK A : A = {m \in S : m < i}
  OBVIOUS
<1>2. PICK B : B = {m \in S : m < j}
  OBVIOUS
<1>3. PICK C : C = B \ {i}
  OBVIOUS
<1>4. A \in SUBSET S /\ B \in SUBSET S
  BY <1>1, <1>2
<1>5. IsFiniteSet(A) /\ IsFiniteSet(B) /\ Cardinality(A) \in Nat /\ Cardinality(B) \in Nat
  BY <1>4, FS_Subset, FS_CardinalityType
<1>6. i \in B
  BY <1>2
<1>7. A \in SUBSET C
  <2>1. ASSUME NEW m \in A PROVE m \in C
    <3>1. m \in S /\ m < i /\ m \in Nat /\ i \in Nat /\ j \in Nat
      BY <1>1
    <3>2. m < j /\ m # i
      BY <3>1
    <3>3. QED
      BY <1>2, <1>3, <3>1, <3>2
  <2>2. QED
    BY <2>1
<1>8. IsFiniteSet(C) /\ Cardinality(C) = Cardinality(B) - 1
  BY <1>3, <1>5, <1>6, FS_RemoveElement
<1>9. Cardinality(A) <= Cardinality(C)
  BY <1>7, <1>8, FS_Subset
<1>10. Rank(S, i) = Cardinality(A) /\ Rank(S, j) = Cardinality(B)
  BY <1>1, <1>2 DEF Rank
<1>11. QED
  BY <1>5, <1>8, <1>9, <1>10

LEMMA RankWithin ==
    ASSUME NEW S \in SUBSET Nat, IsFiniteSet(S), NEW j \in S
    PROVE  Rank(S, j) \in Nat /\ Rank(S, j) + 1 \in 1 .. Cardinality(S)
<1>1. PICK A : A = {m \in S : m < j}
  OBVIOUS
<1>2. PICK C : C = S \ {j}
  OBVIOUS
<1>3. A \in SUBSET C
  BY <1>1, <1>2
<1>4. IsFiniteSet(C) /\ Cardinality(C) = Cardinality(S) - 1 /\ Cardinality(S) \in Nat
  BY <1>2, FS_RemoveElement, FS_CardinalityType
<1>5. Cardinality(A) <= Cardinality(C) /\ IsFiniteSet(A)
  BY <1>3, <1>4, FS_Subset
<1>6. Cardinality(A) \in Nat
  BY <1>5, FS_CardinalityType
<1>7. Rank(S, j) = Cardinality(A)
  BY <1>1 DEF Rank
<1>8. QED
  BY <1>4, <1>5, <1>6, <1>7

LEMMA ClaimedOrLeft ==
    ASSUME unit.queue \in Seq(Fibers), NEW limit \in Nat, limit > 0,
           NEW j \in DOMAIN unit.queue, Armed(unit.queue[j])
    PROVE  \/ \E k \in DOMAIN Winners(limit) : Winners(limit)[k] = unit.queue[j]
           \/ \E i \in DOMAIN Behind(limit) : Behind(limit)[i] = unit.queue[j]
<1>1. PICK S : S = Claimable
  OBVIOUS
<1>2. S \in SUBSET Nat /\ IsFiniteSet(S) /\ Cardinality(S) \in Nat /\ j \in S
  BY <1>1, ClaimableFinite DEF Claimable, Members
<1>3. PICK k \in Nat : k = Rank(S, j) + 1 /\ Rank(S, j) \in Nat
  BY <1>2, RankWithin
<1>4. k \in 1 .. Cardinality(S)
  BY <1>2, <1>3, RankWithin
<1>5. \A l \in 1 .. Cardinality(S) : Nth(l) \in S /\ Rank(S, Nth(l)) = l - 1
  BY <1>1, ClaimableFinite DEF Rank
<1>6. Nth(k) = j
  <2>1. PICK a \in S : a = Nth(k) /\ Rank(S, a) = k - 1
    BY <1>4, <1>5
  <2>2. a \in Nat /\ j \in Nat
    BY <1>2
  <2>3. ~(a < j)
    <3>1. ASSUME a < j PROVE FALSE
      <4>1. Rank(S, a) < Rank(S, j)
        BY <1>2, <3>1, RankGrows
      <4>2. QED
        BY <1>3, <2>1, <4>1
    <3>2. QED
      BY <3>1
  <2>4. ~(j < a)
    <3>1. ASSUME j < a PROVE FALSE
      <4>1. Rank(S, j) < Rank(S, a)
        BY <1>2, <3>1, RankGrows
      <4>2. QED
        BY <1>3, <2>1, <4>1
    <3>2. QED
      BY <3>1
  <2>5. QED
    BY <2>1, <2>2, <2>3, <2>4
<1>7. PICK n \in Nat : n = Cardinality(S)
  BY <1>2
<1>8. CASE k <= limit
  <2>1. PICK m \in Nat : m = IF n < limit THEN n ELSE limit
    OBVIOUS
  <2>2. Winners(limit) = [l \in 1 .. m |-> unit.queue[Nth(l)]]
    BY <1>1, <1>7, <2>1 DEF Winners
  <2>3. k \in 1 .. m
    BY <1>4, <1>7, <1>8, <2>1
  <2>4. QED
    BY <1>6, <2>2, <2>3
<1>9. CASE k > limit
  <2>1. limit \in 1 .. n /\ ~(n < limit)
    BY <1>4, <1>7, <1>9
  <2>2. PICK a \in S : a = Nth(limit) /\ Rank(S, a) = limit - 1
    BY <1>5, <1>7, <2>1
  <2>3. a \in Nat /\ j \in Nat
    BY <1>2
  <2>4. a < j
    <3>1. a # j
      BY <1>3, <1>9, <2>2
    <3>2. ASSUME j < a PROVE FALSE
      <4>1. Rank(S, j) < Rank(S, a)
        BY <1>2, <3>2, RankGrows
      <4>2. QED
        BY <1>3, <1>9, <2>2, <4>1
    <3>3. QED
      BY <2>3, <3>1, <3>2
  <2>5. PICK q \in Seq(Fibers) : q = unit.queue
    OBVIOUS
  <2>6. PICK b : b = SubSeq(q, a + 1, Len(q))
    OBVIOUS
  <2>7. b = Behind(limit)
    BY <1>1, <1>7, <2>1, <2>2, <2>5, <2>6 DEF Behind
  <2>8. PICK l \in Nat : l = Len(q) /\ DOMAIN q = 1 .. l
    BY LenProperties
  <2>9. j \in 1 .. l
    BY <2>5, <2>8
  <2>10. j - a \in DOMAIN b /\ b[j - a] = q[j]
    BY <2>3, <2>4, <2>6, <2>8, <2>9
  <2>11. QED
    BY <2>5, <2>7, <2>10
<1>10. QED
  BY <1>8, <1>9

-----------------------------------------------------------------------------
(* Who claims waits leaves the others as they are.                         *)
LEMMA RestClaims ==
    ASSUME RestInv, WakeInv', NEW F \in SUBSET Fibers, NEW cause \in Causes,
           word' = Claimed(F, cause) \/ (F = {} /\ word' = word),
           UNCHANGED <<ctrl, buffered, accepted, code, heap, roots>>,
           \A g \in Fibers : Running(g)' <=> Running(g)
    PROVE  /\ \A g \in Fibers : Armed(g)' => Armed(g) /\ g \notin F /\ word'[g] = word[g]
           /\ SpotsSound' /\ HeapTyped' /\ Meeting'
           /\ \A g \in Fibers : /\ Cancelled(g)' <=> Cancelled(g)
                                /\ Ended(g)' <=> Ended(g)
                                /\ Reached(g) /\ cancel' = cancel => Reached(g)'
<1>1. word \in [Fibers -> WaitWords]
  BY WakeTypes DEF RestInv
<1>2. ASSUME NEW g \in Fibers, g \in F PROVE word'[g].cause = cause
  BY <1>1, <1>2 DEF Claimed, WaitWords
<1>3. ASSUME NEW g \in Fibers, g \notin F PROVE word'[g] = word[g]
  BY <1>3 DEF Claimed
<1>4. \A g \in Fibers : Armed(g)' => Armed(g) /\ g \notin F /\ word'[g] = word[g]
  BY <1>2, <1>3 DEF Armed, Causes
<1>5. SpotsSound'
  <2>1. ASSUME NEW g \in Fibers PROVE SpotSound(g)'
    <3>1. SpotSound(g) /\ Rooted' = Rooted
      BY DEF RestInv, SpotsSound, Rooted
    <3>2. word'[g].cause \in Causes \/ word'[g] = word[g]
      BY <1>2, <1>3
    <3>3. QED
      BY <1>4, <3>1, <3>2, SpotKept DEF Stored, SpotSound
  <2>2. QED
    BY <2>1 DEF SpotsSound
<1>6. HeapTyped'
  BY <1>4 DEF RestInv, HeapTyped
<1>7. Meeting'
  BY DEF RestInv, Meeting
<1>8. \A g \in Fibers : /\ Cancelled(g)' <=> Cancelled(g)
                        /\ Ended(g)' <=> Ended(g)
                        /\ Reached(g) /\ cancel' = cancel => Reached(g)'
  BY DEF Cancelled, Ended, Reached
<1>9. QED
  BY <1>4, <1>5, <1>6, <1>7, <1>8

LEMMA RestClaimFront ==
    ASSUME RestInv, WakeInv', NEW t \in Threads, ClaimFront(t), UNCHANGED domainVars
    PROVE  RestInv'
<1>1. PICK limit \in Nat : limit = waker[t].limit /\ limit > 0
  BY WakeTypes DEF ClaimFront, RestInv
<1>2. PICK won : won = Winners(limit)
  OBVIOUS
<1>3. PICK left : left = Behind(limit)
  OBVIOUS
<1>4. PICK F : F = {won[i] : i \in DOMAIN won}
  OBVIOUS
<1>5. PICK q \in Seq(Fibers) : q = unit.queue
  BY WakeTypes DEF RestInv
<1>6. /\ word' = Claimed(F, "signalled") /\ unit'.queue = left
      /\ UNCHANGED <<ctrl, buffered, accepted, code, worker, heap, joiners>>
  <2>1. unit' = [unit EXCEPT !.queue = left]
    BY <1>1, <1>3 DEF ClaimFront
  <2>2. unit'.queue = left
    BY <2>1, WakeTypes, QueueFields DEF RestInv
  <2>3. QED
    BY <1>1, <1>2, <1>4, <2>2 DEF ClaimFront
<1>7. UNCHANGED <<roots, accepting, pump, cancel>>
  BY DEF domainVars
<1>8. F \in SUBSET Fibers
  <2>1. won \in Seq(Fibers)
    BY <1>2, <1>5, WinnersArmed DEF RestInv, WakeInv, QueueSound
  <2>2. QED
    BY <1>4, <2>1, LenProperties
<1>9. /\ \A g \in Fibers : Armed(g)' => Armed(g) /\ g \notin F /\ word'[g] = word[g]
      /\ SpotsSound' /\ HeapTyped' /\ Meeting'
      /\ \A g \in Fibers : /\ Cancelled(g)' <=> Cancelled(g)
                           /\ Ended(g)' <=> Ended(g)
                           /\ Reached(g) /\ cancel' = cancel => Reached(g)'
  BY <1>6, <1>7, <1>8, RestClaims DEF Causes, Running
<1>10. ASSUME NEW g \in Fibers PROVE Heard(g)'
  <2>1. Heard(g) /\ SpotSound(g)
    BY DEF RestInv, AllHeard, Heard, SpotsSound
  <2>2. CancelHeard(g)' /\ TimerHeard(g)' /\ JoinHeard(g)'
    BY <1>6, <1>7, <1>9, <2>1, CancelKept, TimerKept, JoinKept DEF Heard
  <2>3. ASSUME Armed(g)', Linked(g) PROVE Linked(g)'
    <3>1. PICK j \in DOMAIN q : q[j] = g
      BY <1>5, <2>3 DEF Linked
    <3>2. Armed(g) /\ g \notin F
      BY <1>9, <2>3
    <3>3. \/ \E k \in DOMAIN won : won[k] = g
          \/ \E i \in DOMAIN left : left[i] = g
      BY <1>1, <1>2, <1>3, <1>5, <3>1, <3>2, ClaimedOrLeft
    <3>4. \E i \in DOMAIN left : left[i] = g
      BY <1>4, <3>2, <3>3
    <3>5. QED
      BY <1>6, <3>4 DEF Linked
  <2>4. UnitHeard(g)'
    BY <1>6, <1>9, <2>1, <2>3, UnitKept DEF Heard
  <2>5. QED
    BY <2>2, <2>4 DEF Heard
<1>11. EndsHeard'
  BY <1>6, <1>9, EndsKept DEF RestInv
<1>12. ShutHeard'
  BY <1>6, <1>7, <1>9, RootsWithin DEF RestInv, ShutHeard, Rooted
<1>13. QED
  BY <1>9, <1>10, <1>11, <1>12 DEF RestInv, AllHeard, Heard

LEMMA RestWakeJoiners ==
    ASSUME RestInv, WakeInv', NEW w \in Workers, WakeJoiners(w), UNCHANGED <<unit, domainVars>>
    PROVE  RestInv'
<1>1. PICK f \in Fibers : f = worker[w].task /\ worker[w].at = "joiners"
  BY DEF WakeJoiners, RestInv, WakeInv, PlaceInv, OneWorker
<1>2. PICK F : F = {j \in joiners[f] : Armed(j)}
  OBVIOUS
<1>3. /\ word' = Claimed(F, "signalled") /\ joiners' = [joiners EXCEPT ![f] = {}] /\ Leave(w)
      /\ UNCHANGED <<ctrl, buffered, accepted, code, heap, unit>>
  BY <1>1, <1>2 DEF WakeJoiners
<1>4. UNCHANGED <<roots, accepting, pump, cancel>>
  BY DEF domainVars
<1>5. joiners \in [Fibers -> SUBSET Fibers]
  BY WakeTypes DEF RestInv
<1>6. F \in SUBSET Fibers
  BY <1>2, <1>5
<1>7. /\ worker'[w].at = "idle" /\ \A v \in Workers : v # w => worker'[v] = worker[v]
  BY <1>3, LeaveEffect DEF RestInv, WakeInv
<1>8. \A g \in Fibers : Running(g)' <=> Running(g)
  <2>1. worker[w].at # "run" /\ worker'[w].at # "run"
    BY <1>1, <1>7
  <2>2. QED
    BY <1>7, <2>1 DEF Running
<1>9. /\ \A g \in Fibers : Armed(g)' => Armed(g) /\ g \notin F /\ word'[g] = word[g]
      /\ SpotsSound' /\ HeapTyped' /\ Meeting'
      /\ \A g \in Fibers : /\ Cancelled(g)' <=> Cancelled(g)
                           /\ Ended(g)' <=> Ended(g)
                           /\ Reached(g) /\ cancel' = cancel => Reached(g)'
  BY <1>3, <1>4, <1>6, <1>8, RestClaims DEF Causes
<1>10. joiners'[f] = {} /\ \A t \in Fibers : t # f => joiners'[t] = joiners[t]
  BY <1>3, <1>5
<1>11. ASSUME NEW g \in Fibers PROVE Heard(g)'
  <2>1. Heard(g) /\ SpotSound(g)
    BY DEF RestInv, AllHeard, Heard, SpotsSound
  <2>2. CancelHeard(g)' /\ TimerHeard(g)' /\ UnitHeard(g)'
    BY <1>3, <1>4, <1>9, <2>1, CancelKept, TimerKept, UnitKept DEF Heard, Linked
  <2>3. JoinHeard(g)'
    <3>1. Armed(g)' => \A t \in Fibers : g \in joiners[t] => g \in joiners'[t]
      BY <1>2, <1>9, <1>10
    <3>2. QED
      BY <1>3, <1>9, <2>1, <3>1, JoinKept DEF Heard
  <2>4. QED
    BY <2>2, <2>3 DEF Heard
<1>12. EndsHeard'
  <2>1. ASSUME NEW t \in Fibers, Ended(t)', joiners'[t] # {}
        PROVE  \E v \in Workers : worker'[v].at = "joiners" /\ worker'[v].task = t
    <3>1. t # f /\ Ended(t) /\ joiners[t] # {}
      BY <1>9, <1>10, <2>1
    <3>2. PICK v \in Workers : worker[v].at = "joiners" /\ worker[v].task = t
      BY <3>1 DEF RestInv, EndsHeard
    <3>3. v # w
      BY <1>1, <3>1, <3>2
    <3>4. QED
      BY <1>7, <3>2, <3>3
  <2>2. QED
    BY <2>1 DEF EndsHeard
<1>13. ShutHeard'
  BY <1>4, <1>9, RootsWithin DEF RestInv, ShutHeard, Rooted
<1>14. QED
  BY <1>9, <1>11, <1>12, <1>13 DEF RestInv, AllHeard, Heard

(* One wait, if it is still the armed one.                                 *)
LEMMA ClaimsOne ==
    ASSUME RestInv, WakeInv', NEW t, NEW f \in Fibers, NEW n, NEW cause \in Causes,
           ClaimWait(t, f, n, cause)
    PROVE  /\ \A g \in Fibers : Armed(g)' => Armed(g) /\ ~(g = f /\ word[g].n = n) /\ word'[g] = word[g]
           /\ SpotsSound' /\ HeapTyped' /\ Meeting' /\ EndsHeard'
           /\ \A g \in Fibers : JoinHeard(g)' /\ UnitHeard(g)'
           /\ UNCHANGED <<ctrl, accepted, code, heap, roots, accepting>>
<1>1. UNCHANGED <<ctrl, buffered, accepted, code, heap, roots, accepting, worker, joiners, unit>>
  BY DEF ClaimWait
<1>2. PICK F : F = IF Names(f, n) THEN {f} ELSE {}
  OBVIOUS
<1>3. F \in SUBSET Fibers /\ (word' = Claimed(F, cause) \/ (F = {} /\ word' = word))
  BY <1>2 DEF ClaimWait
<1>4. \A g \in Fibers : Running(g)' <=> Running(g)
  BY <1>1 DEF Running
<1>5. /\ \A g \in Fibers : Armed(g)' => Armed(g) /\ g \notin F /\ word'[g] = word[g]
      /\ SpotsSound' /\ HeapTyped' /\ Meeting'
      /\ \A g \in Fibers : Ended(g)' <=> Ended(g)
  BY <1>1, <1>3, <1>4, RestClaims
<1>6. ASSUME NEW g \in Fibers, Armed(g)' PROVE ~(g = f /\ word[g].n = n)
  <2>1. ASSUME g = f, word[g].n = n PROVE FALSE
    <3>1. PICK r \in WaitWords : r = word[f]
      BY WakeTypes DEF RestInv
    <3>2. r.n = n /\ r.cause = "armed"
      BY <1>5, <1>6, <2>1, <3>1 DEF Armed
    <3>3. r = [n |-> n, cause |-> "armed"]
      BY <3>2 DEF WaitWords
    <3>4. Names(f, n)
      BY <3>1, <3>3 DEF Names
    <3>5. QED
      BY <1>2, <1>5, <1>6, <2>1, <3>4
  <2>2. QED
    BY <2>1
<1>7. EndsHeard'
  BY <1>1, <1>5, EndsKept DEF RestInv
<1>8. ASSUME NEW g \in Fibers PROVE JoinHeard(g)' /\ UnitHeard(g)'
  <2>1. Heard(g) /\ SpotSound(g)
    BY DEF RestInv, AllHeard, Heard, SpotsSound
  <2>2. JoinHeard(g)'
    BY <1>1, <1>5, <2>1, JoinKept DEF Heard
  <2>3. UnitHeard(g)'
    BY <1>1, <1>5, <2>1, UnitKept DEF Heard, Linked
  <2>4. QED
    BY <2>2, <2>3
<1>9. QED
  BY <1>1, <1>5, <1>6, <1>7, <1>8

LEMMA RestTimeOut == ASSUME RestInv, WakeInv', TimeOut PROVE RestInv'
<1>1. /\ pump # NoEntry /\ pump' = NoEntry /\ cancel' = cancel
      /\ ClaimWait("timers", pump.task, pump.n, "timedOut")
  BY DEF TimeOut
<1>2. PICK f \in Fibers : f = pump.task
  BY <1>1 DEF RestInv, WakeInv, WakesTyped
<1>3. PICK n : n = pump.n
  OBVIOUS
<1>4. /\ \A g \in Fibers : Armed(g)' => Armed(g) /\ ~(g = f /\ word[g].n = n) /\ word'[g] = word[g]
      /\ SpotsSound' /\ HeapTyped' /\ Meeting' /\ EndsHeard'
      /\ \A g \in Fibers : JoinHeard(g)' /\ UnitHeard(g)'
      /\ UNCHANGED <<ctrl, accepted, code, heap, roots, accepting>>
  BY <1>1, <1>2, <1>3, ClaimsOne DEF Causes
<1>5. ASSUME NEW g \in Fibers PROVE CancelHeard(g)' /\ TimerHeard(g)'
  <2>1. CancelHeard(g) /\ TimerHeard(g)
    BY DEF RestInv, AllHeard
  <2>2. CancelHeard(g)'
    BY <1>1, <1>4, <2>1 DEF CancelHeard, Cancelled
  <2>3. TimerHeard(g)'
    BY <1>2, <1>3, <1>4, <2>1 DEF TimerHeard
  <2>4. QED
    BY <2>2, <2>3
<1>6. ShutHeard'
  BY <1>1, <1>4 DEF RestInv, ShutHeard, Rooted, Reached, Cancelled
<1>7. QED
  BY <1>4, <1>5, <1>6 DEF RestInv, AllHeard

LEMMA RestCancelWait == ASSUME RestInv, WakeInv', CancelWait PROVE RestInv'
<1>1. /\ cancel.at = "claim" /\ cancel' = Applied /\ pump' = pump /\ cancel \in Cancels
      /\ ClaimWait("director", cancel.task, cancel.n, "cancelled")
  BY DEF CancelWait, RestInv, WakeInv, WakesTyped
<1>2. PICK f \in Fibers : f = cancel.task
  BY <1>1 DEF RestInv, WakeInv, WakesTyped
<1>3. PICK n : n = cancel.n
  OBVIOUS
<1>4. /\ \A g \in Fibers : Armed(g)' => Armed(g) /\ ~(g = f /\ word[g].n = n) /\ word'[g] = word[g]
      /\ SpotsSound' /\ HeapTyped' /\ Meeting' /\ EndsHeard'
      /\ \A g \in Fibers : JoinHeard(g)' /\ UnitHeard(g)'
      /\ UNCHANGED <<ctrl, accepted, code, heap, roots, accepting>>
  BY <1>1, <1>2, <1>3, ClaimsOne DEF Causes
<1>5. ASSUME NEW g \in Fibers PROVE CancelHeard(g)' /\ TimerHeard(g)'
  <2>1. CancelHeard(g) /\ TimerHeard(g)
    BY DEF RestInv, AllHeard
  <2>2. CancelHeard(g)'
    BY <1>1, <1>2, <1>3, <1>4, <2>1 DEF CancelHeard, Cancelled
  <2>3. TimerHeard(g)'
    BY <1>1, <1>4, <2>1 DEF TimerHeard
  <2>4. QED
    BY <2>2, <2>3
<1>6. cancel'.at = "next" /\ cancel'.todo = cancel.todo /\ cancel'.all = cancel.all
  BY <1>1, AppliedFields
<1>7. ShutHeard'
  BY <1>1, <1>4, <1>6 DEF RestInv, ShutHeard, Rooted, Reached, Cancelled
<1>8. QED
  BY <1>4, <1>5, <1>7 DEF RestInv, AllHeard

LEMMA RestDrain ==
    ASSUME RestInv, WakeInv', NEW f \in Fibers, Drain(f), UNCHANGED domainVars
    PROVE  RestInv'
<1>1. /\ UNCHANGED <<ctrl, accepted, code, worker, heap, joiners, unit>>
      /\ UNCHANGED <<roots, accepting, pump, cancel>>
      /\ f \in buffered /\ buffered' = buffered \ {f}
      /\ word' = [word EXCEPT ![f] = [n |-> @.n + 1, cause |-> "armed"]]
  BY DEF Drain, domainVars
<1>2. /\ word'[f].cause = "armed" /\ word'[f].n # 0
      /\ \A g \in Fibers : g # f => word'[g] = word[g]
  <2>1. PICK r : r = [n |-> word[f].n + 1, cause |-> "armed"]
    OBVIOUS
  <2>2. word[f].n \in Nat
    BY WakeTypes DEF WaitWords, RestInv
  <2>3. r.n # 0 /\ r.cause = "armed"
    BY <2>1, <2>2
  <2>4. word' = [word EXCEPT ![f] = r]
    BY <1>1, <2>1
  <2>5. word \in [Fibers -> WaitWords]
    BY WakeTypes DEF RestInv
  <2>6. QED
    BY <2>3, <2>4, <2>5
<1>3. /\ code[f].at = "armed" /\ ctrl[f].phase = "waiting"
      /\ "armed" \in WaitSpots /\ "armed" \notin Looked
  <2>1. BodySound(f) /\ "armed" \in WaitSpots /\ "armed" \notin Looked
    BY DEF RestInv, WakeInv, BodiesSound, WaitSpots, Looked
  <2>2. QED
    BY <1>1, <2>1 DEF BodySound, At
<1>4. /\ Rooted' = Rooted
      /\ \A g \in Fibers : /\ Running(g)' <=> Running(g)
                           /\ g # f => (Armed(g)' <=> Armed(g)) /\ (Stored(g)' <=> Stored(g))
                           /\ Cancelled(g)' <=> Cancelled(g)
  BY <1>1, <1>2 DEF Rooted, Running, Armed, Stored, Cancelled
<1>5. ASSUME NEW g \in Fibers PROVE SpotSound(g)'
  <2>1. SpotSound(g)
    BY DEF RestInv, SpotsSound
  <2>2. CASE g = f
    BY <1>1, <1>2, <1>3, <1>4, <2>1, <2>2 DEF SpotSound
  <2>3. CASE g # f
    BY <1>1, <1>2, <1>4, <2>1, <2>3, SpotKept DEF SpotSound
  <2>4. QED
    BY <2>2, <2>3
<1>6. HeapTyped'
  <2>1. ASSUME NEW g \in Fibers, Armed(g)' PROVE word'[g].n # 0
    <3>1. CASE g = f
      BY <1>2, <3>1
    <3>2. CASE g # f
      BY <1>2, <1>4, <2>1, <3>2 DEF RestInv, HeapTyped
    <3>3. QED
      BY <3>1, <3>2
  <2>2. QED
    BY <1>1, <2>1 DEF RestInv, HeapTyped
<1>7. ASSUME NEW g \in Fibers PROVE Heard(g)'
  <2>1. Heard(g) /\ SpotSound(g)
    BY DEF RestInv, AllHeard, Heard, SpotsSound
  <2>2. CASE g = f
    BY <1>1, <1>3, <2>2 DEF Heard, CancelHeard, TimerHeard, JoinHeard, UnitHeard
  <2>3. CASE g # f
    BY <1>1, <1>2, <1>4, <2>1, <2>3, CancelKept, TimerKept, JoinKept, UnitKept DEF Heard, Linked
  <2>4. QED
    BY <2>2, <2>3
<1>8. EndsHeard' /\ Meeting'
  BY <1>1, EndsKept DEF RestInv, Meeting, Ended
<1>9. ShutHeard'
  BY <1>1, <1>4, RootsWithin, ShutKept DEF RestInv
<1>10. SpotsSound' /\ AllHeard'
  BY <1>5, <1>7 DEF SpotsSound, AllHeard, Heard
<1>11. QED
  BY <1>6, <1>8, <1>9, <1>10 DEF RestInv

LEMMA RestExpire == ASSUME RestInv, WakeInv', Expire PROVE RestInv'
<1>1. PICK f \in Fibers :
         /\ heap[f] # 0 /\ heap' = [heap EXCEPT ![f] = 0]
         /\ pump' = [task |-> f, n |-> heap[f]]
  BY DEF Expire
<1>2. /\ UNCHANGED <<ctrl, word, buffered, accepted, code, worker, joiners, unit>>
      /\ UNCHANGED <<roots, accepting, cancel>> /\ pump = NoEntry
  BY DEF Expire
<1>3. heap \in [Fibers -> Nat]
  BY DEF RestInv, HeapTyped
<1>4. /\ pump'.task = f /\ pump'.n = heap[f] /\ heap' \in [Fibers -> Nat]
      /\ \A g \in Fibers : g # f => heap'[g] = heap[g]
  BY <1>1, <1>3
<1>5. SpotsSound' /\ EndsHeard' /\ Meeting'
  BY <1>2 DEF RestInv, SpotsSound, SpotSound, EndsHeard, Meeting, Stored, Armed, Running,
              Rooted, Ended
<1>6. HeapTyped'
  BY <1>2, <1>4 DEF RestInv, HeapTyped, Armed
<1>7. ASSUME NEW g \in Fibers
      PROVE  CancelHeard(g)' /\ TimerHeard(g)' /\ JoinHeard(g)' /\ UnitHeard(g)'
  <2>1. CancelHeard(g) /\ TimerHeard(g) /\ JoinHeard(g) /\ UnitHeard(g)
    BY DEF RestInv, AllHeard
  <2>2. pump.task # g
    BY <1>2, FiberArgs DEF NoEntry
  <2>3. TimerHeard(g)'
    BY <1>2, <1>4, <2>1, <2>2 DEF TimerHeard, Armed
  <2>4. CancelHeard(g)' /\ JoinHeard(g)' /\ UnitHeard(g)'
    BY <1>2, <2>1 DEF CancelHeard, JoinHeard, UnitHeard, Armed, Cancelled, Linked
  <2>5. QED
    BY <2>3, <2>4
<1>8. ShutHeard'
  BY <1>2 DEF RestInv, ShutHeard, Rooted, Reached, Cancelled
<1>9. QED
  BY <1>5, <1>6, <1>7, <1>8 DEF RestInv, AllHeard

LEMMA RestSpawn == ASSUME RestInv, WakeInv', NEW f \in Fibers, Spawn(f) PROVE RestInv'
<1>1. /\ UNCHANGED <<ctrl, word, buffered, accepted, code, worker, heap, joiners, unit>>
      /\ UNCHANGED <<accepting, pump, cancel>> /\ accepting /\ roots' = Append(roots, f)
  BY DEF Spawn, Admits
<1>2. Rooted \subseteq Rooted'
  <2>1. PICK q \in Seq(Fibers) : q = roots
    BY DEF RestInv, WakeInv, PlaceInv, RootsTyped
  <2>2. PICK r : r = Append(q, f)
    OBVIOUS
  <2>3. \A i \in DOMAIN q : i \in DOMAIN r /\ r[i] = q[i]
    BY <2>2
  <2>4. roots' = r
    BY <1>1, <2>1, <2>2
  <2>5. QED
    BY <2>1, <2>3, <2>4 DEF Rooted
<1>3. SpotsSound'
  BY <1>1, <1>2 DEF RestInv, SpotsSound, SpotSound, Stored, Armed, Running
<1>4. EndsHeard' /\ Meeting' /\ HeapTyped'
  BY <1>1 DEF RestInv, EndsHeard, Meeting, HeapTyped, Ended, Armed
<1>5. AllHeard'
  BY <1>1 DEF RestInv, AllHeard, CancelHeard, TimerHeard, JoinHeard, UnitHeard, Armed, Cancelled, Linked
<1>6. ShutHeard'
  BY <1>1 DEF RestInv, ShutHeard
<1>7. QED
  BY <1>3, <1>4, <1>5, <1>6 DEF RestInv

LEMMA RestStep == ASSUME RestInv, [Next]_vars PROVE RestInv'
<1>1. WakeInv'
  BY WakeStep DEF RestInv
<1>2. CASE UNCHANGED vars
  BY <1>1, <1>2, RestUnchanged
<1>3. CASE Next
  <2>1. CASE TaskStep /\ UNCHANGED <<unit, domainVars>>
    BY <1>1, <2>1, RestDeliver, RestResume, RestSuspended, RestTerminate, RestWakeJoiners DEF TaskStep
  <2>2. CASE WaitStep /\ UNCHANGED domainVars
    BY <1>1, <2>2, RestBody, RestDrain, RestClaimFront, RestPosters DEF WaitStep
  <2>3. CASE TimerStep
    BY <1>1, <2>3, RestExpire, RestTimeOut DEF TimerStep
  <2>4. CASE ApplierStep
    BY <1>1, <2>4, RestShutdown, RestNextTask, RestAddCancel, RestAccept, RestCancelWait, RestRequest
       DEF ApplierStep
  <2>5. CASE \E f \in Fibers : Spawn(f)
    BY <1>1, <2>5, RestSpawn
  <2>6. QED
    BY <1>3, <2>1, <2>2, <2>3, <2>4, <2>5 DEF Next
<1>4. QED
  BY <1>2, <1>3

LEMMA RestInit == ASSUME Init PROVE RestInv
<1>1. WakeInv
  BY WakeInit
<1>2. \A f \in Fibers : /\ code[f] = Fresh /\ ctrl[f] = Unborn /\ word[f].cause = "none"
                        /\ heap[f] = 0 /\ joiners[f] = {} /\ ~Running(f)
  BY DEF Init, TaskInit, Running
<1>3. cancel.all = FALSE /\ heap \in [Fibers -> Nat]
  BY DEF Init, TaskInit, DomainInit
<1>4. /\ Fresh.at = "body" /\ Fresh.op.kind = "none"
      /\ Unborn.phase = "ready" /\ Unborn.park = 0
  BY DEF Fresh, NoOp, Unborn
<1>5. \A f \in Fibers : ~Armed(f) /\ ~Ended(f)
  BY <1>2, <1>4 DEF Armed, Ended
<1>6. SpotsSound
  BY <1>2, <1>4, <1>5 DEF SpotsSound, SpotSound, Terminal
<1>7. HeapTyped /\ AllHeard
  BY <1>3, <1>5 DEF HeapTyped, AllHeard, CancelHeard, TimerHeard, JoinHeard, UnitHeard
<1>8. EndsHeard /\ ShutHeard /\ Meeting
  BY <1>2, <1>3, <1>4, <1>5 DEF EndsHeard, ShutHeard, Meeting
<1>9. QED
  BY <1>1, <1>6, <1>7, <1>8 DEF RestInv

(* Where nothing is on its way, who is live waits, and is parked.          *)
LEMMA WhoWaits ==
    ASSUME RestInv, Settled, NEW f \in Live
    PROVE  /\ f \in Fibers /\ f \in Rooted /\ Armed(f) /\ code[f].at = "parked"
           /\ ctrl[f].phase = "waiting"
<1>1. f \in Rooted /\ f \in Fibers /\ f # None
  BY RootsWithin, FiberArgs DEF Live
<1>2. ~Held(f) /\ ~Running(f)
  BY <1>1 DEF Settled, RestInv, WakeInv, PlaceInv, OneWorker, Held, Running
<1>3. ctrl[f].phase # "terminated"
  BY <1>2 DEF Live, Held
<1>4. ctrl[f].park = 1
  <2>1. lane[f] = 0
    BY <1>1 DEF Settled
  <2>2. QED
    BY <1>1, <1>2, <1>3, <2>1 DEF RestInv, WakeInv, PlaceInv, Somewhere
<1>5. ctrl[f].phase = "waiting" /\ ctrl[f].wake = 0
  BY <1>1, <1>4 DEF RestInv, WakeInv, PlaceInv, Apart, Meeting
<1>6. code[f].at \notin WaitSpots /\ Stored(f)
  <2>1. BodySound(f) /\ "armed" \in WaitSpots
    BY <1>1 DEF RestInv, WakeInv, BodiesSound, WaitSpots
  <2>2. QED
    BY <1>2, <2>1 DEF BodySound, At, Stored
<1>7. ~Due(f)
  <2>1. \A t \in Threads : \A i : ~Owed(t, i, f)
    BY DEF Settled, Quiet, Owed
  <2>2. QED
    BY <1>1, <1>5, <2>1 DEF RestInv, WakeInv, DebtsSound
<1>8. SpotSound(f)
  BY <1>1 DEF RestInv, SpotsSound
<1>9. Armed(f)
  BY <1>5, <1>6, <1>7, <1>8 DEF SpotSound, Due, Armed
<1>10. QED
  BY <1>1, <1>5, <1>6, <1>8, <1>9 DEF SpotSound

LEMMA RestGivesEnd == ASSUME RestInv PROVE WaitsEnd
<1> SUFFICES ASSUME Settled
             PROVE  /\ cancel.all => Live = {}
                    /\ \A f \in Live :
                          /\ ~Cancelled(f) /\ ~code[f].op.timed
                          /\ code[f].op.kind = "join" => ~Ended(code[f].op.target)
  BY DEF WaitsEnd
<1>0. cancel.at = "idle" /\ pump.task = None
  BY DEF Settled, NoEntry
<1>1. ASSUME NEW f \in Live PROVE ~Cancelled(f)
  <2>1. CancelHeard(f) /\ Armed(f) /\ code[f].at = "parked" /\ "parked" \in Looked
    BY WhoWaits DEF RestInv, AllHeard, Looked
  <2>2. QED
    BY <1>0, <2>1 DEF CancelHeard
<1>2. ASSUME NEW f \in Live PROVE ~code[f].op.timed
  <2>1. TimerHeard(f) /\ Armed(f) /\ code[f].at = "parked" /\ f \in Fibers
    BY WhoWaits DEF RestInv, AllHeard
  <2>2. word[f].n # 0 /\ heap[f] = 0 /\ f # None
    BY <2>1, FiberArgs DEF RestInv, HeapTyped, Settled
  <2>3. QED
    BY <1>0, <2>1, <2>2 DEF TimerHeard
<1>3. ASSUME NEW f \in Live, code[f].op.kind = "join" PROVE ~Ended(code[f].op.target)
  <2>1. JoinHeard(f) /\ SpotSound(f) /\ Armed(f) /\ code[f].at = "parked"
    BY WhoWaits DEF RestInv, AllHeard, SpotsSound
  <2>2. PICK t \in Fibers : t = code[f].op.target
    BY <1>3, <2>1 DEF SpotSound
  <2>3. joiners[t] # {}
    BY <1>3, <2>1, <2>2 DEF JoinHeard
  <2>4. \A w \in Workers : worker[w].at # "joiners"
    BY DEF Settled
  <2>5. QED
    BY <2>2, <2>3, <2>4 DEF RestInv, EndsHeard
<1>4. ASSUME cancel.all PROVE Live = {}
  <2>1. ASSUME NEW f \in Live PROVE FALSE
    <3>1. Reached(f)
      BY <1>4, WhoWaits DEF RestInv, ShutHeard
    <3>2. ctrl[f].phase \notin Terminal
      BY WhoWaits DEF Terminal
    <3>3. QED
      BY <1>0, <1>1, <3>1, <3>2 DEF Reached
  <2>2. QED
    BY <2>1
<1>5. QED
  BY <1>1, <1>2, <1>3, <1>4

(* When nothing is on its way, whoever still waits was not cancelled, set  *)
(* no deadline and joins no task that has ended, and a shutdown that       *)
(* cancels has ended every task it admitted, for any number of fibers,     *)
(* workers and posters (armWait's fence, registerManagedJoinWaiter,        *)
(* armTimer, beginShutdown).                                               *)
THEOREM EveryWaitEnds == Spec => []WaitsEnd
<1>1. Init => RestInv
  BY RestInit
<1>2. RestInv /\ [Next]_vars => RestInv'
  BY RestStep
<1>3. RestInv => WaitsEnd
  BY RestGivesEnd
<1>4. QED
  BY <1>1, <1>2, <1>3, PTL DEF Spec

-----------------------------------------------------------------------------
(* Why no unit is lost: each has a wake or a look that is on its way.      *)

(* A waiter some post has claimed, that has yet to look for a unit or to   *)
(* pass its wake on; and the wakes that are to be handed out.              *)
TrySpot(f) ==
    \/ code[f].at \in {"retake", "timer", "parked", "take", "failed", "passOn"}
    \/ code[f].at = "withdraw" /\ code[f].next \in {"taken", "failed"}
Trying(f) == word[f].cause = "signalled" /\ code[f].op.kind = "unit" /\ TrySpot(f)
Tries == {f \in Fibers : Trying(f)}
Wakes == {d \in Threads \X (1 .. 2) : d[2] <= waker[d[1]].limit}

(* A waiter that has found no unit since it was linked.                    *)
Waits(f) == Armed(f) /\ code[f].op.kind = "unit" /\ code[f].at \in {"timer", "parked"}

QueueUnits == \A f \in Fibers : Linked(f) => code[f].op.kind = "unit"
Limits == (\A t \in Threads : waker[t].limit \in 0 .. 2) /\ IsFiniteSet(Wakes)
UnitsHeard ==
    ~unit.spent /\ (\E f \in Fibers : Waits(f)) =>
        unit.units <= Cardinality(Wakes) + Cardinality(Tries)

UnitInv == RestInv /\ QueueUnits /\ Limits /\ UnitsHeard

-----------------------------------------------------------------------------
(* Counting.                                                               *)
LEMMA TriesFinite == IsFiniteSet(Tries) /\ Cardinality(Tries) \in Nat
<1>1. Tries \subseteq Fibers /\ IsFiniteSet(Fibers)
  BY FiberArgs DEF Tries
<1> HIDE DEF Tries
<1>2. QED
  BY <1>1, FS_Subset, FS_CardinalityType

LEMMA TriesFinite2 == IsFiniteSet(Tries') /\ Cardinality(Tries') \in Nat
<1>1. Tries' \subseteq Fibers /\ IsFiniteSet(Fibers)
  BY FiberArgs DEF Tries
<1> HIDE DEF Tries
<1>2. QED
  BY <1>1, FS_Subset, FS_CardinalityType

LEMMA CountWithin ==
    ASSUME NEW S, NEW T, IsFiniteSet(T), S \subseteq T
    PROVE  /\ IsFiniteSet(S) /\ Cardinality(S) \in Nat /\ Cardinality(T) \in Nat
           /\ Cardinality(S) <= Cardinality(T)
  BY FS_Subset, FS_CardinalityType

LEMMA CountLess ==
    ASSUME NEW S, NEW T, NEW x, IsFiniteSet(T), S \ {x} \subseteq T
    PROVE  /\ IsFiniteSet(S) /\ Cardinality(S) \in Nat /\ Cardinality(T) \in Nat
           /\ Cardinality(S) <= Cardinality(T) + 1
<1>1. IsFiniteSet(T \cup {x}) /\ Cardinality(T \cup {x}) <= Cardinality(T) + 1 /\ Cardinality(T) \in Nat
  BY FS_AddElement, FS_CardinalityType
<1>2. S \subseteq T \cup {x}
  OBVIOUS
<1>3. IsFiniteSet(S) /\ Cardinality(S) \in Nat /\ Cardinality(S) <= Cardinality(T \cup {x})
      /\ Cardinality(T \cup {x}) \in Nat
  BY <1>1, <1>2, CountWithin
<1>4. QED
  BY <1>1, <1>3

LEMMA CountMore ==
    ASSUME NEW S, NEW T, NEW x, IsFiniteSet(T), S \cup {x} \subseteq T, x \notin S
    PROVE  /\ IsFiniteSet(S) /\ Cardinality(S) \in Nat /\ Cardinality(T) \in Nat
           /\ Cardinality(S) + 1 <= Cardinality(T)
<1>1. IsFiniteSet(S) /\ Cardinality(S) \in Nat
  BY CountWithin
<1>2. IsFiniteSet(S \cup {x}) /\ Cardinality(S \cup {x}) = Cardinality(S) + 1
  BY <1>1, FS_AddElement
<1>3. Cardinality(S \cup {x}) <= Cardinality(T) /\ Cardinality(T) \in Nat
  BY CountWithin
<1>4. QED
  BY <1>1, <1>2, <1>3

LEMMA CountTwice ==
    ASSUME NEW S, NEW T, NEW x, NEW y, IsFiniteSet(T), S \cup {x, y} \subseteq T,
           x \notin S, y \notin S, x # y
    PROVE  Cardinality(S) + 2 <= Cardinality(T)
<1>1. IsFiniteSet(S \cup {x})
  BY CountWithin
<1>2. IsFiniteSet(S) /\ Cardinality(S) \in Nat /\ Cardinality(S) + 1 <= Cardinality(S \cup {x})
      /\ Cardinality(S \cup {x}) \in Nat
  BY <1>1, CountMore
<1>3. Cardinality(S \cup {x}) + 1 <= Cardinality(T) /\ Cardinality(T) \in Nat
  BY CountMore
<1>4. QED
  BY <1>2, <1>3

LEMMA FiniteMore ==
    ASSUME NEW S, NEW T, NEW x, NEW y, IsFiniteSet(S), T \subseteq S \cup {x, y}
    PROVE  IsFiniteSet(T)
<1>1. IsFiniteSet(S \cup {x})
  BY FS_AddElement
<1>2. IsFiniteSet((S \cup {x}) \cup {y})
  BY <1>1, FS_AddElement
<1>3. T \subseteq (S \cup {x}) \cup {y}
  OBVIOUS
<1>4. QED
  BY <1>2, <1>3, FS_Subset

(* The wakes of a thread.                                                  *)
LEMMA WakesOf ==
    ASSUME NEW t \in Threads, NEW i \in 1 .. 2
    PROVE  <<t, i>> \in Wakes <=> i <= waker[t].limit
  BY DEF Wakes

LEMMA WakesPairs ==
    ASSUME NEW d \in Wakes
    PROVE  /\ d[1] \in Threads /\ d[2] \in 1 .. 2 /\ d = <<d[1], d[2]>>
           /\ d[2] <= waker[d[1]].limit
  BY DEF Wakes

LEMMA WakesSame ==
    ASSUME \A t \in Threads : waker'[t].limit = waker[t].limit
    PROVE  Wakes' = Wakes
  BY DEF Wakes

LEMMA WakesGrow ==
    ASSUME Limits, NEW t \in Threads, waker[t].limit = 0, NEW n \in 1 .. 2, waker'[t].limit = n,
           \A u \in Threads : u # t => waker'[u].limit = waker[u].limit
    PROVE  /\ Limits' /\ Cardinality(Wakes) \in Nat /\ Cardinality(Wakes') \in Nat
           /\ Cardinality(Wakes) + n <= Cardinality(Wakes')
<1>1. PICK W : W = Wakes
  OBVIOUS
<1>2. PICK V : V = Wakes'
  OBVIOUS
<1>3. \A d \in V : d \in W \/ d = <<t, 1>> \/ d = <<t, 2>>
  BY <1>1, <1>2 DEF Wakes
<1>4. /\ <<t, 1>> \notin W /\ <<t, 2>> \notin W /\ <<t, 1>> # <<t, 2>>
      /\ <<t, 1>> \in V /\ (n = 2 => <<t, 2>> \in V)
  BY <1>1, <1>2 DEF Wakes
<1>5. W \subseteq V
  BY <1>1, <1>2 DEF Wakes
<1>6. IsFiniteSet(W)
  BY <1>1 DEF Limits
<1>7. IsFiniteSet(V)
  <2>1. V \subseteq W \cup {<<t, 1>>, <<t, 2>>}
    BY <1>3
  <2>2. QED
    BY <1>6, <2>1, FiniteMore
<1>8. /\ Cardinality(W) \in Nat /\ Cardinality(V) \in Nat
      /\ Cardinality(W) + 1 <= Cardinality(V)
  BY <1>4, <1>5, <1>7, CountMore
<1>9. n = 2 => Cardinality(W) + 2 <= Cardinality(V)
  BY <1>4, <1>5, <1>7, CountTwice
<1>10. Cardinality(W) + n <= Cardinality(V)
  BY <1>8, <1>9
<1>11. \A u \in Threads : waker'[u].limit \in 0 .. 2
  BY DEF Limits
<1>12. QED
  BY <1>1, <1>2, <1>7, <1>8, <1>10, <1>11 DEF Limits

LEMMA LimitsKept ==
    ASSUME Limits, \A t \in Threads : waker'[t].limit = waker[t].limit
    PROVE  Limits' /\ Wakes' = Wakes /\ Cardinality(Wakes) \in Nat
<1>1. Wakes' = Wakes
  BY WakesSame
<1>2. Cardinality(Wakes) \in Nat
  BY FS_CardinalityType DEF Limits
<1>3. QED
  BY <1>1, <1>2 DEF Limits

-----------------------------------------------------------------------------
(* Units, waits and looks in the steps of a body.                          *)
LEMMA OwnerFields ==
    ASSUME NEW Q, NEW u \in Owners(Q), NEW n, NEW m, NEW k, NEW q
    PROVE  /\ [u EXCEPT !.units = n].units = n /\ [u EXCEPT !.units = n].spent = u.spent
           /\ [u EXCEPT !.units = n, !.granted = m].units = n
           /\ [u EXCEPT !.units = n, !.granted = m].spent = u.spent
           /\ [u EXCEPT !.units = n, !.given = m, !.posts = k].units = n
           /\ [u EXCEPT !.units = n, !.given = m, !.posts = k].spent = u.spent
           /\ [u EXCEPT !.queue = q].units = u.units /\ [u EXCEPT !.queue = q].spent = u.spent
           /\ [u EXCEPT !.queue = q, !.granted = m].units = u.units
           /\ [u EXCEPT !.queue = q, !.granted = m].spent = u.spent
           /\ [u EXCEPT !.spent = n].units = u.units /\ [u EXCEPT !.spent = n].spent = n
  BY DEF Owners

LEMMA UnitsNat ==
    ASSUME WakeInv
    PROVE  unit.units \in Nat /\ unit.spent \in BOOLEAN /\ \E Q : unit \in Owners(Q)
  BY UnitTyped DEF WakeInv, Owners

(* What a step of f may do to units and wakes.                             *)
Steady(f) ==
    unit'.units <= unit.units /\ waker' = waker /\ (Trying(f) => Trying(f)')
Takes == unit'.units + 1 <= unit.units /\ waker' = waker
Passes(w, f) ==
    /\ waker' = [waker EXCEPT ![w].limit = 1]
    /\ unit'.units <= (IF Trying(f) THEN unit.units ELSE unit.units + 1)
BodyUnits(w, f) ==
    /\ \/ (unit'.units = 0 \/ unit'.spent) /\ waker' = waker
       \/ (Waits(f)' => Waits(f)) /\ (Steady(f) \/ Takes \/ Passes(w, f))
    /\ unit.spent => unit'.spent

(* The places in which a body neither waits nor tries.                     *)
LEMMA IdleSpots ==
    ASSUME NEW f \in Fibers,
           code[f].at \in {"body", "throw", "yield", "poll", "check", "last", "armed", "link",
                           "register", "taken", "refund"}
    PROVE  ~Trying(f) /\ ~Waits(f)
  BY DEF Trying, TrySpot, Waits

LEMMA LeftSpots ==
    ASSUME NEW f \in Fibers, code'[f].at \notin {"timer", "parked"}
    PROVE  ~Waits(f)'
  BY DEF Waits

LEMMA UnitsStill ==
    ASSUME WakeInv, NEW w, NEW f \in Fibers, unit' = unit, waker' = waker,
           Trying(f) => Trying(f)', Waits(f)' => Waits(f)
    PROVE  BodyUnits(w, f)
<1>1. unit.units \in Nat
  BY UnitsNat
<1>2. QED
  BY <1>1 DEF BodyUnits, Steady

LEMMA UnitsBody1 ==
    ASSUME RestInv, NEW w \in Workers, NEW f \in Fibers,
           \/ Body(w, f) \/ Throw(w, f) \/ YieldReady(w, f) \/ Poll(w, f) \/ Arm(w, f)
           \/ Armable(w, f)
    PROVE  BodyUnits(w, f)
<1> USE DEF Keeps, At, Fail
<1>0. code \in [Fibers -> Codes] /\ WakeInv
  BY WakeTypes DEF RestInv
<1>1. unit' = unit /\ waker' = waker
  BY DEF Body, Throw, YieldReady, Poll, Arm, Armable, OnlyCode
<1>2. ~Trying(f)
  <2>1. code[f].at \in {"body", "throw", "yield", "poll", "check", "armed"}
    BY DEF Body, Throw, YieldReady, Poll, Arm, Armable
  <2>2. QED
    BY <2>1, IdleSpots
<1>3. \A p \in {"done", "body", "check", "armed", "link", "register", "parked"} : p \in Spots
  BY DEF Spots, Reasons
<1>4. CASE YieldReady(w, f)
  <2>1. Runs(w, f) /\ code[f].at = "yield"
    BY <1>4 DEF YieldReady
  <2>2. ~Armed(f)
    BY <1>0, <2>1, BodyBefore DEF WaitSpots
  <2>3. word' = word
    BY <1>4 DEF YieldReady
  <2>4. ~Waits(f)'
    BY <2>2, <2>3 DEF Waits, Armed
  <2>5. QED
    BY <1>0, <1>1, <1>2, <2>4, UnitsStill
<1>5. CASE ~YieldReady(w, f)
  <2>1. code'[f].at \notin {"timer", "parked"}
    <3>1. CASE Body(w, f)
      <4>1. CASE Goto(f, "done")
        BY <1>0, <1>3, <4>1, GotoEffect
      <4>2. CASE ~Goto(f, "done")
        <5>1. PICK o \in Does[f] :
                 code' = [code EXCEPT ![f] = [@ EXCEPT !.at = First[o.kind], !.op = o,
                                                       !.turns = code[f].turns + 1]]
          BY <3>1, <4>2 DEF Body
        <5>2. QED
          BY <1>0, <5>1, BodyCode
      <4>3. QED
        BY <4>1, <4>2
    <3>2. CASE Throw(w, f)
      BY <1>0, <1>3, <3>2, GotoEffect DEF Throw
    <3>3. CASE Poll(w, f)
      <4>1. PICK p \in {"body", "check"} : Goto(f, p)
        BY <3>3 DEF Poll
      <4>2. QED
        BY <1>0, <1>3, <4>1, GotoEffect
    <3>4. CASE Arm(w, f)
      <4>1. PICK p \in {"done", "body", "armed"} : Goto(f, p)
        BY <3>4 DEF Arm
      <4>2. QED
        BY <1>0, <1>3, <4>1, GotoEffect
    <3>5. CASE Armable(w, f)
      <4>1. CASE Cancelled(f)
        <5>1. Backout(f, "throw") /\ "throw" \in Reasons
          BY <3>5, <4>1 DEF Armable, Reasons
        <5>2. QED
          BY <1>0, <5>1, BackoutEffect
      <4>2. CASE ~Cancelled(f)
        <5>1. PICK p \in {"link", "register"} : Goto(f, p)
          BY <3>5, <4>2 DEF Armable
        <5>2. QED
          BY <1>0, <1>3, <5>1, GotoEffect
      <4>3. QED
        BY <4>1, <4>2
    <3>6. QED
      BY <1>5, <3>1, <3>2, <3>3, <3>4, <3>5
  <2>2. QED
    BY <1>0, <1>1, <1>2, <2>1, LeftSpots, UnitsStill
<1>6. QED
  BY <1>4, <1>5

LEMMA UnitsTake ==
    ASSUME RestInv, NEW w \in Workers, NEW f \in Fibers, TryTake(w, f)
    PROVE  BodyUnits(w, f)
<1> USE DEF Keeps, At
<1>0. code \in [Fibers -> Codes] /\ unit.units \in Nat /\ unit.spent \in BOOLEAN
  BY WakeTypes, UnitsNat DEF RestInv
<1>00. PICK Q : unit \in Owners(Q)
  BY WakeTypes DEF RestInv
<1>1. waker' = waker
  BY DEF TryTake, Take1
<1>2. PICK p \in {"body", "check"} : Goto(f, p)
  BY DEF TryTake, Take1
<1>3. ~Waits(f)'
  <2>1. p \in Spots
    BY DEF Spots
  <2>2. code'[f].at \notin {"timer", "parked"}
    BY <1>0, <1>2, <2>1, GotoEffect
  <2>3. QED
    BY <2>2, LeftSpots
<1>4. CASE Available
  <2>1. PICK m : unit' = [unit EXCEPT !.units = UnitsAfterTake, !.granted = m]
    BY <1>4 DEF TryTake, Take1
  <2>2. unit'.units = UnitsAfterTake /\ unit'.spent = unit.spent
    BY <1>00, <2>1, OwnerFields
  <2>3. Takes
    BY <1>0, <1>1, <2>2 DEF Takes, UnitsAfterTake
  <2>4. QED
    BY <1>3, <2>2, <2>3 DEF BodyUnits
<1>5. CASE ~Available
  <2>1. unit' = unit
    BY <1>5 DEF TryTake, Take1
  <2>2. unit.units = 0
    BY <1>0, <1>5 DEF Available
  <2>3. unit'.units = 0 /\ unit'.spent = unit.spent
    BY <2>1, <2>2
  <2>4. QED
    BY <1>1, <2>3 DEF BodyUnits
<1>6. QED
  BY <1>4, <1>5

LEMMA UnitsWait ==
    ASSUME RestInv, NEW w \in Workers, NEW f \in Fibers,
           Link(w, f) \/ Retake(w, f) \/ Register(w, f)
    PROVE  BodyUnits(w, f)
<1> USE DEF Keeps, At
<1>0. code \in [Fibers -> Codes] /\ unit.units \in Nat /\ WakeInv
  BY WakeTypes, UnitsNat DEF RestInv
<1>00. PICK Q : unit \in Owners(Q)
  BY WakeTypes DEF RestInv
<1>1. waker' = waker
  BY DEF Link, Retake, Register
<1>2. \A p \in {"retake", "timer", "parked"} : p \in Spots /\ p \notin {"body", "throw", "done"}
  BY DEF Spots
<1>3. "taken" \in Reasons /\ "poll" \in Reasons
  BY DEF Reasons
<1>4. CASE Link(w, f)
  <2>1. ~Trying(f)
    BY <1>4, IdleSpots DEF Link
  <2>2. ~Waits(f)'
    <3>1. code'[f].at = "retake"
      BY <1>0, <1>2, <1>4, GotoEffect DEF Link
    <3>2. QED
      BY <3>1, LeftSpots
  <2>3. unit'.units = unit.units /\ unit'.spent = unit.spent
    BY <1>4, <1>00, OwnerFields DEF Link
  <2>4. QED
    BY <1>0, <1>1, <2>1, <2>2, <2>3 DEF BodyUnits, Steady
<1>5. CASE Retake(w, f)
  <2>1. CASE Available
    <3>1. Backout(f, "taken") /\ unit' = [unit EXCEPT !.units = UnitsAfterTake]
      BY <1>5, <2>1 DEF Retake
    <3>2. code'[f].at = "withdraw"
      BY <1>0, <1>3, <3>1, BackoutEffect
    <3>3. unit'.units = UnitsAfterTake /\ unit'.spent = unit.spent
      BY <1>00, <3>1, OwnerFields
    <3>4. Takes
      BY <1>0, <1>1, <3>3 DEF Takes, UnitsAfterTake
    <3>5. QED
      BY <3>2, <3>3, <3>4, LeftSpots DEF BodyUnits
  <2>2. CASE ~Available
    <3>1. unit' = unit
      BY <1>5, <2>2 DEF Retake
    <3>2. unit.units = 0
      BY <1>0, <2>2 DEF Available
    <3>3. unit'.units = 0 /\ unit'.spent = unit.spent
      BY <3>1, <3>2
    <3>4. QED
      BY <1>1, <3>3 DEF BodyUnits
  <2>3. QED
    BY <2>1, <2>2
<1>6. CASE Register(w, f)
  <2>1. ~Trying(f)
    BY <1>6, IdleSpots DEF Register
  <2>2. code[f].op.kind # "unit"
    BY <1>6 DEF Register, RestInv, SpotsSound, SpotSound
  <2>3. code'[f].op = code[f].op
    <3>1. CASE Backout(f, "poll")
      BY <1>0, <3>1, BackoutOp
    <3>2. CASE GoOn(w, f)
      <4>1. PICK p \in {"timer", "parked"} : Goto(f, p)
        BY <3>2 DEF GoOn
      <4>2. QED
        BY <1>0, <1>2, <4>1, GotoOp
    <3>3. QED
      BY <1>6, <3>1, <3>2 DEF Register
  <2>4. unit' = unit /\ ~Waits(f)'
    BY <1>6, <2>2, <2>3 DEF Register, Waits
  <2>5. QED
    BY <1>0, <1>1, <2>1, <2>4, UnitsStill
<1>7. QED
  BY <1>4, <1>5, <1>6

LEMMA UnitsTimer ==
    ASSUME RestInv, NEW w \in Workers, NEW f \in Fibers, ArmTimer(w, f)
    PROVE  BodyUnits(w, f)
<1> USE DEF Keeps, At
<1>0. code \in [Fibers -> Codes] /\ WakeInv
  BY WakeTypes DEF RestInv
<1>1. unit' = unit /\ waker' = waker /\ word' = word /\ code[f].at = "timer"
  BY DEF ArmTimer
<1>2. /\ code'[f].op = code[f].op
      /\ code'[f].at = "parked" \/ (code'[f].at = "withdraw" /\ code'[f].next = "failed")
  <2>1. CASE Backout(f, "failed")
    <3>1. "failed" \in Reasons
      BY DEF Reasons
    <3>2. QED
      BY <1>0, <2>1, <3>1, BackoutEffect, BackoutOp
  <2>2. CASE Goto(f, "parked")
    <3>1. "parked" \in Spots /\ "parked" \notin {"body", "throw", "done"}
      BY DEF Spots
    <3>2. QED
      BY <1>0, <2>2, <3>1, GotoEffect, GotoOp
  <2>3. QED
    BY <2>1, <2>2 DEF ArmTimer
<1>3. Trying(f) => Trying(f)'
  BY <1>1, <1>2 DEF Trying, TrySpot
<1>4. Waits(f)' => Waits(f)
  BY <1>1, <1>2 DEF Waits, Armed
<1>5. QED
  BY <1>0, <1>1, <1>3, <1>4, UnitsStill

LEMMA UnitsWithdraw ==
    ASSUME RestInv, NEW w \in Workers, NEW f \in Fibers, Withdraw(w, f)
    PROVE  BodyUnits(w, f)
<1> USE DEF Keeps, At
<1>0. /\ code \in [Fibers -> Codes] /\ unit.units \in Nat /\ unit.spent \in BOOLEAN
      /\ word \in [Fibers -> WaitWords]
  BY WakeTypes, UnitsNat DEF RestInv
<1>00. PICK Q : unit \in Owners(Q)
  BY WakeTypes DEF RestInv
<1>1. waker' = waker /\ code[f].at = "withdraw"
  BY DEF Withdraw
<1>2. PICK p \in Reasons : p = code[f].next /\ Goto(f, p)
  BY <1>0 DEF Withdraw, Codes
<1>3. code'[f].at = p
  BY <1>0, <1>2, GotoEffect DEF Spots
<1>4. ~Waits(f)'
  <2>1. p \notin {"timer", "parked"}
    BY DEF Reasons, None
  <2>2. QED
    BY <1>3, <2>1, LeftSpots
<1>5. PICK b \in BOOLEAN : b <=> unit.spent \/ (p = "taken" /\ word[f].cause = "signalled")
  OBVIOUS
<1>6. unit'.units = unit.units /\ (unit'.spent <=> b)
  <2>1. unit' = [unit EXCEPT !.spent = unit.spent \/ (code[f].next = "taken" /\ word[f].cause = "signalled")]
    BY DEF Withdraw
  <2>2. QED
    BY <1>00, <1>2, <1>5, <2>1, OwnerFields
<1>7. CASE p = "taken" /\ word[f].cause = "signalled"
  BY <1>1, <1>5, <1>6, <1>7 DEF BodyUnits
<1>8. CASE ~(p = "taken" /\ word[f].cause = "signalled")
  <2>1. Trying(f) => Trying(f)'
    <3>1. SUFFICES ASSUME Trying(f) PROVE Trying(f)'
      OBVIOUS
    <3>2. word[f].cause = "signalled" /\ code[f].op.kind = "unit" /\ p = "failed"
      BY <1>1, <1>2, <1>8, <3>1 DEF Trying, TrySpot
    <3>3. word' = word
      BY <3>2 DEF Withdraw, Armed
    <3>4. code'[f].op = code[f].op
      BY <1>0, <1>2, <3>2, GotoOp
    <3>5. QED
      BY <1>3, <3>2, <3>3, <3>4 DEF Trying, TrySpot
  <2>2. Steady(f)
    BY <1>0, <1>1, <1>6, <2>1 DEF Steady
  <2>3. QED
    BY <1>4, <1>5, <1>6, <2>2 DEF BodyUnits
<1>9. QED
  BY <1>7, <1>8

LEMMA UnitsWoke ==
    ASSUME RestInv, NEW w \in Workers, NEW f \in Fibers, Woke(w, f) \/ TimerFailed(w, f)
    PROVE  BodyUnits(w, f)
<1> USE DEF Keeps, At
<1>0. code \in [Fibers -> Codes] /\ unit.units \in Nat
  BY WakeTypes, UnitsNat DEF RestInv
<1>00. PICK Q : unit \in Owners(Q)
  BY WakeTypes DEF RestInv
<1>1. waker' = waker /\ word' = word
  BY DEF Woke, TimerFailed
<1>2. unit'.units = unit.units /\ unit'.spent = unit.spent
  <2>1. unit' = [unit EXCEPT !.queue = Without(f)]
    BY DEF Woke, TimerFailed, Unlink
  <2>2. QED
    BY <1>00, <2>1, OwnerFields
<1>3. \A p \in {"passOn", "done", "last", "take", "poll", "body"} :
         p \in Spots /\ p \notin {"timer", "parked"}
  BY DEF Spots, Reasons
<1>4. PICK p \in {"passOn", "done", "last", "take", "poll", "body"} :
         Goto(f, p) /\ (Owes(f) => p \in {"passOn", "take"})
  <2>1. CASE TimerFailed(w, f)
    BY <2>1 DEF TimerFailed, Fail
  <2>2. CASE Woke(w, f)
    <3>1. CASE Cancelled(f)
      BY <2>2, <3>1 DEF Woke, Fail
    <3>2. CASE ~Cancelled(f) /\ word[f].cause = "timedOut" /\ code[f].op.kind = "unit"
      BY <2>2, <3>2 DEF Woke, Owes
    <3>3. CASE ~Cancelled(f) /\ word[f].cause # "timedOut" /\ code[f].op.kind = "unit"
      BY <2>2, <3>3 DEF Woke, Owes
    <3>4. CASE ~Cancelled(f) /\ word[f].cause # "timedOut" /\ code[f].op.kind = "join"
      BY <2>2, <3>4 DEF Woke, Owes
    <3>5. CASE /\ ~Cancelled(f) /\ code[f].op.kind # "unit"
               /\ word[f].cause = "timedOut" \/ code[f].op.kind # "join"
      BY <2>2, <3>5 DEF Woke, Owes
    <3>6. QED
      BY <3>1, <3>2, <3>3, <3>4, <3>5
  <2>3. QED
    BY <2>1, <2>2
<1>5. code'[f].at = p
  BY <1>0, <1>3, <1>4, GotoEffect
<1>6. ~Waits(f)'
  BY <1>3, <1>5, LeftSpots
<1>7. Trying(f) => Trying(f)'
  <2>1. SUFFICES ASSUME Trying(f) PROVE Trying(f)'
    OBVIOUS
  <2>2. word[f].cause = "signalled" /\ code[f].op.kind = "unit" /\ p \in {"passOn", "take"}
    BY <1>4, <2>1 DEF Trying, Owes
  <2>3. code'[f].op = code[f].op
    BY <1>0, <1>4, <2>2, GotoOp
  <2>4. QED
    BY <1>1, <1>5, <2>2, <2>3 DEF Trying, TrySpot
<1>8. QED
  BY <1>0, <1>1, <1>2, <1>6, <1>7 DEF BodyUnits, Steady

LEMMA UnitsAfter ==
    ASSUME RestInv, NEW w \in Workers, NEW f \in Fibers,
           PassOn(w, f) \/ Keep(w, f) \/ Refund(w, f)
    PROVE  BodyUnits(w, f)
<1> USE DEF Keeps, At
<1>0. code \in [Fibers -> Codes] /\ unit.units \in Nat /\ unit.spent \in BOOLEAN
  BY WakeTypes, UnitsNat DEF RestInv
<1>00. PICK Q : unit \in Owners(Q)
  BY WakeTypes DEF RestInv
<1>1. ~Waits(f)'
  <2>1. PICK p \in {"throw", "refund", "body"} : Goto(f, p)
    BY DEF PassOn, Keep, GivesBack, Refund
  <2>2. p \in Spots
    BY DEF Spots, Reasons
  <2>3. code'[f].at \notin {"timer", "parked"}
    BY <1>0, <2>1, <2>2, GotoEffect
  <2>4. QED
    BY <2>3, LeftSpots
<1>2. CASE PassOn(w, f)
  <2>1. unit' = unit
    BY <1>2 DEF PassOn
  <2>2. CASE Available
    <3>1. waker' = [waker EXCEPT ![w].limit = 1]
      BY <1>2, <2>2 DEF PassOn
    <3>2. Passes(w, f)
      BY <1>0, <2>1, <3>1 DEF Passes
    <3>3. QED
      BY <1>1, <2>1, <3>2 DEF BodyUnits
  <2>3. CASE ~Available
    <3>1. waker' = waker
      BY <1>2, <2>3 DEF PassOn
    <3>2. unit.units = 0
      BY <1>0, <2>3 DEF Available
    <3>3. unit'.units = 0 /\ unit'.spent = unit.spent
      BY <2>1, <3>2
    <3>4. QED
      BY <3>1, <3>3 DEF BodyUnits
  <2>4. QED
    BY <2>2, <2>3
<1>3. CASE Keep(w, f)
  <2>1. waker' = waker /\ ~Trying(f)
    BY <1>3, IdleSpots DEF Keep, GivesBack
  <2>2. unit'.units = unit.units /\ unit'.spent = unit.spent
    <3>1. PICK m : unit' = [unit EXCEPT !.queue = Without(f), !.granted = m]
      BY <1>3 DEF Keep, GivesBack
    <3>2. QED
      BY <1>00, <3>1, OwnerFields
  <2>3. QED
    BY <1>0, <1>1, <2>1, <2>2 DEF BodyUnits, Steady
<1>4. CASE Refund(w, f)
  <2>1. waker' = [waker EXCEPT ![w].limit = 1] /\ ~Trying(f)
    BY <1>4, IdleSpots DEF Refund
  <2>2. unit'.units = UnitsAfterPost(1) /\ unit'.spent = unit.spent
    BY <1>4, <1>00, OwnerFields DEF Refund
  <2>3. unit'.units <= unit.units + 1
    BY <1>0, <2>2 DEF UnitsAfterPost
  <2>4. QED
    BY <1>1, <2>1, <2>2, <2>3 DEF BodyUnits, Passes
<1>5. QED
  BY <1>2, <1>3, <1>4

LEMMA UnitsBody ==
    ASSUME RestInv, NEW w \in Workers, NEW f \in Fibers, FiberStep(w, f)
    PROVE  BodyUnits(w, f)
  BY UnitsBody1, UnitsTake, UnitsWait, UnitsTimer, UnitsWithdraw, UnitsWoke, UnitsAfter DEF FiberStep

(* A step of f leaves the other fibers' waits and looks alone.             *)
LEMMA OthersTry ==
    ASSUME NEW f \in Fibers,
           \A g \in Fibers : g # f => code'[g] = code[g] /\ word'[g] = word[g]
    PROVE  /\ Tries \ {f} \subseteq Tries'
           /\ (Trying(f) => Trying(f)') => Tries \subseteq Tries'
           /\ \A g \in Fibers : g # f /\ Waits(g)' => Waits(g)
<1>1. ASSUME NEW g \in Fibers, g # f PROVE (Trying(g) => Trying(g)') /\ (Waits(g)' => Waits(g))
  BY <1>1 DEF Trying, TrySpot, Waits, Armed
<1>2. \A g : (g \in Tries <=> g \in Fibers /\ Trying(g)) /\ (g \in Tries' <=> g \in Fibers /\ Trying(g)')
  BY DEF Tries
<1>3. QED
  BY <1>1, <1>2

LEMMA UnitsHeardBody ==
    ASSUME UnitInv, WakeInv', NEW w \in Workers, NEW f \in Fibers, FiberStep(w, f)
    PROVE  Limits' /\ UnitsHeard'
<1>0. /\ RestInv /\ Limits /\ UnitsHeard
      /\ unit.units \in Nat /\ unit'.units \in Nat
      /\ waker \in [Threads -> [limit : Nat, owed : Seq(Fibers)]]
  <2>1. RestInv /\ Limits /\ UnitsHeard /\ WakeInv
    BY DEF UnitInv, RestInv
  <2>2. unit'.units \in Nat
    BY DEF WakeInv, PermitInv, BodiesTyped, Owners
  <2>3. QED
    BY <2>1, <2>2, UnitsNat, WakeTypes
<1>1. BodyUnits(w, f) /\ BodyWakes(w, f) /\ Runs(w, f)
  BY <1>0, UnitsBody, BodyWakesAll DEF RestInv
<1>2. \A g \in Fibers : g # f => code'[g] = code[g] /\ word'[g] = word[g]
  BY <1>1 DEF BodyWakes
<1>3. /\ Tries \ {f} \subseteq Tries'
      /\ (Trying(f) => Trying(f)') => Tries \subseteq Tries'
      /\ \A g \in Fibers : g # f /\ Waits(g)' => Waits(g)
  BY <1>2, OthersTry
<1>4. w \in Threads /\ waker[w].limit = 0
  BY <1>1, ThreadsApart DEF Runs, Quiet
<1> DEFINE T == Cardinality(Tries)
           U == Cardinality(Tries')
           W == Cardinality(Wakes)
           V == Cardinality(Wakes')
<1>5. T \in Nat /\ U \in Nat /\ T <= U + 1 /\ ((Trying(f) => Trying(f)') => T <= U)
      /\ (~Trying(f) => T <= U)
  <2>1. IsFiniteSet(Tries') /\ IsFiniteSet(Tries)
    BY TriesFinite, TriesFinite2
  <2>2. PICK S : S = Tries
    OBVIOUS
  <2>3. PICK R : R = Tries'
    OBVIOUS
  <2>4. Cardinality(S) \in Nat /\ Cardinality(R) \in Nat /\ Cardinality(S) <= Cardinality(R) + 1
    BY <1>3, <2>1, <2>2, <2>3, CountLess
  <2>5. S \subseteq R => Cardinality(S) <= Cardinality(R)
    BY <2>1, <2>3, CountWithin
  <2>6. QED
    BY <1>3, <2>2, <2>3, <2>4, <2>5
<1>6. CASE waker' = waker
  <2>1. Limits' /\ V = W /\ W \in Nat
    BY <1>0, <1>6, LimitsKept
  <2>2. CASE unit'.units = 0 \/ unit'.spent
    <3>1. V + U \in Nat
      BY <1>5, <2>1
    <3>2. unit'.units = 0 => unit'.units <= V + U
      BY <3>1
    <3>3. QED
      BY <2>1, <2>2, <3>2 DEF UnitsHeard
  <2>3. CASE (Waits(f)' => Waits(f)) /\ (Steady(f) \/ Takes)
    <3>1. unit'.units + T <= unit.units + U
      BY <1>0, <1>5, <2>3 DEF Steady, Takes
    <3>2. (\E g \in Fibers : Waits(g)') => \E g \in Fibers : Waits(g)
      BY <1>3, <2>3
    <3>3. ~unit'.spent => ~unit.spent
      BY <1>1 DEF BodyUnits
    <3>4. unit.units <= W + T => unit'.units <= V + U
      BY <1>0, <1>5, <2>1, <3>1
    <3>5. QED
      BY <1>0, <2>1, <3>2, <3>3, <3>4 DEF UnitsHeard
  <2>4. CASE Passes(w, f)
    <3>1. waker'[w].limit = 1
      BY <1>0, <1>4, <2>4 DEF Passes
    <3>2. QED
      BY <1>4, <1>6, <3>1
  <2>5. QED
    BY <1>1, <2>2, <2>3, <2>4 DEF BodyUnits
<1>7. CASE waker' # waker
  <2>1. Passes(w, f) /\ (Waits(f)' => Waits(f)) /\ (~unit'.spent => ~unit.spent)
    BY <1>1, <1>7 DEF BodyUnits, Steady, Takes
  <2>2. waker'[w].limit = 1 /\ \A u \in Threads : u # w => waker'[u].limit = waker[u].limit
    BY <1>0, <1>4, <2>1 DEF Passes
  <2>3. Limits' /\ W \in Nat /\ V \in Nat /\ W + 1 <= V
    BY <1>0, <1>4, <2>2, WakesGrow
  <2>4. unit'.units + T <= unit.units + U + 1
    <3>1. CASE Trying(f)
      BY <1>0, <1>5, <2>1, <3>1 DEF Passes
    <3>2. CASE ~Trying(f)
      BY <1>0, <1>5, <2>1, <3>2 DEF Passes
    <3>3. QED
      BY <3>1, <3>2
  <2>5. (\E g \in Fibers : Waits(g)') => \E g \in Fibers : Waits(g)
    BY <1>3, <2>1
  <2>6. unit.units <= W + T => unit'.units <= V + U
    BY <1>0, <1>5, <2>3, <2>4
  <2>7. QED
    BY <1>0, <2>1, <2>3, <2>5, <2>6 DEF UnitsHeard
<1>8. QED
  BY <1>6, <1>7

(* A body keeps its operation until the wait is over.                      *)
LEMMA OpStays ==
    ASSUME RestInv, NEW w \in Workers, NEW f \in Fibers, FiberStep(w, f)
    PROVE  \/ code'[f].op = code[f].op
           \/ code'[f].at \in {"body", "throw", "done", "take", "poll", "yield"}
<1> USE DEF Keeps, Fail
<1>0. code \in [Fibers -> Codes]
  BY WakeTypes DEF RestInv
<1>1. ASSUME NEW p \in Spots, Goto(f, p)
      PROVE  code'[f].op = code[f].op \/ code'[f].at \in {"body", "throw", "done"}
  BY <1>0, <1>1, GotoEffect, GotoOp
<1>2. ASSUME NEW why, Backout(f, why)
      PROVE  code'[f].op = code[f].op
  BY <1>0, <1>2, BackoutOp
<1>3. \A p \in {"done", "parked", "body", "check", "last", "take", "poll", "link", "register",
                "armed", "retake", "timer", "throw", "passOn", "refund"} : p \in Spots
  BY DEF Spots, Reasons
<1>4. CASE Body(w, f)
  <2>1. CASE Goto(f, "done")
    BY <1>1, <1>3, <2>1
  <2>2. CASE ~Goto(f, "done")
    <3>1. PICK o \in Does[f] :
             code' = [code EXCEPT ![f] = [@ EXCEPT !.at = First[o.kind], !.op = o,
                                                   !.turns = code[f].turns + 1]]
      BY <1>4, <2>2 DEF Body
    <3>2. QED
      BY <1>0, <3>1, BodyCode
  <2>3. QED
    BY <2>1, <2>2
<1>5. CASE Withdraw(w, f)
  <2>1. code[f].next \in Spots
    BY <1>0 DEF Codes, Spots
  <2>2. QED
    BY <1>1, <1>5, <2>1 DEF Withdraw
<1>6. CASE ~Body(w, f) /\ ~Withdraw(w, f)
  <2>1. \/ \E p \in {"done", "parked", "body", "check", "last", "take", "poll", "link", "register",
                    "armed", "retake", "timer", "throw", "passOn", "refund"} : Goto(f, p)
        \/ \E why : Backout(f, why)
    <3>1. CASE Throw(w, f) \/ YieldReady(w, f) \/ TryTake(w, f) \/ Poll(w, f)
      BY <3>1 DEF Throw, YieldReady, TryTake, Take1, Poll
    <3>2. CASE Arm(w, f) \/ Armable(w, f) \/ Link(w, f)
      BY <3>2 DEF Arm, Armable, Link
    <3>3. CASE Retake(w, f) \/ Register(w, f) \/ ArmTimer(w, f)
      BY <3>3 DEF Retake, Register, ArmTimer, GoOn
    <3>4. CASE Woke(w, f)
      <4>1. CASE Cancelled(f)
        BY <3>4, <4>1 DEF Woke
      <4>2. CASE ~Cancelled(f) /\ word[f].cause = "timedOut" /\ code[f].op.kind = "unit"
        BY <3>4, <4>2 DEF Woke
      <4>3. CASE ~Cancelled(f) /\ word[f].cause # "timedOut" /\ code[f].op.kind = "unit"
        BY <3>4, <4>3 DEF Woke
      <4>4. CASE ~Cancelled(f) /\ word[f].cause # "timedOut" /\ code[f].op.kind = "join"
        BY <3>4, <4>4 DEF Woke
      <4>5. CASE /\ ~Cancelled(f) /\ code[f].op.kind # "unit"
                 /\ word[f].cause = "timedOut" \/ code[f].op.kind # "join"
        BY <3>4, <4>5 DEF Woke
      <4>6. QED
        BY <4>1, <4>2, <4>3, <4>4, <4>5
    <3>5. CASE TimerFailed(w, f) \/ PassOn(w, f) \/ Keep(w, f) \/ Refund(w, f)
      BY <3>5 DEF TimerFailed, PassOn, Keep, GivesBack, Refund
    <3>6. QED
      BY <1>6, <3>1, <3>2, <3>3, <3>4, <3>5 DEF FiberStep
  <2>2. QED
    BY <1>1, <1>2, <1>3, <2>1
<1>7. QED
  BY <1>4, <1>5, <1>6

(* Only who waits for a unit is linked.                                    *)
LEMMA UnitsQueuedBody ==
    ASSUME UnitInv, WakeInv', NEW w \in Workers, NEW f \in Fibers, FiberStep(w, f)
    PROVE  QueueUnits'
<1> USE DEF Keeps, At
<1>0. RestInv /\ WakeInv /\ QueueUnits /\ code \in [Fibers -> Codes]
  BY WakeTypes DEF UnitInv, RestInv
<1>1. BodyWakes(w, f) /\ QueueGrows(f)
  BY <1>0, BodyWakesAll, BodyQueue
<1>2. ASSUME NEW g \in Fibers, Linked(g)', g # f PROVE Linked(g)
  <2>1. PICK q \in Seq(Fibers) : q = unit.queue
    BY <1>0, WakeTypes
  <2>2. PICK r : r = unit'.queue
    OBVIOUS
  <2>3. PICK i \in DOMAIN r : r[i] = g
    BY <1>2, <2>2 DEF Linked
  <2>4. \E j \in DOMAIN q : q[j] = g
    <3>1. CASE r = q
      BY <2>3, <3>1
    <3>2. CASE r = Append(q, f)
      BY <1>2, <2>3, <3>2
    <3>3. CASE r = Without(f)
      <4>1. QueueSound
        BY <1>0 DEF WakeInv
      <4>2. QED
        BY <2>1, <2>3, <3>3, <4>1, WithoutQueued DEF QueueSound
    <3>4. QED
      BY <1>1, <2>1, <2>2, <3>1, <3>2, <3>3 DEF QueueGrows
  <2>5. QED
    BY <2>1, <2>4 DEF Linked
<1>3. ASSUME Linked(f)' PROVE code'[f].op.kind = "unit"
  <2>1. LinkedSpot(f)'
    BY <1>3 DEF WakeInv, QueueSound, Linked
  <2>2. code'[f].at \notin {"body", "throw", "done", "take", "poll", "yield"}
    BY <2>1 DEF LinkedSpot
  <2>3. code'[f].op = code[f].op
    BY <1>0, <2>2, OpStays
  <2>5. CASE code[f].at = "link"
    BY <1>0, <2>3, <2>5 DEF RestInv, SpotsSound, SpotSound
  <2>6. CASE code[f].at # "link"
    <3>1. unit'.queue = unit.queue
      <4>1. CASE unit'.queue = Without(f)
        <5>1. ~Linked(f)'
          BY <1>0, <4>1, WithoutQueued DEF WakeInv, QueueSound, Linked
        <5>2. QED
          BY <1>3, <5>1
      <4>2. QED
        BY <1>0, <2>6, <4>1, BodyQueue
    <3>2. Linked(f)
      BY <1>3, <3>1 DEF Linked
    <3>3. QED
      BY <1>0, <2>3, <3>2 DEF QueueUnits
  <2>4. QED
    BY <2>5, <2>6
<1>4. QED
  BY <1>1, <1>2, <1>3, <1>0 DEF QueueUnits, BodyWakes

-----------------------------------------------------------------------------
(* The steps that are not of a body: no place changes, and a wait is       *)
(* claimed at most.                                                        *)
LEMMA ClaimsTry ==
    ASSUME code' = code,
           \A g \in Fibers : word'[g] = word[g] \/ Armed(g) \/ code[g].at = "armed",
           \A g \in Fibers : Armed(g)' => Armed(g) \/ code[g].at = "armed"
    PROVE  Tries \subseteq Tries' /\ \A g \in Fibers : Waits(g)' => Waits(g)
<1>1. ASSUME NEW g \in Fibers, Trying(g) PROVE Trying(g)'
  <2>1. ~Armed(g) /\ code[g].at # "armed"
    BY <1>1 DEF Trying, TrySpot, Armed
  <2>2. word'[g] = word[g]
    BY <2>1
  <2>3. QED
    BY <1>1, <2>2 DEF Trying, TrySpot
<1>2. ASSUME NEW g \in Fibers, Waits(g)' PROVE Waits(g)
  BY <1>2 DEF Waits
<1>3. \A g : (g \in Tries <=> g \in Fibers /\ Trying(g)) /\ (g \in Tries' <=> g \in Fibers /\ Trying(g)')
  BY DEF Tries
<1>4. QED
  BY <1>1, <1>2, <1>3

LEMMA TriesGrow ==
    ASSUME Tries \subseteq Tries'
    PROVE  /\ Cardinality(Tries) \in Nat /\ Cardinality(Tries') \in Nat
           /\ Cardinality(Tries) <= Cardinality(Tries')
<1>1. PICK S : S = Tries
  OBVIOUS
<1>2. PICK R : R = Tries'
  OBVIOUS
<1>3. IsFiniteSet(R) /\ S \subseteq R
  BY <1>1, <1>2, TriesFinite2
<1>4. QED
  BY <1>1, <1>2, <1>3, CountWithin

(* The owner and the limits stay as they are.                              *)
LEMMA UnitsAside ==
    ASSUME UnitInv, code' = code, unit' = unit,
           \A g \in Fibers : word'[g] = word[g] \/ Armed(g) \/ code[g].at = "armed",
           \A g \in Fibers : Armed(g)' => Armed(g) \/ code[g].at = "armed",
           \A t \in Threads : waker'[t].limit = waker[t].limit
    PROVE  QueueUnits' /\ Limits' /\ UnitsHeard'
<1>1. Limits' /\ Wakes' = Wakes /\ Cardinality(Wakes) \in Nat
  BY LimitsKept DEF UnitInv
<1>2. /\ Cardinality(Tries) \in Nat /\ Cardinality(Tries') \in Nat
      /\ Cardinality(Tries) <= Cardinality(Tries')
      /\ \A g \in Fibers : Waits(g)' => Waits(g)
  BY ClaimsTry, TriesGrow
<1>3. unit.units \in Nat
  BY UnitsNat DEF UnitInv, RestInv
<1>4. Cardinality(Wakes') = Cardinality(Wakes)
  BY <1>1
<1>5. unit.units <= Cardinality(Wakes) + Cardinality(Tries)
         => unit.units <= Cardinality(Wakes') + Cardinality(Tries')
  BY <1>1, <1>2, <1>3, <1>4
<1>6. UnitsHeard'
  BY <1>2, <1>5 DEF UnitInv, UnitsHeard
<1>7. QueueUnits'
  BY DEF UnitInv, QueueUnits, Linked
<1>8. QED
  BY <1>1, <1>6, <1>7

LEMMA UnitsUnchanged ==
    ASSUME UnitInv, UNCHANGED <<word, code, waker, unit>>
    PROVE  QueueUnits' /\ Limits' /\ UnitsHeard'
  BY UnitsAside DEF Armed

LEMMA UnitsTask ==
    ASSUME UnitInv, TaskStep, UNCHANGED <<unit, domainVars>>
    PROVE  QueueUnits' /\ Limits' /\ UnitsHeard'
<1>0. /\ waker \in [Threads -> [limit : Nat, owed : Seq(Fibers)]] /\ word \in [Fibers -> WaitWords]
      /\ joiners \in [Fibers -> SUBSET Fibers]
  BY WakeTypes DEF UnitInv, RestInv
<1>1. ASSUME NEW t \in Threads, NEW s, waker' = [waker EXCEPT ![t].owed = s]
      PROVE  \A u \in Threads : waker'[u].limit = waker[u].limit
  BY <1>0, <1>1
<1>2. ASSUME NEW t \in Threads, Deliver(t)
      PROVE  QueueUnits' /\ Limits' /\ UnitsHeard'
  <2>1. UNCHANGED <<word, code>> /\ waker' = [waker EXCEPT ![t].owed = Tail(waker[t].owed)]
    BY <1>2 DEF Deliver
  <2>2. \A u \in Threads : waker'[u].limit = waker[u].limit
    BY <1>1, <2>1
  <2>3. QED
    BY <2>1, <2>2, UnitsAside DEF Armed
<1>3. ASSUME NEW w \in Workers, Resume(w) \/ Suspended(w) \/ Terminate(w)
      PROVE  QueueUnits' /\ Limits' /\ UnitsHeard'
  BY <1>3, UnitsUnchanged DEF Resume, Suspended, Terminate
<1>4. ASSUME NEW w \in Workers, WakeJoiners(w)
      PROVE  QueueUnits' /\ Limits' /\ UnitsHeard'
  <2>1. PICK F : F = {j \in joiners[worker[w].task] : Armed(j)}
    OBVIOUS
  <2>2. code' = code /\ word' = Claimed(F, "signalled") /\ waker' = [waker EXCEPT ![w].owed = SetToSeq(F)]
    BY <1>4, <2>1 DEF WakeJoiners
  <2>3. \A g \in Fibers : word'[g] = word[g] \/ (Armed(g) /\ word'[g].cause = "signalled")
    BY <1>0, <2>1, <2>2 DEF Claimed, WaitWords
  <2>4. \A u \in Threads : waker'[u].limit = waker[u].limit
    BY <1>1, <2>2, ThreadsApart
  <2>5. \A g \in Fibers : Armed(g)' => Armed(g)
    BY <2>3 DEF Armed
  <2>6. QED
    BY <2>2, <2>3, <2>4, <2>5, UnitsAside
<1>5. QED
  BY <1>2, <1>3, <1>4 DEF TaskStep

LEMMA UnitsClaimWait ==
    ASSUME UnitInv, NEW t \in Threads, NEW f \in Fibers, NEW n, NEW cause \in Causes,
           ClaimWait(t, f, n, cause)
    PROVE  QueueUnits' /\ Limits' /\ UnitsHeard'
<1>0. /\ waker \in [Threads -> [limit : Nat, owed : Seq(Fibers)]] /\ word \in [Fibers -> WaitWords]
  BY WakeTypes DEF UnitInv, RestInv
<1>1. code' = code /\ unit' = unit
  BY DEF ClaimWait
<1>2. CASE Names(f, n)
  <2>1. Armed(f) /\ word' = Claimed({f}, cause) /\ waker' = [waker EXCEPT ![t].owed = <<f>>]
    BY <1>2 DEF ClaimWait, Names, Armed
  <2>2. \A g \in Fibers : word'[g] = word[g] \/ (Armed(g) /\ word'[g].cause = cause)
    BY <1>0, <2>1 DEF Claimed, WaitWords
  <2>3. \A u \in Threads : waker'[u].limit = waker[u].limit
    BY <1>0, <2>1
  <2>4. \A g \in Fibers : Armed(g)' => Armed(g)
    BY <2>2 DEF Armed
  <2>5. QED
    BY <1>1, <2>2, <2>3, <2>4, UnitsAside
<1>3. CASE ~Names(f, n)
  BY <1>1, <1>3, UnitsUnchanged DEF ClaimWait
<1>4. QED
  BY <1>2, <1>3

LEMMA UnitsDomain ==
    ASSUME UnitInv, TimerStep \/ ApplierStep \/ \E f \in Fibers : Spawn(f)
    PROVE  QueueUnits' /\ Limits' /\ UnitsHeard'
<1>0. WakesTyped
  BY DEF UnitInv, RestInv, WakeInv
<1>1. CASE TimeOut
  <2>1. pump.task \in Fibers
    BY <1>0, <1>1 DEF TimeOut, WakesTyped
  <2>2. QED
    BY <1>1, <2>1, UnitsClaimWait, ThreadsApart DEF TimeOut, Causes
<1>2. CASE CancelWait
  <2>1. cancel.task \in Fibers
    BY <1>0, <1>2 DEF CancelWait, WakesTyped
  <2>2. QED
    BY <1>2, <2>1, UnitsClaimWait, ThreadsApart DEF CancelWait, Causes
<1>3. CASE Expire \/ BeginShutdown \/ NextTask \/ AddCancel \/ Accept
  <2>1. UNCHANGED <<word, code, waker, unit>>
    BY <1>3 DEF Expire, BeginShutdown, NextTask, AddCancel, Accept, OnlyCancel, taskVars
  <2>2. QED
    BY <2>1, UnitsUnchanged
<1>4. ASSUME NEW f \in Fibers, Request(f) \/ Spawn(f)
      PROVE  UNCHANGED <<word, code, waker, unit>>
  BY <1>4 DEF Request, Spawn, OnlyCancel
<1>5. QED
  BY <1>1, <1>2, <1>3, <1>4, UnitsUnchanged DEF TimerStep, ApplierStep

LEMMA UnitsDrain ==
    ASSUME UnitInv, NEW f \in Fibers, Drain(f)
    PROVE  QueueUnits' /\ Limits' /\ UnitsHeard'
<1>1. code[f].at = "armed"
  BY DEF UnitInv, RestInv, WakeInv, BodiesSound, BodySound, Drain, At
<1>2. word \in [Fibers -> WaitWords]
  BY WakeTypes DEF UnitInv, RestInv
<1>3. \A g \in Fibers : g # f => word'[g] = word[g]
  BY <1>2 DEF Drain
<1>4. \A g \in Fibers : word'[g] = word[g] \/ code[g].at = "armed"
  BY <1>1, <1>3
<1>5. \A g \in Fibers : Armed(g)' => Armed(g) \/ code[g].at = "armed"
  BY <1>4 DEF Armed
<1>6. UNCHANGED <<code, waker, unit>>
  BY DEF Drain
<1>7. QED
  BY <1>4, <1>5, <1>6, UnitsAside

(* post, set and reset: as many wakes as units.                            *)
LEMMA UnitsPost ==
    ASSUME UnitInv, WakeInv', NEW p \in Posters, Post(p) \/ Reset(p)
    PROVE  QueueUnits' /\ Limits' /\ UnitsHeard'
<1>0. /\ WakeInv /\ Limits /\ UnitsHeard /\ p \in Threads
      /\ waker \in [Threads -> [limit : Nat, owed : Seq(Fibers)]]
  BY WakeTypes, ThreadsApart DEF UnitInv, RestInv
<1>00. /\ unit.units \in Nat /\ unit'.units \in Nat
  <2>1. unit'.units \in Nat
    BY DEF WakeInv, PermitInv, BodiesTyped, Owners
  <2>2. QED
    BY <1>0, <2>1, UnitsNat
<1>000. PICK Q : unit \in Owners(Q)
  BY <1>0, UnitsNat
<1>1. code' = code /\ word' = word
  BY DEF Post, Reset, taskVars
<1>2. /\ Cardinality(Tries) \in Nat /\ Cardinality(Tries') \in Nat
      /\ Cardinality(Tries) <= Cardinality(Tries')
      /\ \A g \in Fibers : Waits(g)' => Waits(g)
  BY <1>1, ClaimsTry, TriesGrow DEF Armed
<1>3. unit'.queue = unit.queue => QueueUnits'
  BY <1>1 DEF UnitInv, QueueUnits, Linked
<1>4. CASE Reset(p)
  <2>1. unit'.units = 0 /\ unit'.queue = unit.queue /\ waker' = waker
    BY <1>4, <1>000, OwnerFields, QueueFields DEF Reset, taskVars
  <2>2. Limits' /\ Wakes' = Wakes /\ Cardinality(Wakes) \in Nat
    BY <1>0, <2>1, LimitsKept
  <2>3. Cardinality(Wakes') \in Nat
    BY <2>2
  <2>4. UnitsHeard'
    BY <1>2, <2>1, <2>3 DEF UnitsHeard
  <2>5. QED
    BY <1>3, <2>1, <2>2, <2>4
<1>5. CASE Post(p)
  <2>1. PICK n \in 1 .. 2 :
           /\ unit' = [unit EXCEPT !.units = UnitsAfterPost(n), !.given = @ + n, !.posts = @ + 1]
           /\ waker' = [waker EXCEPT ![p].limit = n]
           /\ unit.kind = "event" => n = 1
    BY <1>5 DEF Post
  <2>2. /\ unit'.units = UnitsAfterPost(n) /\ unit'.spent = unit.spent
        /\ unit'.queue = unit.queue
    BY <1>000, <2>1, OwnerFields, QueueFields
  <2>3. waker[p].limit = 0
    BY <1>5 DEF Post, Quiet
  <2>4. waker'[p].limit = n /\ \A u \in Threads : u # p => waker'[u].limit = waker[u].limit
    BY <1>0, <2>1
  <2>5. /\ Limits' /\ Cardinality(Wakes) \in Nat /\ Cardinality(Wakes') \in Nat
        /\ Cardinality(Wakes) + n <= Cardinality(Wakes')
    BY <1>0, <2>3, <2>4, WakesGrow
  <2>6. unit'.units <= unit.units + n
    BY <1>00, <2>2 DEF UnitsAfterPost
  <2>7. unit.units <= Cardinality(Wakes) + Cardinality(Tries)
           => unit'.units <= Cardinality(Wakes') + Cardinality(Tries')
    BY <1>00, <1>2, <2>5, <2>6
  <2>8. UnitsHeard'
    BY <1>0, <1>2, <2>2, <2>7 DEF UnitsHeard
  <2>9. QED
    BY <1>3, <2>2, <2>5, <2>8
<1>6. QED
  BY <1>4, <1>5

-----------------------------------------------------------------------------
(* claimFront: every wake claims a waiter, or none is left.                *)
LEMMA WinnersTry ==
    ASSUME UnitInv, NEW limit \in Nat, NEW won, won = Winners(limit), code' = code,
           word' = Claimed({won[i] : i \in DOMAIN won}, "signalled"), NEW k \in DOMAIN won
    PROVE  won[k] \in Fibers /\ ~Trying(won[k]) /\ Trying(won[k])'
<1>1. PICK q \in Seq(Fibers) : q = unit.queue
  BY WakeTypes DEF UnitInv, RestInv
<1>2. QueueSound /\ word \in [Fibers -> WaitWords]
  BY WakeTypes DEF UnitInv, RestInv, WakeInv
<1>3. won \in Seq(Fibers) /\ \A i \in DOMAIN won : Armed(won[i])
  BY <1>1, <1>2, WinnersArmed DEF QueueSound
<1>4. PICK a \in Fibers : a = won[k]
  BY <1>3, LenProperties
<1>5. Armed(a)
  BY <1>3, <1>4
<1>6. Linked(a)
  <2>1. PICK n : n = Cardinality(Claimable)
    OBVIOUS
  <2>2. n \in Nat /\ \A j \in 1 .. n : Nth(j) \in Claimable
    BY <1>1, <2>1, ClaimableFinite
  <2>3. won = [j \in 1 .. (IF n < limit THEN n ELSE limit) |-> unit.queue[Nth(j)]]
    BY <2>1 DEF Winners
  <2>4. k \in 1 .. n /\ won[k] = unit.queue[Nth(k)]
    BY <2>2, <2>3
  <2>5. Nth(k) \in DOMAIN unit.queue
    BY <2>2, <2>4 DEF Claimable, Members
  <2>6. QED
    BY <1>4, <2>4, <2>5 DEF Linked
<1>7. code[a].op.kind = "unit" /\ TrySpot(a)
  <2>1. LinkedSpot(a) /\ code[a].op.kind = "unit"
    BY <1>2, <1>6 DEF UnitInv, QueueUnits, QueueSound, Linked
  <2>2. code[a].at # "taken"
    BY <1>5 DEF UnitInv, RestInv, SpotsSound, SpotSound, WaitSpots
  <2>3. QED
    BY <2>1, <2>2 DEF LinkedSpot, TrySpot
<1>8. word'[a].cause = "signalled"
  <2>1. a \in {won[i] : i \in DOMAIN won}
    BY <1>4
  <2>2. QED
    BY <1>2, <2>1 DEF Claimed, WaitWords
<1>9. Trying(a)'
  BY <1>7, <1>8 DEF Trying, TrySpot
<1>10. ~Trying(a)
  BY <1>5 DEF Trying, Armed
<1>11. QED
  BY <1>4, <1>9, <1>10

LEMMA WakesGiven ==
    ASSUME Limits, NEW t \in Threads, NEW limit \in 1 .. 2, limit = waker[t].limit,
           waker'[t].limit = 0, \A u \in Threads : u # t => waker'[u].limit = waker[u].limit
    PROVE  /\ Limits' /\ Cardinality(Wakes) \in Nat /\ Cardinality(Wakes') \in Nat
           /\ Cardinality(Wakes) <= Cardinality(Wakes') + limit
<1>1. PICK W : W = Wakes
  OBVIOUS
<1>2. PICK V : V = Wakes'
  OBVIOUS
<1>3. V \subseteq W
  BY <1>1, <1>2 DEF Wakes
<1>4. IsFiniteSet(W) /\ IsFiniteSet(V)
  BY <1>1, <1>3, FS_Subset DEF Limits
<1>5. /\ \A d \in W : d \in V \/ d = <<t, 1>> \/ d = <<t, 2>>
      /\ limit = 1 => <<t, 2>> \notin W
  BY <1>1, <1>2 DEF Wakes
<1>6. CASE limit = 1
  <2>1. W \ {<<t, 1>>} \subseteq V
    BY <1>5, <1>6
  <2>2. QED
    <3>1. /\ Cardinality(W) \in Nat /\ Cardinality(V) \in Nat
          /\ Cardinality(W) <= Cardinality(V) + 1
      BY <1>4, <2>1, CountLess
    <3>2. Limits'
      BY <1>2, <1>4 DEF Limits
    <3>3. QED
      BY <1>1, <1>2, <1>6, <3>1, <3>2
<1>7. CASE limit = 2
  <2>1. PICK M : M = W \ {<<t, 1>>}
    OBVIOUS
  <2>2. M \ {<<t, 2>>} \subseteq V /\ W \ {<<t, 1>>} \subseteq M
    BY <1>5, <2>1
  <2>3. /\ IsFiniteSet(M) /\ Cardinality(M) \in Nat /\ Cardinality(V) \in Nat
        /\ Cardinality(M) <= Cardinality(V) + 1
    BY <1>4, <2>2, CountLess
  <2>4. Cardinality(W) \in Nat /\ Cardinality(W) <= Cardinality(M) + 1
    BY <2>2, <2>3, CountLess
  <2>5. Limits'
    BY <1>2, <1>4 DEF Limits
  <2>6. QED
    BY <1>1, <1>2, <1>7, <2>3, <2>4, <2>5
<1>8. QED
  BY <1>6, <1>7

LEMMA UnitsClaimFront ==
    ASSUME UnitInv, RestInv', NEW t \in Threads, ClaimFront(t)
    PROVE  QueueUnits' /\ Limits' /\ UnitsHeard'
<1>0. /\ RestInv /\ Limits /\ UnitsHeard /\ QueueUnits /\ QueueSound
      /\ waker \in [Threads -> [limit : Nat, owed : Seq(Fibers)]] /\ word \in [Fibers -> WaitWords]
      /\ unit.units \in Nat
  BY WakeTypes, UnitsNat DEF UnitInv, RestInv, WakeInv
<1>00. PICK Q : unit \in Owners(Q)
  BY <1>0, UnitsNat DEF RestInv
<1>1. PICK limit \in 1 .. 2 : limit = waker[t].limit /\ limit \in Nat /\ limit > 0
  BY <1>0 DEF ClaimFront, Limits
<1>2. PICK won : won = Winners(limit)
  OBVIOUS
<1>3. PICK left : left = Behind(limit)
  OBVIOUS
<1>4. PICK F : F = {won[i] : i \in DOMAIN won}
  OBVIOUS
<1>5. /\ word' = Claimed(F, "signalled") /\ unit' = [unit EXCEPT !.queue = left]
      /\ waker' = [waker EXCEPT ![t].limit = 0, ![t].owed = won] /\ code' = code
  BY <1>1, <1>2, <1>3, <1>4 DEF ClaimFront
<1>6. unit'.queue = left /\ unit'.units = unit.units /\ unit'.spent = unit.spent
  BY <1>00, <1>5, OwnerFields, QueueFields
<1>7. waker'[t].limit = 0 /\ \A u \in Threads : u # t => waker'[u].limit = waker[u].limit
  BY <1>0, <1>5
<1>8. /\ Limits' /\ Cardinality(Wakes) \in Nat /\ Cardinality(Wakes') \in Nat
      /\ Cardinality(Wakes) <= Cardinality(Wakes') + limit
  BY <1>0, <1>1, <1>7, WakesGiven
<1>9. won \in Seq(Fibers) /\ \A i \in DOMAIN won : Armed(won[i])
  BY <1>0, <1>1, <1>2, WinnersArmed DEF QueueSound
<1>10. \A g \in Fibers : word'[g] = word[g] \/ (Armed(g) /\ word'[g].cause = "signalled")
  BY <1>0, <1>4, <1>5, <1>9 DEF Claimed, WaitWords
<1>11. Tries \subseteq Tries' /\ \A g \in Fibers : Waits(g)' => Waits(g)
  BY <1>5, <1>10, ClaimsTry DEF Armed
<1>12. QueueUnits'
  <2>1. \A i \in DOMAIN left : \E j \in DOMAIN unit.queue : left[i] = unit.queue[j]
    BY <1>0, <1>1, <1>3, BehindQueued DEF QueueSound
  <2>2. \A g \in Fibers : Linked(g)' => Linked(g)
    BY <1>6, <2>1 DEF Linked
  <2>3. QED
    BY <1>0, <1>5, <2>2 DEF QueueUnits
<1>13. PICK n \in Nat : n = Cardinality(Claimable)
  BY <1>0, ClaimableFinite DEF QueueSound
<1>14. CASE n < limit
  <2>1. left = <<>>
    BY <1>3, <1>13, <1>14 DEF Behind
  <2>2. \A g \in Fibers : ~Linked(g)'
    BY <1>6, <2>1 DEF Linked
  <2>3. \A g \in Fibers : ~Waits(g)'
    BY <2>2 DEF RestInv, AllHeard, UnitHeard, Waits
  <2>4. QED
    BY <1>8, <1>12, <2>3 DEF UnitsHeard
<1>15. CASE limit <= n
  <2>1. DOMAIN won = 1 .. limit
    BY <1>2, <1>13, <1>15 DEF Winners
  <2>2. \A i, j \in DOMAIN won : won[i] = won[j] => i = j
    BY <1>0, <1>1, <1>2, WinnersArmed DEF QueueSound
  <2>3. \A k \in DOMAIN won : won[k] \in Fibers /\ ~Trying(won[k]) /\ Trying(won[k])'
    BY <1>1, <1>2, <1>4, <1>5, WinnersTry
  <2>4. PICK S : S = Tries
    OBVIOUS
  <2>5. PICK R : R = Tries'
    OBVIOUS
  <2>6. \A k \in 1 .. limit : won[k] \notin S /\ won[k] \in R
    BY <2>1, <2>3, <2>4, <2>5 DEF Tries
  <2>7. IsFiniteSet(R) /\ S \subseteq R
    BY <1>11, <2>4, <2>5, TriesFinite2
  <2>8. /\ Cardinality(S) \in Nat /\ Cardinality(R) \in Nat
        /\ Cardinality(S) + 1 <= Cardinality(R)
    <3>1. won[1] \notin S /\ won[1] \in R
      BY <2>6
    <3>2. QED
      BY <2>7, <3>1, CountMore
  <2>9. limit = 2 => Cardinality(S) + 2 <= Cardinality(R)
    <3>1. SUFFICES ASSUME limit = 2 PROVE Cardinality(S) + 2 <= Cardinality(R)
      OBVIOUS
    <3>2. /\ won[1] \notin S /\ won[1] \in R /\ won[2] \notin S /\ won[2] \in R
          /\ won[1] # won[2]
      BY <2>1, <2>2, <2>6, <3>1
    <3>3. QED
      BY <2>7, <3>2, CountTwice
  <2>10. Cardinality(S) + limit <= Cardinality(R)
    BY <2>8, <2>9
  <2>11. unit.units <= Cardinality(Wakes) + Cardinality(S)
            => unit.units <= Cardinality(Wakes') + Cardinality(R)
    BY <1>0, <1>8, <2>8, <2>10
  <2>12. UnitsHeard'
    BY <1>0, <1>6, <1>11, <2>4, <2>5, <2>11 DEF UnitsHeard
  <2>13. QED
    BY <1>8, <1>12, <2>12
<1>16. QED
  BY <1>13, <1>14, <1>15

LEMMA UnitStep == ASSUME UnitInv, [Next]_vars PROVE UnitInv'
<1>1. RestInv' /\ WakeInv'
  <2>1. RestInv'
    BY RestStep DEF UnitInv
  <2>2. QED
    BY <2>1 DEF RestInv
<1>2. QueueUnits' /\ Limits' /\ UnitsHeard'
  <2>1. CASE UNCHANGED vars
    BY <2>1, UnitsUnchanged DEF vars, taskVars
  <2>2. CASE TaskStep /\ UNCHANGED <<unit, domainVars>>
    BY <2>2, UnitsTask
  <2>3. CASE WaitStep /\ UNCHANGED domainVars
    BY <1>1, <2>3, UnitsHeardBody, UnitsQueuedBody, UnitsDrain, UnitsClaimFront, UnitsPost
       DEF WaitStep
  <2>4. CASE TimerStep \/ ApplierStep \/ \E f \in Fibers : Spawn(f)
    BY <2>4, UnitsDomain
  <2>5. QED
    BY <2>1, <2>2, <2>3, <2>4 DEF Next
<1>3. QED
  BY <1>1, <1>2 DEF UnitInv

LEMMA UnitInit == ASSUME Init PROVE UnitInv
<1>1. RestInv
  BY RestInit
<1>2. unit.queue = <<>>
  BY DEF Init, WaitInit
<1>3. QueueUnits
  BY <1>2 DEF QueueUnits, Linked
<1>4. \A t \in Threads : waker[t].limit = 0
  BY DEF Init, TaskInit, Quiet
<1>5. Wakes = {}
  BY <1>4 DEF Wakes
<1>6. Limits
  BY <1>4, <1>5, FS_EmptySet DEF Limits
<1>7. \A f \in Fibers : ~Waits(f)
  BY DEF Init, TaskInit, Waits, Armed
<1>8. UnitsHeard
  BY <1>7 DEF UnitsHeard
<1>9. QED
  BY <1>1, <1>3, <1>6, <1>8 DEF UnitInv

(* At rest nobody has a wake to hand out or a look to take.                *)
LEMMA UnitGivesHeard ==
    ASSUME UnitInv, Settled, ~unit.spent
    PROVE  ~Unheard
<1>1. SUFFICES ASSUME Available, NEW f \in Live, code[f].op.kind = "unit" PROVE FALSE
  BY DEF Unheard
<1>2. RestInv /\ UnitsHeard /\ unit.units \in Nat
  BY UnitsNat DEF UnitInv, RestInv
<1>3. f \in Fibers /\ Waits(f)
  BY <1>1, <1>2, WhoWaits DEF Waits
<1>4. Wakes = {}
  <2>1. \A t \in Threads : waker[t].limit = 0
    BY DEF Settled, Quiet
  <2>2. QED
    BY <2>1 DEF Wakes
<1>5. Tries = {}
  <2>1. ASSUME NEW g \in Fibers, Trying(g) PROVE FALSE
    <3>1. ~Armed(g) /\ code[g].at \notin {"body", "done"}
      BY <2>1 DEF Trying, TrySpot, Armed
    <3>2. g \notin Live
      BY <1>2, <3>1, WhoWaits
    <3>3. g \in Rooted /\ ctrl[g].phase \notin Terminal
      BY <1>2, <3>1 DEF RestInv, SpotsSound, SpotSound
    <3>4. QED
      BY <3>2, <3>3 DEF Live, Terminal
  <2>2. QED
    BY <2>1 DEF Tries
<1>6. Cardinality(Wakes) = 0 /\ Cardinality(Tries) = 0
  BY <1>4, <1>5, FS_EmptySet
<1>7. QED
  BY <1>1, <1>2, <1>3, <1>6 DEF UnitsHeard, Available

(* However posts, withdrawals, timeouts and cancellations meet, a unit     *)
(* lies unheard while a fiber waits for one only after a wake was spent on *)
(* a waiter that had found a unit by itself: every other wake that reaches *)
(* a waiter who leaves without a unit is passed on; for any number of      *)
(* fibers, workers and posters (waitForUnit, post, set, claimFront,        *)
(* passOn).                                                                *)
THEOREM WakesArePassedOn == Spec => []WakesPassedOn
<1>1. Init => UnitInv
  BY UnitInit
<1>2. UnitInv /\ [Next]_vars => UnitInv'
  BY UnitStep
<1>3. UnitInv => WakesPassedOn
  BY UnitGivesHeard DEF WakesPassedOn
<1>4. QED
  BY <1>1, <1>2, <1>3, PTL DEF Spec
=============================================================================
