-------------------------- MODULE ThreadPool_proofs ---------------------------
(***************************************************************************)
(* The pool's lifecycle: nobody is inside a pool that is taken apart, and  *)
(* hooks come in pairs and only in a pool all of whose workers are pinned, *)
(* for every number of workers, publishers, failures and starts.  No wake  *)
(* is lost: neither the one for published work nor that for a new policy.  *)
(***************************************************************************)
EXTENDS ThreadPool, FiniteSetTheorems, TLAPS

-----------------------------------------------------------------------------
(* The inductive invariant.                                                *)

Before == {"none", "pin", "gate", "enter", "start"}
Looping == {"loop", "pump", "arm", "armBit", "check", "recheck", "idle", "park",
            "futex", "asleep", "disarmBit", "disarm"}
Stopping == {"request", "waking", "openGate"}
WorkerPCs == Before \cup Looping \cup Stopping \cup {"stop", "ended"}
PublisherPCs == {"away", "scan", "scanAny", "wake", "count", "look", "waking", "countOut"}
ControlPCs == {"closed", "spawn", "pins", "opening", "live", "signal", "drain",
               "join", "clear"} \cup Stopping
PCs == WorkerPCs \cup PublisherPCs \cup ControlPCs
Stoppers == Workers \cup {Control}

TypeInv ==
    /\ pc \in [Threads -> PCs]
    /\ \A w \in Workers : pc[w] \in WorkerPCs
    /\ \A p \in Publishers : pc[p] \in PublisherPCs
    /\ pc[Control] \in ControlPCs
    /\ then \in [Threads -> PCs]
    /\ left \in [Threads -> SUBSET Workers]
    /\ pin \in [Workers -> {"none", "pinned", "failed"}]
    /\ hooks \in [Workers -> {"none", "started", "stopped"}]
    /\ word \in [Workers -> BOOLEAN]

(* Where a thread goes after a loop over the slots, or after disarming.    *)
ReturnInv ==
    /\ \A w \in Workers : pc[w] \in {"disarmBit", "disarm"} => then[w] \in {"loop", "stop", "request"}
    /\ \A t \in Stoppers : pc[t] = "waking" => then[t] = "openGate"
    /\ \A p \in Publishers : pc[p] = "waking" => then[p] = "countOut"

(* Who has the gate still to open has stored the flag before.              *)
FlagInv == \A t \in Stoppers : pc[t] \in {"waking", "openGate"} => ~run

HookInv ==
    \A w \in Workers :
        /\ pc[w] \in Before => hooks[w] = "none"
        /\ pc[w] \in Looping \cup {"stop"} => hooks[w] = "started"
        /\ pc[w] = "ended" => hooks[w] # "started"

AllPinned == \A w \in Workers : pin[w] = "pinned"

PinInv ==
    /\ go /\ run => AllPinned
    /\ \A w \in Workers :
        /\ pc[w] \in {"none", "pin"} => pin[w] = "none"
        /\ pc[w] = "enter" /\ run => AllPinned
        /\ pc[w] \notin {"none", "pin", "gate", "enter", "ended"} => AllPinned
        /\ hooks[w] # "none" => AllPinned

ControlInv ==
    /\ slots <=> pc[Control] # "closed"
    /\ open => pc[Control] \in {"live", "signal"}
    /\ pc[Control] \in {"clear", "closed"} => \A w \in Workers : Gone(w)

Counted == {p \in Publishers : pc[p] \in {"look", "waking", "countOut"}}

PublisherInv ==
    /\ wakers = Cardinality(Counted)
    /\ \A p \in Publishers :
        /\ Submitting(p) => pc[Control] \in {"live", "signal"}
        /\ pc[p] = "waking" /\ left[p] # {} => pc[Control] \in {"live", "signal", "drain"}

(* Past its last look at the flag, and still armed.                        *)
Exposed(w) == pc[w] \in {"recheck", "idle", "park", "futex", "asleep"} /\ word[w]

WakeInv ==
    ~run => \A w \in Workers : Exposed(w) =>
        \E t \in Stoppers : pc[t] = "waking" /\ w \in left[t]

IInv ==
    /\ TypeInv /\ ReturnInv /\ FlagInv /\ HookInv /\ PinInv
    /\ ControlInv /\ PublisherInv /\ WakeInv

-----------------------------------------------------------------------------
LEMMA PumpMoves ==
    ASSUME NEW w \in Workers, Pump(w)
    PROVE  /\ pc[w] = "pump"
           /\ \E l \in {"loop", "arm", "request"} : pc' = [pc EXCEPT ![w] = l]
           /\ UNCHANGED <<then, left, flagVars, hooks, word>>
  BY DEF Pump, Goto, Set, At, parkVars

LEMMA RecheckMoves ==
    ASSUME NEW w \in Workers, Recheck(w)
    PROVE  /\ pc[w] = "recheck"
           /\ \/ \E l \in {"loop", "request"} : Leave(w, l)
              \/ Goto(w, "idle") /\ UNCHANGED then
           /\ UNCHANGED <<left, flagVars, hooks, word>>
  BY Zenon DEF Recheck, Stay, At, parkVars

LEMMA WakeEachMoves ==
    ASSUME TypeInv, NEW t \in Threads, WakeEach(t)
    PROVE  /\ left' \in [Threads -> SUBSET Workers] /\ word' \in [Workers -> BOOLEAN]
           /\ UNCHANGED <<pin, hooks>>
           /\ \/ UNCHANGED <<pc, then>>
              \/ /\ pc[t] = "waking" /\ pc' = [pc EXCEPT ![t] = then[t]]
                 /\ then' = [then EXCEPT ![t] = "loop"]
<1> USE DEF TypeInv, WakeEach, Set, At, Goto, flagVars
<1>1. CASE left[t] = {}
  BY <1>1
<1>2. CASE left[t] # {}
  <2>1. PICK w \in left[t] : word' = [word EXCEPT ![w] = FALSE] /\ left' = [left EXCEPT ![t] = @ \ {w}]
    BY <1>2
  <2>2. QED
    BY <1>2, <2>1
<1>3. QED
  BY <1>1, <1>2

LEMMA CountedFinite == IsFiniteSet(Counted)
  BY PoolThreads, FS_Subset DEF Counted

(* A step of a worker.                                                     *)
LEMMA WorkerKeeps ==
    ASSUME IInv, NEW w \in Workers, WorkerStep(w)
    PROVE  IInv'
<1> USE PoolThreads DEF IInv, Threads, Stoppers, Goto, Stay, At, Set, flagVars, parkVars,
  hostVars
<1>1. UNCHANGED <<open, wakers>>
  BY DEF WorkerStep
<1> USE <1>1
<1>2. \A t \in Threads \ {w} : pc'[t] = pc[t] /\ left'[t] = left[t]
  <2> USE DEF TypeInv
  <2>1. CASE Pin(w)
    BY <2>1 DEF Pin
  <2>2. CASE PassGate(w)
    BY <2>2 DEF PassGate
  <2>3. CASE Enter(w)
    BY <2>3 DEF Enter
  <2>4. CASE Start(w)
    BY <2>4 DEF Start
  <2>5. CASE Loop(w)
    BY <2>5 DEF Loop
  <2>6. CASE Pump(w)
    BY <2>6, PumpMoves
  <2>7. CASE Arm(w)
    BY <2>7 DEF Arm
  <2>8. CASE ArmBit(w)
    BY <2>8 DEF ArmBit
  <2>9. CASE Check(w)
    BY <2>9 DEF Check, Leave
  <2>10. CASE Recheck(w)
    BY <2>10, RecheckMoves DEF Leave
  <2>11. CASE ApplyIdlePolicy(w)
    BY <2>11 DEF ApplyIdlePolicy, Leave
  <2>12. CASE ParkWorker(w)
    BY <2>12 DEF ParkWorker, Leave
  <2>13. CASE Sleep(w)
    BY <2>13 DEF Sleep, Leave
  <2>14. CASE WakeUp(w)
    BY <2>14 DEF WakeUp, Leave
  <2>15. CASE DisarmBit(w)
    BY <2>15 DEF DisarmBit
  <2>16. CASE Disarm(w)
    BY <2>16 DEF Disarm
  <2>17. CASE Stop(w)
    BY <2>17 DEF Stop
  <2>18. CASE StopNext(w)
    BY <2>18 DEF StopNext, Request, StopWakes, WakeEach, OpenGate
  <2>19. QED BY <2>1, <2>2, <2>3, <2>4, <2>5, <2>6, <2>7, <2>8, <2>9, <2>10, <2>11,
    <2>12, <2>13, <2>14, <2>15, <2>16, <2>17, <2>18 DEF WorkerStep, WorkerNext
<1>3. TypeInv'
  <2> USE DEF TypeInv, ReturnInv, PCs, WorkerPCs, PublisherPCs, ControlPCs, Before,
    Looping, Stopping
  <2>1. CASE Pin(w)
    BY <2>1 DEF Pin
  <2>2. CASE PassGate(w)
    BY <2>2 DEF PassGate
  <2>3. CASE Enter(w)
    BY <2>3 DEF Enter
  <2>4. CASE Start(w)
    BY <2>4 DEF Start
  <2>5. CASE Loop(w)
    BY <2>5 DEF Loop
  <2>6. CASE Pump(w)
    BY <2>6, PumpMoves
  <2>7. CASE Arm(w)
    BY <2>7 DEF Arm
  <2>8. CASE ArmBit(w)
    BY <2>8 DEF ArmBit
  <2>9. CASE Check(w)
    BY <2>9 DEF Check, Leave
  <2>10. CASE Recheck(w)
    <3>1. UNCHANGED <<left, pin, hooks, word>>
      BY <2>10, RecheckMoves
    <3>2. CASE \E l \in {"loop", "request"} : Leave(w, l)
      BY <3>1, <3>2 DEF Leave
    <3>3. CASE Goto(w, "idle") /\ UNCHANGED then
      BY <3>1, <3>3
    <3>4. QED
      BY <2>10, RecheckMoves, <3>2, <3>3
  <2>11. CASE ApplyIdlePolicy(w)
    BY <2>11 DEF ApplyIdlePolicy, Leave
  <2>12. CASE ParkWorker(w)
    BY <2>12 DEF ParkWorker, Leave
  <2>13. CASE Sleep(w)
    BY <2>13 DEF Sleep, Leave
  <2>14. CASE WakeUp(w)
    BY <2>14 DEF WakeUp, Leave
  <2>15. CASE DisarmBit(w)
    BY <2>15 DEF DisarmBit
  <2>16. CASE Disarm(w)
    BY <2>16 DEF Disarm
  <2>17. CASE Stop(w)
    BY <2>17 DEF Stop
  <2>18. CASE StopNext(w)
    <3>1. CASE Request(w)
      BY <3>1 DEF Request, StopWakes
    <3>2. CASE WakeEach(w)
      <4>1. /\ left' \in [Threads -> SUBSET Workers] /\ word' \in [Workers -> BOOLEAN]
            /\ UNCHANGED <<pin, hooks>>
        BY <3>2, WakeEachMoves
      <4>2. CASE UNCHANGED <<pc, then>>
        BY <4>1, <4>2
      <4>3. CASE ~UNCHANGED <<pc, then>>
        <5>1. /\ pc[w] = "waking" /\ pc' = [pc EXCEPT ![w] = then[w]]
              /\ then' = [then EXCEPT ![w] = "loop"]
          BY <3>2, <4>3, WakeEachMoves
        <5>2. then[w] = "openGate"
          BY <5>1
        <5>3. QED
          BY <4>1, <5>1, <5>2
      <4>4. QED
        BY <4>2, <4>3
    <3>3. CASE OpenGate(w)
      BY <3>3 DEF OpenGate
    <3>4. QED
      BY <2>18, <3>1, <3>2, <3>3 DEF StopNext
  <2>19. QED BY <2>1, <2>2, <2>3, <2>4, <2>5, <2>6, <2>7, <2>8, <2>9, <2>10, <2>11,
    <2>12, <2>13, <2>14, <2>15, <2>16, <2>17, <2>18 DEF WorkerStep, WorkerNext
<1>4. ReturnInv'
  <2> USE DEF TypeInv, ReturnInv, PCs, WorkerPCs, PublisherPCs, ControlPCs, Before,
    Looping, Stopping
  <2>1. CASE Pin(w)
    BY <2>1 DEF Pin
  <2>2. CASE PassGate(w)
    BY <2>2 DEF PassGate
  <2>3. CASE Enter(w)
    BY <2>3 DEF Enter
  <2>4. CASE Start(w)
    BY <2>4 DEF Start
  <2>5. CASE Loop(w)
    BY <2>5 DEF Loop
  <2>6. CASE Pump(w)
    BY <2>6, PumpMoves
  <2>7. CASE Arm(w)
    BY <2>7 DEF Arm
  <2>8. CASE ArmBit(w)
    BY <2>8 DEF ArmBit
  <2>9. CASE Check(w)
    BY <2>9 DEF Check, Leave
  <2>10. CASE Recheck(w)
    BY <2>10, RecheckMoves DEF Leave
  <2>11. CASE ApplyIdlePolicy(w)
    BY <2>11 DEF ApplyIdlePolicy, Leave
  <2>12. CASE ParkWorker(w)
    BY <2>12 DEF ParkWorker, Leave
  <2>13. CASE Sleep(w)
    BY <2>13 DEF Sleep, Leave
  <2>14. CASE WakeUp(w)
    BY <2>14 DEF WakeUp, Leave
  <2>15. CASE DisarmBit(w)
    BY <2>15 DEF DisarmBit
  <2>16. CASE Disarm(w)
    BY <2>16 DEF Disarm
  <2>17. CASE Stop(w)
    BY <2>17 DEF Stop
  <2>18. CASE StopNext(w)
    BY <2>18 DEF StopNext, Request, StopWakes, WakeEach, OpenGate
  <2>19. QED BY <2>1, <2>2, <2>3, <2>4, <2>5, <2>6, <2>7, <2>8, <2>9, <2>10, <2>11,
    <2>12, <2>13, <2>14, <2>15, <2>16, <2>17, <2>18 DEF WorkerStep, WorkerNext
<1>5. FlagInv'
  <2> USE DEF TypeInv, ReturnInv, FlagInv, PCs, WorkerPCs, PublisherPCs, ControlPCs,
    Before, Looping, Stopping
  <2>1. CASE Pin(w)
    BY <2>1 DEF Pin
  <2>2. CASE PassGate(w)
    BY <2>2 DEF PassGate
  <2>3. CASE Enter(w)
    BY <2>3 DEF Enter
  <2>4. CASE Start(w)
    BY <2>4 DEF Start
  <2>5. CASE Loop(w)
    BY <2>5 DEF Loop
  <2>6. CASE Pump(w)
    BY <2>6, PumpMoves
  <2>7. CASE Arm(w)
    BY <2>7 DEF Arm
  <2>8. CASE ArmBit(w)
    BY <2>8 DEF ArmBit
  <2>9. CASE Check(w)
    BY <2>9 DEF Check, Leave
  <2>10. CASE Recheck(w)
    BY <2>10, RecheckMoves DEF Leave
  <2>11. CASE ApplyIdlePolicy(w)
    BY <2>11 DEF ApplyIdlePolicy, Leave
  <2>12. CASE ParkWorker(w)
    BY <2>12 DEF ParkWorker, Leave
  <2>13. CASE Sleep(w)
    BY <2>13 DEF Sleep, Leave
  <2>14. CASE WakeUp(w)
    BY <2>14 DEF WakeUp, Leave
  <2>15. CASE DisarmBit(w)
    BY <2>15 DEF DisarmBit
  <2>16. CASE Disarm(w)
    BY <2>16 DEF Disarm
  <2>17. CASE Stop(w)
    BY <2>17 DEF Stop
  <2>18. CASE StopNext(w)
    BY <2>18 DEF StopNext, Request, StopWakes, WakeEach, OpenGate
  <2>19. QED BY <2>1, <2>2, <2>3, <2>4, <2>5, <2>6, <2>7, <2>8, <2>9, <2>10, <2>11,
    <2>12, <2>13, <2>14, <2>15, <2>16, <2>17, <2>18 DEF WorkerStep, WorkerNext
<1>6. HookInv'
  <2> USE DEF TypeInv, ReturnInv, HookInv, PCs, WorkerPCs, PublisherPCs, ControlPCs,
    Before, Looping, Stopping
  <2>1. CASE Pin(w)
    BY <2>1 DEF Pin
  <2>2. CASE PassGate(w)
    BY <2>2 DEF PassGate
  <2>3. CASE Enter(w)
    BY <2>3 DEF Enter
  <2>4. CASE Start(w)
    BY <2>4 DEF Start
  <2>5. CASE Loop(w)
    BY <2>5 DEF Loop
  <2>6. CASE Pump(w)
    BY <2>6, PumpMoves
  <2>7. CASE Arm(w)
    BY <2>7 DEF Arm
  <2>8. CASE ArmBit(w)
    BY <2>8 DEF ArmBit
  <2>9. CASE Check(w)
    BY <2>9 DEF Check, Leave
  <2>10. CASE Recheck(w)
    BY <2>10, RecheckMoves DEF Leave
  <2>11. CASE ApplyIdlePolicy(w)
    BY <2>11 DEF ApplyIdlePolicy, Leave
  <2>12. CASE ParkWorker(w)
    BY <2>12 DEF ParkWorker, Leave
  <2>13. CASE Sleep(w)
    BY <2>13 DEF Sleep, Leave
  <2>14. CASE WakeUp(w)
    BY <2>14 DEF WakeUp, Leave
  <2>15. CASE DisarmBit(w)
    BY <2>15 DEF DisarmBit
  <2>16. CASE Disarm(w)
    BY <2>16 DEF Disarm
  <2>17. CASE Stop(w)
    BY <2>17 DEF Stop
  <2>18. CASE StopNext(w)
    BY <2>18 DEF StopNext, Request, StopWakes, WakeEach, OpenGate
  <2>19. QED BY <2>1, <2>2, <2>3, <2>4, <2>5, <2>6, <2>7, <2>8, <2>9, <2>10, <2>11,
    <2>12, <2>13, <2>14, <2>15, <2>16, <2>17, <2>18 DEF WorkerStep, WorkerNext
<1>7. PinInv'
  <2> USE DEF TypeInv, ReturnInv, FlagInv, PinInv, AllPinned, PCs, WorkerPCs,
    PublisherPCs, ControlPCs, Before, Looping, Stopping
  <2>1. CASE Pin(w)
    BY <2>1 DEF Pin
  <2>2. CASE PassGate(w)
    BY <2>2 DEF PassGate
  <2>3. CASE Enter(w)
    BY <2>3 DEF Enter
  <2>4. CASE Start(w)
    BY <2>4 DEF Start
  <2>5. CASE Loop(w)
    BY <2>5 DEF Loop
  <2>6. CASE Pump(w)
    BY <2>6, PumpMoves
  <2>7. CASE Arm(w)
    BY <2>7 DEF Arm
  <2>8. CASE ArmBit(w)
    BY <2>8 DEF ArmBit
  <2>9. CASE Check(w)
    BY <2>9 DEF Check, Leave
  <2>10. CASE Recheck(w)
    BY <2>10, RecheckMoves DEF Leave
  <2>11. CASE ApplyIdlePolicy(w)
    BY <2>11 DEF ApplyIdlePolicy, Leave
  <2>12. CASE ParkWorker(w)
    BY <2>12 DEF ParkWorker, Leave
  <2>13. CASE Sleep(w)
    BY <2>13 DEF Sleep, Leave
  <2>14. CASE WakeUp(w)
    BY <2>14 DEF WakeUp, Leave
  <2>15. CASE DisarmBit(w)
    BY <2>15 DEF DisarmBit
  <2>16. CASE Disarm(w)
    BY <2>16 DEF Disarm
  <2>17. CASE Stop(w)
    BY <2>17 DEF Stop
  <2>18. CASE StopNext(w)
    BY <2>18 DEF StopNext, Request, StopWakes, WakeEach, OpenGate
  <2>19. QED BY <2>1, <2>2, <2>3, <2>4, <2>5, <2>6, <2>7, <2>8, <2>9, <2>10, <2>11,
    <2>12, <2>13, <2>14, <2>15, <2>16, <2>17, <2>18 DEF WorkerStep, WorkerNext
<1>8. ControlInv'
  <2> USE DEF TypeInv, ControlInv, Gone, PCs, WorkerPCs, PublisherPCs, ControlPCs,
    Before, Looping, Stopping
  <2>1. CASE Pin(w)
    BY <2>1 DEF Pin
  <2>2. CASE PassGate(w)
    BY <2>2 DEF PassGate
  <2>3. CASE Enter(w)
    BY <2>3 DEF Enter
  <2>4. CASE Start(w)
    BY <2>4 DEF Start
  <2>5. CASE Loop(w)
    BY <2>5 DEF Loop
  <2>6. CASE Pump(w)
    BY <2>6, PumpMoves
  <2>7. CASE Arm(w)
    BY <2>7 DEF Arm
  <2>8. CASE ArmBit(w)
    BY <2>8 DEF ArmBit
  <2>9. CASE Check(w)
    BY <2>9 DEF Check, Leave
  <2>10. CASE Recheck(w)
    BY <2>10, RecheckMoves DEF Leave
  <2>11. CASE ApplyIdlePolicy(w)
    BY <2>11 DEF ApplyIdlePolicy, Leave
  <2>12. CASE ParkWorker(w)
    BY <2>12 DEF ParkWorker, Leave
  <2>13. CASE Sleep(w)
    BY <2>13 DEF Sleep, Leave
  <2>14. CASE WakeUp(w)
    BY <2>14 DEF WakeUp, Leave
  <2>15. CASE DisarmBit(w)
    BY <2>15 DEF DisarmBit
  <2>16. CASE Disarm(w)
    BY <2>16 DEF Disarm
  <2>17. CASE Stop(w)
    BY <2>17 DEF Stop
  <2>18. CASE StopNext(w)
    BY <2>18 DEF StopNext, Request, StopWakes, WakeEach, OpenGate
  <2>19. QED BY <2>1, <2>2, <2>3, <2>4, <2>5, <2>6, <2>7, <2>8, <2>9, <2>10, <2>11,
    <2>12, <2>13, <2>14, <2>15, <2>16, <2>17, <2>18 DEF WorkerStep, WorkerNext
<1>9. PublisherInv'
  <2>1. Counted' = Counted
    BY <1>2 DEF Counted
  <2>2. QED
    BY <1>1, <1>2, <2>1 DEF PublisherInv, Submitting
<1>10. WakeInv'
  <2> USE DEF TypeInv, ReturnInv, FlagInv, WakeInv, Exposed, WorkerPCs, PublisherPCs,
    ControlPCs, Before, Looping, Stopping
  <2> USE <1>2
  <2>1. CASE Pin(w)
    BY <2>1 DEF Pin
  <2>2. CASE PassGate(w)
    BY <2>2 DEF PassGate
  <2>3. CASE Enter(w)
    BY <2>3 DEF Enter
  <2>4. CASE Start(w)
    BY <2>4 DEF Start
  <2>5. CASE Loop(w)
    BY <2>5 DEF Loop
  <2>6. CASE Pump(w)
    BY <2>6, PumpMoves
  <2>7. CASE Arm(w)
    BY <2>7 DEF Arm
  <2>8. CASE ArmBit(w)
    BY <2>8 DEF ArmBit
  <2>9. CASE Check(w)
    BY <2>9 DEF Check, Leave
  <2>10. CASE Recheck(w)
    BY <2>10, RecheckMoves DEF Leave
  <2>11. CASE ApplyIdlePolicy(w)
    BY <2>11 DEF ApplyIdlePolicy, Leave
  <2>12. CASE ParkWorker(w)
    BY <2>12 DEF ParkWorker, Leave
  <2>13. CASE Sleep(w)
    BY <2>13 DEF Sleep, Leave
  <2>14. CASE WakeUp(w)
    BY <2>14 DEF WakeUp, Leave
  <2>15. CASE DisarmBit(w)
    BY <2>15 DEF DisarmBit
  <2>16. CASE Disarm(w)
    BY <2>16 DEF Disarm
  <2>17. CASE Stop(w)
    BY <2>17 DEF Stop
  <2>18. CASE StopNext(w)
    BY <2>18 DEF StopNext, Request, StopWakes, WakeEach, OpenGate
  <2>19. QED BY <2>1, <2>2, <2>3, <2>4, <2>5, <2>6, <2>7, <2>8, <2>9, <2>10, <2>11,
    <2>12, <2>13, <2>14, <2>15, <2>16, <2>17, <2>18 DEF WorkerStep, WorkerNext
<1>11. QED
  BY <1>2, <1>3, <1>4, <1>5, <1>6, <1>7, <1>8, <1>9, <1>10

(* A step of a publisher.                                                  *)
LEMMA PublisherKeeps ==
    ASSUME IInv, NEW p \in Publishers, Publish(p) \/ PublisherStep(p)
    PROVE  IInv'
<1> USE PoolThreads DEF IInv, Threads, Stoppers, Goto, At, Set, flagVars, parkVars, hostVars
<1>1. \A t \in Threads \ {p} : pc'[t] = pc[t] /\ left'[t] = left[t]
  <2> USE DEF TypeInv
  <2>1. CASE Publish(p)
    BY <2>1 DEF Publish
  <2>2. CASE WakeOne(p)
    BY <2>2 DEF WakeOne
  <2>3. CASE WakeWorker(p)
    BY <2>3 DEF WakeWorker
  <2>4. CASE CountIn(p)
    BY <2>4 DEF CountIn
  <2>5. CASE WakeAll(p)
    BY <2>5 DEF WakeAll
  <2>6. CASE CountOut(p)
    BY <2>6 DEF CountOut
  <2>7. CASE WakeEach(p) /\ UNCHANGED <<hostVars, wakeVars>>
    BY <2>7 DEF WakeEach
  <2>8. QED BY <2>1, <2>2, <2>3, <2>4, <2>5, <2>6, <2>7 DEF PublisherStep
<1>2. TypeInv'
  <2> USE DEF TypeInv, ReturnInv, PCs, WorkerPCs, PublisherPCs, ControlPCs, Before,
    Looping, Stopping
  <2>1. CASE Publish(p)
    BY <2>1 DEF Publish
  <2>2. CASE WakeOne(p)
    BY <2>2 DEF WakeOne
  <2>3. CASE WakeWorker(p)
    BY <2>3 DEF WakeWorker
  <2>4. CASE CountIn(p)
    BY <2>4 DEF CountIn
  <2>5. CASE WakeAll(p)
    BY <2>5 DEF WakeAll
  <2>6. CASE CountOut(p)
    BY <2>6 DEF CountOut
  <2>7. CASE WakeEach(p) /\ UNCHANGED <<hostVars, wakeVars>>
    <3>1. /\ left' \in [Threads -> SUBSET Workers] /\ word' \in [Workers -> BOOLEAN]
          /\ UNCHANGED <<pin, hooks>>
      BY <2>7, WakeEachMoves
    <3>2. CASE UNCHANGED <<pc, then>>
      BY <3>1, <3>2
    <3>3. CASE ~UNCHANGED <<pc, then>>
      <4>1. /\ pc[p] = "waking" /\ pc' = [pc EXCEPT ![p] = then[p]]
            /\ then' = [then EXCEPT ![p] = "loop"]
        BY <2>7, <3>3, WakeEachMoves
      <4>2. then[p] = "countOut"
        BY <4>1
      <4>3. QED
        BY <3>1, <4>1, <4>2
    <3>4. QED
      BY <3>2, <3>3
  <2>8. QED BY <2>1, <2>2, <2>3, <2>4, <2>5, <2>6, <2>7 DEF PublisherStep
<1>3. ReturnInv'
  <2> USE DEF TypeInv, ReturnInv, PCs, WorkerPCs, PublisherPCs, ControlPCs, Before,
    Looping, Stopping
  <2>1. CASE Publish(p)
    BY <2>1 DEF Publish
  <2>2. CASE WakeOne(p)
    BY <2>2 DEF WakeOne
  <2>3. CASE WakeWorker(p)
    BY <2>3 DEF WakeWorker
  <2>4. CASE CountIn(p)
    BY <2>4 DEF CountIn
  <2>5. CASE WakeAll(p)
    BY <2>5 DEF WakeAll
  <2>6. CASE CountOut(p)
    BY <2>6 DEF CountOut
  <2>7. CASE WakeEach(p) /\ UNCHANGED <<hostVars, wakeVars>>
    BY <2>7 DEF WakeEach
  <2>8. QED BY <2>1, <2>2, <2>3, <2>4, <2>5, <2>6, <2>7 DEF PublisherStep
<1>4. FlagInv'
  <2> USE DEF TypeInv, ReturnInv, FlagInv, PCs, WorkerPCs, PublisherPCs, ControlPCs,
    Before, Looping, Stopping
  <2>1. CASE Publish(p)
    BY <2>1 DEF Publish
  <2>2. CASE WakeOne(p)
    BY <2>2 DEF WakeOne
  <2>3. CASE WakeWorker(p)
    BY <2>3 DEF WakeWorker
  <2>4. CASE CountIn(p)
    BY <2>4 DEF CountIn
  <2>5. CASE WakeAll(p)
    BY <2>5 DEF WakeAll
  <2>6. CASE CountOut(p)
    BY <2>6 DEF CountOut
  <2>7. CASE WakeEach(p) /\ UNCHANGED <<hostVars, wakeVars>>
    BY <2>7 DEF WakeEach
  <2>8. QED BY <2>1, <2>2, <2>3, <2>4, <2>5, <2>6, <2>7 DEF PublisherStep
<1>5. HookInv'
  <2> USE DEF TypeInv, ReturnInv, HookInv, PCs, WorkerPCs, PublisherPCs, ControlPCs,
    Before, Looping, Stopping
  <2>1. CASE Publish(p)
    BY <2>1 DEF Publish
  <2>2. CASE WakeOne(p)
    BY <2>2 DEF WakeOne
  <2>3. CASE WakeWorker(p)
    BY <2>3 DEF WakeWorker
  <2>4. CASE CountIn(p)
    BY <2>4 DEF CountIn
  <2>5. CASE WakeAll(p)
    BY <2>5 DEF WakeAll
  <2>6. CASE CountOut(p)
    BY <2>6 DEF CountOut
  <2>7. CASE WakeEach(p) /\ UNCHANGED <<hostVars, wakeVars>>
    BY <2>7 DEF WakeEach
  <2>8. QED BY <2>1, <2>2, <2>3, <2>4, <2>5, <2>6, <2>7 DEF PublisherStep
<1>6. PinInv'
  <2> USE DEF TypeInv, ReturnInv, FlagInv, PinInv, AllPinned, PCs, WorkerPCs,
    PublisherPCs, ControlPCs, Before, Looping, Stopping
  <2>1. CASE Publish(p)
    BY <2>1 DEF Publish
  <2>2. CASE WakeOne(p)
    BY <2>2 DEF WakeOne
  <2>3. CASE WakeWorker(p)
    BY <2>3 DEF WakeWorker
  <2>4. CASE CountIn(p)
    BY <2>4 DEF CountIn
  <2>5. CASE WakeAll(p)
    BY <2>5 DEF WakeAll
  <2>6. CASE CountOut(p)
    BY <2>6 DEF CountOut
  <2>7. CASE WakeEach(p) /\ UNCHANGED <<hostVars, wakeVars>>
    BY <2>7 DEF WakeEach
  <2>8. QED BY <2>1, <2>2, <2>3, <2>4, <2>5, <2>6, <2>7 DEF PublisherStep
<1>7. ControlInv'
  <2> USE DEF TypeInv, ReturnInv, PublisherInv, ControlInv, Gone, hostVars, PCs,
    WorkerPCs, PublisherPCs, ControlPCs, Before, Looping, Stopping
  <2>1. CASE Publish(p)
    BY <2>1 DEF Publish
  <2>2. CASE WakeOne(p)
    BY <2>2 DEF WakeOne
  <2>3. CASE WakeWorker(p)
    BY <2>3 DEF WakeWorker
  <2>4. CASE CountIn(p)
    BY <2>4 DEF CountIn
  <2>5. CASE WakeAll(p)
    BY <2>5 DEF WakeAll
  <2>6. CASE CountOut(p)
    BY <2>6 DEF CountOut
  <2>7. CASE WakeEach(p) /\ UNCHANGED <<hostVars, wakeVars>>
    BY <2>7 DEF WakeEach
  <2>8. QED BY <2>1, <2>2, <2>3, <2>4, <2>5, <2>6, <2>7 DEF PublisherStep
<1>8. PublisherInv'
  <2> USE DEF TypeInv, ReturnInv, ControlInv, PublisherInv, Submitting
  <2>1. CASE Publish(p)
    <3>1. Counted' = Counted
      BY <2>1, <1>1 DEF Publish, Counted, PublisherPCs
    <3>2. QED
      BY <3>1, <2>1 DEF Publish
  <2>2. CASE WakeOne(p)
    <3>1. Counted' = Counted
      BY <2>2, <1>1 DEF WakeOne, Counted
    <3>2. QED
      BY <3>1, <2>2 DEF WakeOne
  <2>3. CASE WakeWorker(p)
    <3>1. Counted' = Counted
      BY <2>3, <1>1 DEF WakeWorker, Counted, PublisherPCs
    <3>2. QED
      BY <3>1, <2>3 DEF WakeWorker, PublisherPCs
  <2>4. CASE CountIn(p)
    <3>1. Counted' = Counted \cup {p} /\ p \notin Counted
      BY <2>4, <1>1 DEF CountIn, Counted
    <3>2. Cardinality(Counted') = Cardinality(Counted) + 1
      BY <3>1, CountedFinite, FS_AddElement
    <3>3. QED
      BY <3>2, <2>4 DEF CountIn
  <2>5. CASE WakeAll(p)
    <3>1. Counted' = Counted
      BY <2>5, <1>1 DEF WakeAll, Counted
    <3>2. QED
      BY <3>1, <2>5 DEF WakeAll
  <2>6. CASE CountOut(p)
    <3>1. Counted' = Counted \ {p} /\ p \in Counted
      BY <2>6, <1>1 DEF CountOut, Counted
    <3>2. Cardinality(Counted') = Cardinality(Counted) - 1
      BY <3>1, CountedFinite, FS_RemoveElement
    <3>3. QED
      BY <3>2, <2>6 DEF CountOut
  <2>7. CASE WakeEach(p) /\ UNCHANGED <<hostVars, wakeVars>>
    <3>1. Counted' = Counted
      BY <2>7, <1>1 DEF WakeEach, Counted
    <3>2. QED
      BY <3>1, <2>7 DEF WakeEach
  <2>8. QED BY <2>1, <2>2, <2>3, <2>4, <2>5, <2>6, <2>7 DEF PublisherStep
<1>9. WakeInv'
  <2> USE DEF TypeInv, ReturnInv, FlagInv, WakeInv, Exposed, WorkerPCs, PublisherPCs,
    ControlPCs, Before, Looping, Stopping
  <2> USE <1>1
  <2>1. CASE Publish(p)
    BY <2>1 DEF Publish
  <2>2. CASE WakeOne(p)
    BY <2>2 DEF WakeOne
  <2>3. CASE WakeWorker(p)
    BY <2>3 DEF WakeWorker
  <2>4. CASE CountIn(p)
    BY <2>4 DEF CountIn
  <2>5. CASE WakeAll(p)
    BY <2>5 DEF WakeAll
  <2>6. CASE CountOut(p)
    BY <2>6 DEF CountOut
  <2>7. CASE WakeEach(p) /\ UNCHANGED <<hostVars, wakeVars>>
    BY <2>7 DEF WakeEach
  <2>8. QED BY <2>1, <2>2, <2>3, <2>4, <2>5, <2>6, <2>7 DEF PublisherStep
<1>10. QED
  BY <1>1, <1>2, <1>3, <1>4, <1>5, <1>6, <1>7, <1>8, <1>9

(* A step of the control thread.                                           *)
LEMMA ControlKeeps ==
    ASSUME IInv, StartPool \/ Direct \/ Close \/ ControlStep
    PROVE  IInv'
<1> USE PoolThreads DEF IInv, Threads, Stoppers, Goto, At, Set, flagVars, parkVars, hostVars
<1>1. TypeInv'
  <2> USE DEF TypeInv, ReturnInv, PCs, WorkerPCs, PublisherPCs, ControlPCs, Before,
    Looping, Stopping
  <2>1. CASE StartPool
    BY <2>1 DEF StartPool
  <2>2. CASE Direct
    BY <2>2 DEF Direct
  <2>3. CASE Close
    BY <2>3 DEF Close
  <2>4. CASE Spawn
    BY <2>4 DEF Spawn, Unspawned
  <2>5. CASE AwaitPins
    BY <2>5 DEF AwaitPins
  <2>6. CASE OpenHost
    BY <2>6 DEF OpenHost
  <2>7. CASE DrainWakers
    BY <2>7 DEF DrainWakers
  <2>8. CASE JoinAll
    BY <2>8 DEF JoinAll
  <2>9. CASE Clear
    BY <2>9 DEF Clear
  <2>10. CASE WakeWorker(Control)
    BY <2>10 DEF WakeWorker
  <2>11. CASE StopNext(Control) /\ UNCHANGED <<hostVars, wakeVars>>
    <3>1. CASE Request(Control)
      BY <2>11, <3>1 DEF Request, StopWakes
    <3>2. CASE WakeEach(Control)
      <4>1. /\ left' \in [Threads -> SUBSET Workers] /\ word' \in [Workers -> BOOLEAN]
            /\ UNCHANGED <<pin, hooks>>
        BY <2>11, <3>2, WakeEachMoves
      <4>2. CASE UNCHANGED <<pc, then>>
        BY <4>1, <4>2
      <4>3. CASE ~UNCHANGED <<pc, then>>
        <5>1. /\ pc[Control] = "waking" /\ pc' = [pc EXCEPT ![Control] = then[Control]]
              /\ then' = [then EXCEPT ![Control] = "loop"]
          BY <2>11, <3>2, <4>3, WakeEachMoves
        <5>2. then[Control] = "openGate"
          BY <5>1
        <5>3. QED
          BY <4>1, <5>1, <5>2
      <4>4. QED
        BY <4>2, <4>3
    <3>3. CASE OpenGate(Control)
      BY <2>11, <3>3 DEF OpenGate
    <3>4. QED
      BY <2>11, <3>1, <3>2, <3>3 DEF StopNext
  <2>12. QED BY <2>1, <2>2, <2>3, <2>4, <2>5, <2>6, <2>7, <2>8, <2>9, <2>10,
    <2>11 DEF ControlStep
<1>2. ReturnInv'
  <2> USE DEF TypeInv, ReturnInv, PCs, WorkerPCs, PublisherPCs, ControlPCs, Before,
    Looping, Stopping
  <2>1. CASE StartPool
    BY <2>1 DEF StartPool
  <2>2. CASE Direct
    BY <2>2 DEF Direct
  <2>3. CASE Close
    BY <2>3 DEF Close
  <2>4. CASE Spawn
    BY <2>4 DEF Spawn, Unspawned
  <2>5. CASE AwaitPins
    BY <2>5 DEF AwaitPins
  <2>6. CASE OpenHost
    BY <2>6 DEF OpenHost
  <2>7. CASE DrainWakers
    BY <2>7 DEF DrainWakers
  <2>8. CASE JoinAll
    BY <2>8 DEF JoinAll
  <2>9. CASE Clear
    BY <2>9 DEF Clear
  <2>10. CASE WakeWorker(Control)
    BY <2>10 DEF WakeWorker
  <2>11. CASE StopNext(Control) /\ UNCHANGED <<hostVars, wakeVars>>
    BY <2>11 DEF StopNext, Request, StopWakes, WakeEach, OpenGate
  <2>12. QED BY <2>1, <2>2, <2>3, <2>4, <2>5, <2>6, <2>7, <2>8, <2>9, <2>10,
    <2>11 DEF ControlStep
<1>3. FlagInv'
  <2> USE DEF TypeInv, ReturnInv, FlagInv, PCs, WorkerPCs, PublisherPCs, ControlPCs,
    Before, Looping, Stopping
  <2>1. CASE StartPool
    BY <2>1 DEF StartPool
  <2>2. CASE Direct
    BY <2>2 DEF Direct
  <2>3. CASE Close
    BY <2>3 DEF Close
  <2>4. CASE Spawn
    BY <2>4 DEF Spawn, Unspawned
  <2>5. CASE AwaitPins
    BY <2>5 DEF AwaitPins
  <2>6. CASE OpenHost
    BY <2>6 DEF OpenHost
  <2>7. CASE DrainWakers
    BY <2>7 DEF DrainWakers
  <2>8. CASE JoinAll
    BY <2>8 DEF JoinAll
  <2>9. CASE Clear
    BY <2>9 DEF Clear
  <2>10. CASE WakeWorker(Control)
    BY <2>10 DEF WakeWorker
  <2>11. CASE StopNext(Control) /\ UNCHANGED <<hostVars, wakeVars>>
    BY <2>11 DEF StopNext, Request, StopWakes, WakeEach, OpenGate
  <2>12. QED BY <2>1, <2>2, <2>3, <2>4, <2>5, <2>6, <2>7, <2>8, <2>9, <2>10,
    <2>11 DEF ControlStep
<1>4. HookInv'
  <2> USE DEF TypeInv, ReturnInv, HookInv, PCs, WorkerPCs, PublisherPCs, ControlPCs,
    Before, Looping, Stopping
  <2>1. CASE StartPool
    BY <2>1 DEF StartPool
  <2>2. CASE Direct
    BY <2>2 DEF Direct
  <2>3. CASE Close
    BY <2>3 DEF Close
  <2>4. CASE Spawn
    BY <2>4 DEF Spawn, Unspawned
  <2>5. CASE AwaitPins
    BY <2>5 DEF AwaitPins
  <2>6. CASE OpenHost
    BY <2>6 DEF OpenHost
  <2>7. CASE DrainWakers
    BY <2>7 DEF DrainWakers
  <2>8. CASE JoinAll
    BY <2>8 DEF JoinAll
  <2>9. CASE Clear
    BY <2>9 DEF Clear
  <2>10. CASE WakeWorker(Control)
    BY <2>10 DEF WakeWorker
  <2>11. CASE StopNext(Control) /\ UNCHANGED <<hostVars, wakeVars>>
    BY <2>11 DEF StopNext, Request, StopWakes, WakeEach, OpenGate
  <2>12. QED BY <2>1, <2>2, <2>3, <2>4, <2>5, <2>6, <2>7, <2>8, <2>9, <2>10,
    <2>11 DEF ControlStep
<1>5. PinInv'
  <2> USE DEF TypeInv, ReturnInv, FlagInv, PinInv, AllPinned, PCs, WorkerPCs,
    PublisherPCs, ControlPCs, Before, Looping, Stopping
  <2>1. CASE StartPool
    BY <2>1 DEF StartPool
  <2>2. CASE Direct
    BY <2>2 DEF Direct
  <2>3. CASE Close
    BY <2>3 DEF Close
  <2>4. CASE Spawn
    BY <2>4 DEF Spawn, Unspawned
  <2>5. CASE AwaitPins
    BY <2>5 DEF AwaitPins
  <2>6. CASE OpenHost
    BY <2>6 DEF OpenHost
  <2>7. CASE DrainWakers
    BY <2>7 DEF DrainWakers
  <2>8. CASE JoinAll
    BY <2>8 DEF JoinAll
  <2>9. CASE Clear
    BY <2>9 DEF Clear
  <2>10. CASE WakeWorker(Control)
    BY <2>10 DEF WakeWorker
  <2>11. CASE StopNext(Control) /\ UNCHANGED <<hostVars, wakeVars>>
    BY <2>11 DEF StopNext, Request, StopWakes, WakeEach, OpenGate
  <2>12. QED BY <2>1, <2>2, <2>3, <2>4, <2>5, <2>6, <2>7, <2>8, <2>9, <2>10,
    <2>11 DEF ControlStep
<1>6. ControlInv'
  <2> USE DEF TypeInv, ReturnInv, PublisherInv, ControlInv, Gone, hostVars, PCs,
    WorkerPCs, PublisherPCs, ControlPCs, Before, Looping, Stopping
  <2>1. CASE StartPool
    BY <2>1 DEF StartPool
  <2>2. CASE Direct
    BY <2>2 DEF Direct
  <2>3. CASE Close
    BY <2>3 DEF Close
  <2>4. CASE Spawn
    BY <2>4 DEF Spawn, Unspawned
  <2>5. CASE AwaitPins
    BY <2>5 DEF AwaitPins
  <2>6. CASE OpenHost
    BY <2>6 DEF OpenHost
  <2>7. CASE DrainWakers
    BY <2>7 DEF DrainWakers
  <2>8. CASE JoinAll
    BY <2>8 DEF JoinAll
  <2>9. CASE Clear
    BY <2>9 DEF Clear
  <2>10. CASE WakeWorker(Control)
    BY <2>10 DEF WakeWorker
  <2>11. CASE StopNext(Control) /\ UNCHANGED <<hostVars, wakeVars>>
    BY <2>11 DEF StopNext, Request, StopWakes, WakeEach, OpenGate
  <2>12. QED BY <2>1, <2>2, <2>3, <2>4, <2>5, <2>6, <2>7, <2>8, <2>9, <2>10,
    <2>11 DEF ControlStep
<1>7. PublisherInv'
  <2>1. \A p \in Publishers : pc'[p] = pc[p] /\ left'[p] = left[p]
    BY DEF TypeInv, StartPool, Direct, Close, ControlStep, Spawn, Unspawned, AwaitPins,
      OpenHost, DrainWakers, JoinAll, Clear, WakeWorker, StopNext, Request, WakeEach, OpenGate
  <2>2. Counted' = Counted
    BY <2>1 DEF Counted
  <2>3. wakers' = wakers
    BY DEF ControlStep, StartPool, Direct, Close, Spawn, AwaitPins, OpenHost, DrainWakers,
      JoinAll, Clear, WakeWorker
  <2> USE <2>1, <2>2, <2>3 DEF PublisherInv, Submitting, TypeInv
  <2>4. CASE StartPool
    BY <2>4 DEF StartPool
  <2>5. CASE Direct
    BY <2>5 DEF Direct
  <2>6. CASE Close
    BY <2>6 DEF Close
  <2>7. CASE Spawn
    BY <2>7 DEF Spawn, Unspawned
  <2>8. CASE AwaitPins
    BY <2>8 DEF AwaitPins
  <2>9. CASE OpenHost
    BY <2>9 DEF OpenHost
  <2>10. CASE DrainWakers
    <3>1. Cardinality(Counted) = 0
      BY <2>10 DEF DrainWakers, Drained
    <3>2. Counted = {}
      BY <3>1, CountedFinite, FS_EmptySet
    <3>3. QED
      BY <3>2, <2>10 DEF DrainWakers, Counted
  <2>11. CASE JoinAll
    BY <2>11 DEF JoinAll
  <2>12. CASE Clear
    BY <2>12 DEF Clear
  <2>13. CASE WakeWorker(Control)
    BY <2>13 DEF WakeWorker
  <2>14. CASE StopNext(Control) /\ UNCHANGED <<hostVars, wakeVars>>
    BY <2>14 DEF StopNext, Request, StopWakes, WakeEach, OpenGate
  <2>15. QED BY <2>4, <2>5, <2>6, <2>7, <2>8, <2>9, <2>10, <2>11, <2>12, <2>13,
    <2>14 DEF ControlStep
<1>8. WakeInv'
  <2> USE DEF TypeInv, ReturnInv, FlagInv, WakeInv, Exposed, WorkerPCs, PublisherPCs,
    ControlPCs, Before, Looping, Stopping
  <2>1. CASE StartPool
    BY <2>1 DEF StartPool
  <2>2. CASE Direct
    BY <2>2 DEF Direct
  <2>3. CASE Close
    BY <2>3 DEF Close
  <2>4. CASE Spawn
    BY <2>4 DEF Spawn, Unspawned
  <2>5. CASE AwaitPins
    BY <2>5 DEF AwaitPins
  <2>6. CASE OpenHost
    BY <2>6 DEF OpenHost
  <2>7. CASE DrainWakers
    BY <2>7 DEF DrainWakers
  <2>8. CASE JoinAll
    BY <2>8 DEF JoinAll
  <2>9. CASE Clear
    BY <2>9 DEF Clear
  <2>10. CASE WakeWorker(Control)
    BY <2>10 DEF WakeWorker
  <2>11. CASE StopNext(Control) /\ UNCHANGED <<hostVars, wakeVars>>
    BY <2>11 DEF StopNext, Request, StopWakes, WakeEach, OpenGate
  <2>12. QED BY <2>1, <2>2, <2>3, <2>4, <2>5, <2>6, <2>7, <2>8, <2>9, <2>10,
    <2>11 DEF ControlStep
<1>9. QED
  BY <1>1, <1>2, <1>3, <1>4, <1>5, <1>6, <1>7, <1>8

(* What the invariant says of the initial states.                          *)
LEMMA InitHolds == Init => IInv
<1> SUFFICES ASSUME Init PROVE IInv
  OBVIOUS
<1> USE PoolThreads DEF Init, Threads, Stoppers, TypeInv, PCs, WorkerPCs, PublisherPCs,
  ControlPCs, Before, Looping, Stopping
<1>1. Counted = {}
  BY DEF Counted
<1>2. Cardinality(Counted) = 0
  BY <1>1, FS_EmptySet
<1>3. TypeInv
  OBVIOUS
<1>4. ReturnInv /\ FlagInv
  BY DEF ReturnInv, FlagInv
<1>5. HookInv /\ PinInv
  BY DEF HookInv, PinInv, AllPinned
<1>6. ControlInv /\ PublisherInv /\ WakeInv
  BY <1>2 DEF ControlInv, PublisherInv, Gone, Submitting, WakeInv, Exposed
<1>7. QED
  BY <1>3, <1>4, <1>5, <1>6 DEF IInv

(* A step that changes nothing.                                            *)
LEMMA StutterKeeps == IInv /\ UNCHANGED vars => IInv'
<1> SUFFICES ASSUME IInv, UNCHANGED vars PROVE IInv'
  OBVIOUS
<1> USE DEF vars, workerVars, hostVars, wakeVars, flagVars, parkVars, idleVars, IInv
<1>1. TypeInv' /\ ReturnInv' /\ FlagInv'
  BY DEF TypeInv, ReturnInv, FlagInv
<1>2. HookInv' /\ PinInv'
  BY DEF HookInv, PinInv, AllPinned
<1>3. ControlInv' /\ PublisherInv' /\ WakeInv'
  BY DEF ControlInv, PublisherInv, Gone, Submitting, Counted, WakeInv, Exposed
<1>4. QED
  BY <1>1, <1>2, <1>3

(* What the invariant says of the pool's lifecycle and of a stop.          *)
LEMMA InvariantSuffices == IInv => LifecycleSound /\ StopHeard
<1> SUFFICES ASSUME IInv PROVE LifecycleSound /\ StopHeard
  OBVIOUS
<1> USE DEF IInv, TypeInv, At
<1>1. OutlivesUsers
  BY DEF OutlivesUsers, ControlInv, PublisherInv, Threads
<1>2. HooksPaired
  BY DEF HooksPaired, ControlInv, HookInv, Before, Gone
<1>3. PinnedTogether
  BY DEF PinnedTogether, PinInv, AllPinned
<1>4. StopHeard
  BY DEF StopHeard, WakeInv, Exposed, Stoppers
<1>5. QED
  BY <1>1, <1>2, <1>3, <1>4 DEF LifecycleSound

LEMMA InvariantHolds == Spec => []IInv
<1>1. IInv /\ [Next]_vars => IInv'
  BY WorkerKeeps, PublisherKeeps, ControlKeeps, StutterKeeps DEF Next
<1>2. QED
  BY InitHolds, <1>1, PTL DEF Spec

(* In every pool, whatever its size, whichever workers fail to be pinned   *)
(* or throw from their hooks, and however often it is started: when        *)
(* clearWorkerState takes the slots away, no worker and no wake through    *)
(* the host is inside, every start hook has had its stop hook before       *)
(* poolStopped, and no hook has run unless all workers are pinned.         *)
THEOREM PoolLifecycleSound == Spec => []LifecycleSound
  BY InvariantHolds, InvariantSuffices, PTL

(* However many stops overlap, and wherever they find a worker between     *)
(* arming and sleep: no worker sleeps through a stop.                      *)
THEOREM NoStopSleptThrough == Spec => []StopHeard
  BY InvariantHolds, InvariantSuffices, PTL

-----------------------------------------------------------------------------
(* Wakes: their inductive invariant, beside that of the lifecycle.         *)

(* Armed with its bit stored, on the way to sleep or asleep.               *)
Late == {"check", "recheck", "idle", "park", "futex", "asleep"}

(* Past the recheck, and still armed: nothing but a wake keeps it awake.   *)
Drowsy(w) == pc[w] \in {"idle", "park", "futex", "asleep"} /\ word[w]

WakeTypes ==
    /\ bits \subseteq Workers
    /\ aim \in [Threads -> Workers \cup {Control}]
    /\ scope \in [Publishers -> Scopes]
    /\ work \in [Scopes -> Nat]
    /\ kind \in [Workers -> {"wait"} \cup Policies]
    /\ took \in [Workers -> {"wait"} \cup Policies]
    /\ \A p \in Publishers : pc[p] = "wake" => aim[p] \in Workers
    /\ pc[Control] = "signal" => aim[Control] \in Workers

(* An armed worker without its bit is about to be woken by who took it.    *)
BitInv ==
    \A w \in Workers : pc[w] \in Late /\ word[w] =>
        w \in bits \/ \E p \in Publishers : pc[p] = "wake" /\ aim[p] = w

(* There is no work before a pool is open.                                 *)
FreshInv ==
    pc[Control] \in {"spawn", "pins", "opening"} => \A s \in Scopes : work[s] = 0

(* Somebody who sees a piece of work is not drowsy, or will be woken.      *)
Attended(s) ==
    \/ \E w \in Workers : s \in Sees(w) /\ ~Drowsy(w)
    \/ \E p \in Publishers : OwesWake(p, s)

SeenInv == open => \A s \in Scopes : work[s] > 0 => Attended(s)

PolicyInv ==
    \A w \in Workers : pc[w] \in {"park", "futex", "asleep"} /\ word[w] =>
        took[w] = kind[w] \/ (pc[Control] = "signal" /\ aim[Control] = w)

WInv == WakeTypes /\ BitInv /\ FreshInv /\ SeenInv /\ PolicyInv

-----------------------------------------------------------------------------
(* What a step of a worker does to what wakes are about: to others only    *)
(* that it may wake them, and to itself one step towards sleep, or none.   *)
Closer(w) ==
    \/ pc'[w] \notin Late
    \/ pc'[w] = "check" /\ w \in bits'
    \/ pc[w] = "check" /\ pc'[w] = "recheck" /\ bits' = bits
    \/ pc[w] = "recheck" /\ pc'[w] = "idle" /\ bits' = bits /\ \A s \in Sees(w) : work[s] = 0
    \/ pc[w] = "idle" /\ pc'[w] = "park" /\ bits' = bits /\ took'[w] = kind[w]
    \/ pc[w] = "park" /\ pc'[w] = "futex" /\ bits' = bits /\ took' = took
    \/ pc[w] = "futex" /\ pc'[w] = "asleep" /\ bits' = bits /\ took' = took

Moves(w) ==
    /\ \A t \in Threads \ {w} : pc'[t] = pc[t] /\ left'[t] = left[t]
    /\ \A v \in Workers : word'[v] => word[v] \/ (v = w /\ pc[w] = "arm")
    /\ pc[w] = "arm" => pc'[w] = "armBit"
    /\ \A v \in Workers \ {w} : v \in bits' <=> v \in bits
    /\ bits' \subseteq Workers
    /\ \A v \in Workers \ {w} : took'[v] = took[v]
    /\ took' \in [Workers -> {"wait"} \cup Policies]
    /\ work' \in [Scopes -> Nat] /\ \A s \in Scopes : work'[s] <= work[s]
    /\ Closer(w)
    /\ UNCHANGED <<open, aim, scope, kind>>

LEMMA TakeWorkTakes ==
    ASSUME WakeTypes, NEW w \in Workers, TakeWork(w)
    PROVE  work' \in [Scopes -> Nat] /\ \A s \in Scopes : work'[s] <= work[s]
<1>1. PICK s \in Sees(w) : work[s] > 0 /\ work' = [work EXCEPT ![s] = @ - 1]
  BY DEF TakeWork
<1>2. s \in Scopes
  BY PoolThreads DEF Sees, Scopes
<1>3. QED
  BY <1>1, <1>2 DEF WakeTypes

LEMMA WorkerMoves ==
    ASSUME IInv, WInv, NEW w \in Workers, WorkerStep(w)
    PROVE  Moves(w)
<1> USE PoolThreads DEF Threads, Goto, Stay, Leave, At, Set, flagVars, parkVars, idleVars,
  hostVars, wakeVars, Moves, Closer, Late, IInv, WInv, TypeInv
<1>1. UNCHANGED <<open, aim, scope>>
  BY DEF WorkerStep
<1> USE <1>1
<1>2. CASE Pin(w)
  BY <1>2 DEF Pin, WakeTypes
<1>3. CASE PassGate(w)
  BY <1>3 DEF PassGate, WakeTypes
<1>4. CASE Enter(w)
  BY <1>4 DEF Enter, WakeTypes
<1>5. CASE Start(w)
  BY <1>5 DEF Start, WakeTypes
<1>6. CASE Loop(w)
  BY <1>6 DEF Loop, WakeTypes
<1>7. CASE Pump(w)
  BY <1>7, TakeWorkTakes DEF Pump, WakeTypes, NoWork
<1>8. CASE Arm(w)
  BY <1>8 DEF Arm, WakeTypes
<1>9. CASE ArmBit(w)
  BY <1>9 DEF ArmBit, WakeTypes
<1>10. CASE Check(w)
  <2>1. CASE run
    BY <1>10, <2>1 DEF Check, WakeTypes
  <2>2. CASE ~run
    BY SMTT(30), <1>10, <2>2 DEF Check, WakeTypes
  <2>3. QED
    BY <2>1, <2>2
<1>11. CASE Recheck(w)
  BY <1>11, TakeWorkTakes DEF Recheck, WakeTypes, NoWork
<1>12. CASE ApplyIdlePolicy(w)
  BY SMTT(30), <1>12 DEF ApplyIdlePolicy, WakeTypes
<1>13. CASE ParkWorker(w)
  <2>1. CASE run
    BY <1>13, <2>1 DEF ParkWorker, WakeTypes
  <2>2. CASE ~run
    BY SMTT(30), <1>13, <2>2 DEF ParkWorker, WakeTypes
  <2>3. QED
    BY <2>1, <2>2
<1>14. CASE Sleep(w)
  <2>1. CASE word[w]
    BY <1>14, <2>1 DEF Sleep, WakeTypes
  <2>2. CASE ~word[w]
    BY SMTT(30), <1>14, <2>2 DEF Sleep, WakeTypes
  <2>3. QED
    BY <2>1, <2>2
<1>15. CASE WakeUp(w)
  BY <1>15 DEF WakeUp, WakeTypes
<1>16. CASE DisarmBit(w)
  BY <1>16 DEF DisarmBit, WakeTypes
<1>17. CASE Disarm(w)
  BY <1>17 DEF Disarm, WakeTypes, ReturnInv
<1>18. CASE Stop(w)
  BY <1>18 DEF Stop, WakeTypes
<1>19. CASE StopNext(w)
  <2>1. CASE Request(w)
    BY <2>1 DEF Request, WakeTypes
  <2>2. CASE WakeEach(w)
    <3>1. CASE left[w] = {}
      BY <2>2, <3>1 DEF WakeEach, WakeTypes, ReturnInv, Stoppers
    <3>2. CASE left[w] # {}
      BY <2>2, <3>2 DEF WakeEach, WakeTypes
    <3>3. QED
      BY <3>1, <3>2
  <2>3. CASE OpenGate(w)
    BY <2>3 DEF OpenGate, WakeTypes
  <2>4. QED
    BY <1>19, <2>1, <2>2, <2>3 DEF StopNext
<1>20. QED BY <1>2, <1>3, <1>4, <1>5, <1>6, <1>7, <1>8, <1>9, <1>10, <1>11,
    <1>12, <1>13, <1>14, <1>15, <1>16, <1>17, <1>18, <1>19 DEF WorkerStep,
    WorkerNext

LEMMA WorkerKeepsWakes ==
    ASSUME IInv, WInv, NEW w \in Workers, WorkerStep(w)
    PROVE  WInv'
<1>1. Moves(w)
  BY WorkerMoves
<1>2. w \in Threads /\ Workers \cap Publishers = {} /\ Control \notin Workers
  BY PoolThreads DEF Threads
<1>3. \A t \in Publishers \cup {Control} : pc'[t] = pc[t] /\ left'[t] = left[t]
  BY <1>1, <1>2, PoolThreads DEF Moves, Threads
<1>4. WakeTypes'
  BY <1>1, <1>3 DEF WInv, WakeTypes, Moves
<1>5. BitInv'
  BY <1>1, <1>2, <1>3 DEF WInv, BitInv, Moves, Closer, Late, Threads
<1>6. FreshInv'
  BY <1>1, <1>3 DEF WInv, WakeTypes, FreshInv, Moves
<1>7. SeenInv'
  <2> SUFFICES ASSUME open', NEW s \in Scopes, work'[s] > 0 PROVE Attended(s)'
    BY DEF SeenInv
  <2>1. work[s] > 0 /\ Attended(s)
    BY <1>1 DEF WInv, WakeTypes, SeenInv, Moves
  <2>2. \A p \in Publishers : OwesWake(p, s) => OwesWake(p, s)'
    BY <1>1, <1>3 DEF OwesWake, Moves, At, Sees
  <2>3. \A v \in Workers : s \in Sees(v) /\ ~Drowsy(v) => ~Drowsy(v)'
    BY <1>1, <2>1, <1>2 DEF Drowsy, Moves, Closer, Late, Threads
  <2>4. QED
    BY <2>1, <2>2, <2>3 DEF Attended, Sees
<1>8. PolicyInv'
  BY <1>1, <1>2, <1>3 DEF WInv, PolicyInv, Moves, Closer, Late, Threads
<1>9. QED
  BY <1>4, <1>5, <1>6, <1>7, <1>8 DEF WInv

(* A step of a publisher.                                                  *)
LEMMA PublisherKeepsWakes ==
    ASSUME IInv, WInv, NEW p \in Publishers, Publish(p) \/ PublisherStep(p)
    PROVE  WInv'
<1> USE PoolThreads DEF Threads, Goto, At, Set, flagVars, parkVars, idleVars, hostVars,
  wakeVars, IInv, TypeInv, WInv
<1>1. /\ \A t \in Threads \ {p} : pc'[t] = pc[t] /\ left'[t] = left[t] /\ aim'[t] = aim[t]
      /\ \A q \in Publishers \ {p} : scope'[q] = scope[q]
      /\ UNCHANGED <<open, kind, took>>
  <2> USE DEF WakeTypes
  <2>1. CASE Publish(p)
    BY <2>1 DEF Publish
  <2>2. CASE WakeOne(p)
    BY <2>2 DEF WakeOne
  <2>3. CASE WakeWorker(p)
    BY <2>3 DEF WakeWorker
  <2>4. CASE CountIn(p)
    BY <2>4 DEF CountIn
  <2>5. CASE WakeAll(p)
    BY <2>5 DEF WakeAll
  <2>6. CASE CountOut(p)
    BY <2>6 DEF CountOut
  <2>7. CASE WakeEach(p) /\ UNCHANGED <<hostVars, wakeVars>>
    BY <2>7 DEF WakeEach
  <2>8. QED
    BY <2>1, <2>2, <2>3, <2>4, <2>5, <2>6, <2>7 DEF PublisherStep
<1>2. \A w \in Workers : pc'[w] = pc[w] /\ (word'[w] => word[w])
  <2> USE <1>1 DEF WakeTypes
  <2>1. CASE Publish(p)
    BY <2>1 DEF Publish
  <2>2. CASE WakeOne(p)
    BY <2>2 DEF WakeOne
  <2>3. CASE WakeWorker(p)
    BY <2>3 DEF WakeWorker
  <2>4. CASE CountIn(p)
    BY <2>4 DEF CountIn
  <2>5. CASE WakeAll(p)
    BY <2>5 DEF WakeAll
  <2>6. CASE CountOut(p)
    BY <2>6 DEF CountOut
  <2>7. CASE WakeEach(p) /\ UNCHANGED <<hostVars, wakeVars>>
    BY <2>7 DEF WakeEach
  <2>8. QED
    BY <2>1, <2>2, <2>3, <2>4, <2>5, <2>6, <2>7 DEF PublisherStep
<1> USE <1>1, <1>2
<1>3. WakeTypes'
  <2> USE DEF WakeTypes
  <2>1. CASE Publish(p)
    BY <2>1 DEF Publish, Scopes
  <2>2. CASE WakeOne(p)
    <3>1. CASE Eligible(p) = {}
      BY <2>2, <3>1 DEF WakeOne, Scopes
    <3>2. CASE Eligible(p) # {}
      BY SMTT(30), <2>2, <3>2 DEF WakeOne, Eligible, Scopes
    <3>3. QED
      BY <3>1, <3>2
  <2>3. CASE WakeWorker(p)
    BY <2>3 DEF WakeWorker
  <2>4. CASE CountIn(p)
    BY <2>4 DEF CountIn
  <2>5. CASE WakeAll(p)
    BY <2>5 DEF WakeAll, Scopes
  <2>6. CASE CountOut(p)
    BY <2>6 DEF CountOut
  <2>7. CASE WakeEach(p) /\ UNCHANGED <<hostVars, wakeVars>>
    BY <2>7 DEF WakeEach, ReturnInv
  <2>8. QED
    BY <2>1, <2>2, <2>3, <2>4, <2>5, <2>6, <2>7 DEF PublisherStep
<1>4. BitInv'
  <2> USE DEF WakeTypes, BitInv
  <2>1. CASE Publish(p)
    BY <2>1 DEF Publish
  <2>2. CASE WakeOne(p)
    BY <2>2 DEF WakeOne, Eligible
  <2>3. CASE WakeWorker(p)
    BY <2>3 DEF WakeWorker
  <2>4. CASE CountIn(p)
    BY <2>4 DEF CountIn
  <2>5. CASE WakeAll(p)
    BY <2>5 DEF WakeAll
  <2>6. CASE CountOut(p)
    BY <2>6 DEF CountOut
  <2>7. CASE WakeEach(p) /\ UNCHANGED <<hostVars, wakeVars>>
    BY <2>7 DEF WakeEach
  <2>8. QED
    BY <2>1, <2>2, <2>3, <2>4, <2>5, <2>6, <2>7 DEF PublisherStep
<1>5. FreshInv'
  <2> USE DEF WakeTypes, FreshInv, ControlInv
  <2>1. CASE Publish(p)
    BY <2>1 DEF Publish
  <2>2. CASE WakeOne(p)
    BY <2>2 DEF WakeOne
  <2>3. CASE WakeWorker(p)
    BY <2>3 DEF WakeWorker
  <2>4. CASE CountIn(p)
    BY <2>4 DEF CountIn
  <2>5. CASE WakeAll(p)
    BY <2>5 DEF WakeAll
  <2>6. CASE CountOut(p)
    BY <2>6 DEF CountOut
  <2>7. CASE WakeEach(p) /\ UNCHANGED <<hostVars, wakeVars>>
    BY <2>7 DEF WakeEach
  <2>8. QED
    BY <2>1, <2>2, <2>3, <2>4, <2>5, <2>6, <2>7 DEF PublisherStep
<1>6. SeenInv'
  <2> SUFFICES ASSUME open, NEW s \in Scopes, work'[s] > 0 PROVE Attended(s)'
    BY DEF SeenInv
  <2>1. \A w \in Workers : s \in Sees(w) /\ ~Drowsy(w) => ~Drowsy(w)'
    BY DEF Drowsy
  <2>2. \A q \in Publishers \ {p} : OwesWake(q, s) => OwesWake(q, s)'
    BY DEF OwesWake, Sees
  <2>3. (OwesWake(p, s) => Attended(s)') => (work[s] > 0 => Attended(s)')
    BY <2>1, <2>2 DEF SeenInv, Attended, Sees
  <2> HIDE DEF WInv
  <2>4. CASE Publish(p)
    <3>1. Publish(p) /\ work'[s] > 0 => work[s] > 0 \/ OwesWake(p, s)'
      BY DEF Publish, OwesWake, WInv, WakeTypes
    <3>2. ~OwesWake(p, s)
      BY <2>4 DEF Publish, OwesWake
    <3>3. QED
      BY <2>4, <2>3, <3>1, <3>2 DEF Attended
  <2>5. CASE WakeOne(p)
    <3>1. work' = work
      BY <2>5 DEF WakeOne
    <3>2. ASSUME OwesWake(p, s) PROVE Attended(s)'
      <4>1. pc[p] = "scan" /\ scope[p] = s
        BY <2>5, <3>2 DEF WakeOne, OwesWake
      <4>2. CASE Eligible(p) # {}
        <5>1. PICK w \in Eligible(p) : pc'[p] = "wake" /\ aim'[p] = w
          BY <2>5, <4>2 DEF WakeOne, WInv, WakeTypes
        <5>2. s \in Sees(w) /\ w \in Workers
          BY <4>1, <5>1 DEF Eligible, Sees, Scopes, WInv, WakeTypes
        <5>3. QED
          BY <5>1, <5>2 DEF Attended, OwesWake, Sees
      <4>3. CASE Eligible(p) = {}
        <5>1. PICK w \in Workers : s \in Sees(w)
          BY GroupsServed DEF Scopes, Sees
        <5>2. w \notin bits
          BY <4>1, <4>3, <5>1 DEF Eligible, Sees, Scopes
        <5>3. CASE ~Drowsy(w)
          BY <2>1, <5>1, <5>3 DEF Attended, Sees
        <5>4. CASE Drowsy(w)
          <6>1. PICK q \in Publishers : pc[q] = "wake" /\ aim[q] = w
            BY <5>2, <5>4 DEF WInv, BitInv, Drowsy, Late
          <6>2. q # p
            BY <4>1, <6>1
          <6>3. OwesWake(q, s)
            BY <5>1, <6>1 DEF OwesWake
          <6>4. QED
            BY <2>2, <6>2, <6>3 DEF Attended
        <5>5. QED
          BY <5>3, <5>4
      <4>4. QED
        BY <4>2, <4>3
    <3>3. QED
      BY <2>3, <3>1, <3>2
  <2>6. CASE WakeWorker(p)
    <3>1. work' = work
      BY <2>6 DEF WakeWorker
    <3>2. ASSUME OwesWake(p, s) PROVE Attended(s)'
      <4>1. pc[p] = "wake" /\ s \in Sees(aim[p]) /\ aim[p] \in Workers
        BY <2>6, <3>2 DEF WakeWorker, OwesWake, WInv, WakeTypes, PublisherPCs
      <4>2. PICK w \in Workers : w = aim[p]
        BY <4>1
      <4>3. ~Drowsy(w)'
        BY <2>6, <4>2 DEF WakeWorker, Drowsy
      <4>4. QED
        BY <4>1, <4>2, <4>3 DEF Attended, Sees
    <3>3. QED
      BY <2>3, <3>1, <3>2
  <2>7. CASE CountIn(p)
    <3>1. work' = work /\ (OwesWake(p, s) => OwesWake(p, s)')
      BY <2>7 DEF CountIn, OwesWake
    <3>2. QED
      BY <2>3, <3>1 DEF Attended
  <2>8. CASE WakeAll(p)
    <3>1. work' = work /\ pc'[p] = "waking" /\ left'[p] = Workers
      BY <2>8 DEF WakeAll
    <3>2. PICK w \in Workers : s \in Sees(w)
      BY GroupsServed DEF Scopes, Sees
    <3>3. QED
      BY <2>3, <3>1, <3>2 DEF Attended, OwesWake, Sees
  <2>9. CASE CountOut(p)
    <3>1. work' = work /\ ~OwesWake(p, s)
      BY <2>9 DEF CountOut, OwesWake
    <3>2. QED
      BY <2>3, <3>1
  <2>10. CASE WakeEach(p) /\ UNCHANGED <<hostVars, wakeVars>>
    <3>1. work' = work
      BY <2>10 DEF WakeEach
    <3>2. ASSUME OwesWake(p, s) PROVE Attended(s)'
      <4>1. pc[p] = "waking" /\ \E w \in left[p] : s \in Sees(w)
        BY <2>10, <3>2 DEF WakeEach, OwesWake
      <4>2. PICK w \in left[p] : /\ word' = [word EXCEPT ![w] = FALSE]
                                /\ left' = Set(left, p, left[p] \ {w}) /\ pc' = pc
        BY <2>10, <4>1 DEF WakeEach
      <4>3. w \in Workers /\ left'[p] = left[p] \ {w}
        BY <4>2
      <4>4. CASE s \in Sees(w)
        <5>1. ~Drowsy(w)'
          BY <4>2, <4>3 DEF Drowsy
        <5>2. QED
          BY <4>3, <4>4, <5>1 DEF Attended, Sees
      <4>5. CASE s \notin Sees(w)
        <5>1. OwesWake(p, s)'
          BY <4>1, <4>2, <4>3, <4>5 DEF OwesWake, Sees
        <5>2. QED
          BY <5>1 DEF Attended
      <4>6. QED
        BY <4>4, <4>5
    <3>3. QED
      BY <2>3, <3>1, <3>2
  <2>11. QED
    BY <2>4, <2>5, <2>6, <2>7, <2>8, <2>9, <2>10 DEF PublisherStep
<1>7. PolicyInv'
  BY DEF PolicyInv
<1>8. QED
  BY <1>3, <1>4, <1>5, <1>6, <1>7

(* A step of the control thread.                                           *)
LEMMA ControlKeepsWakes ==
    ASSUME IInv, WInv, StartPool \/ Direct \/ Close \/ ControlStep
    PROVE  WInv'
<1> USE PoolThreads DEF Threads, Goto, At, Set, flagVars, parkVars, idleVars, hostVars,
  wakeVars, IInv, TypeInv, WInv
<1>1. \A p \in Publishers : pc'[p] = pc[p] /\ left'[p] = left[p] /\ aim'[p] = aim[p]
  <2> USE DEF WakeTypes
  <2>1. CASE StartPool
    BY <2>1 DEF StartPool
  <2>2. CASE Direct
    BY <2>2 DEF Direct
  <2>3. CASE Close
    BY <2>3 DEF Close
  <2>4. CASE Spawn
    BY <2>4 DEF Spawn, Unspawned
  <2>5. CASE AwaitPins
    BY <2>5 DEF AwaitPins
  <2>6. CASE OpenHost
    BY <2>6 DEF OpenHost
  <2>7. CASE DrainWakers
    BY <2>7 DEF DrainWakers
  <2>8. CASE JoinAll
    BY <2>8 DEF JoinAll
  <2>9. CASE Clear
    BY <2>9 DEF Clear
  <2>10. CASE WakeWorker(Control)
    BY <2>10 DEF WakeWorker
  <2>11. CASE StopNext(Control) /\ UNCHANGED <<hostVars, wakeVars>>
    BY <2>11 DEF StopNext, Request, WakeEach, OpenGate
  <2>12. QED
        BY <2>1, <2>2, <2>3, <2>4, <2>5, <2>6, <2>7, <2>8, <2>9, <2>10,
      <2>11 DEF ControlStep
<1>2. UNCHANGED scope
  <2>1. CASE StartPool
    BY <2>1 DEF StartPool
  <2>2. CASE Direct
    BY <2>2 DEF Direct
  <2>3. CASE Close
    BY <2>3 DEF Close
  <2>4. CASE Spawn
    BY <2>4 DEF Spawn, Unspawned
  <2>5. CASE AwaitPins
    BY <2>5 DEF AwaitPins
  <2>6. CASE OpenHost
    BY <2>6 DEF OpenHost
  <2>7. CASE DrainWakers
    BY <2>7 DEF DrainWakers
  <2>8. CASE JoinAll
    BY <2>8 DEF JoinAll
  <2>9. CASE Clear
    BY <2>9 DEF Clear
  <2>10. CASE WakeWorker(Control)
    BY <2>10 DEF WakeWorker
  <2>11. CASE StopNext(Control) /\ UNCHANGED <<hostVars, wakeVars>>
    BY <2>11 DEF StopNext, Request, WakeEach, OpenGate
  <2>12. QED
        BY <2>1, <2>2, <2>3, <2>4, <2>5, <2>6, <2>7, <2>8, <2>9, <2>10,
      <2>11 DEF ControlStep
<1> USE <1>1, <1>2
<1>3. WakeTypes'
  <2> USE DEF WakeTypes, ReturnInv, Stoppers
  <2>1. CASE StartPool
    BY <2>1 DEF StartPool, Scopes
  <2>2. CASE Direct
    BY <2>2 DEF Direct
  <2>3. CASE Close
    BY <2>3 DEF Close
  <2>4. CASE Spawn
    BY <2>4 DEF Spawn, Unspawned
  <2>5. CASE AwaitPins
    BY <2>5 DEF AwaitPins
  <2>6. CASE OpenHost
    BY <2>6 DEF OpenHost
  <2>7. CASE DrainWakers
    BY <2>7 DEF DrainWakers
  <2>8. CASE JoinAll
    BY <2>8 DEF JoinAll
  <2>9. CASE Clear
    BY <2>9 DEF Clear
  <2>10. CASE WakeWorker(Control)
    BY <2>10 DEF WakeWorker
  <2>11. CASE StopNext(Control) /\ UNCHANGED <<hostVars, wakeVars>>
    BY <2>11 DEF StopNext, Request, WakeEach, OpenGate
  <2>12. QED
        BY <2>1, <2>2, <2>3, <2>4, <2>5, <2>6, <2>7, <2>8, <2>9, <2>10,
      <2>11 DEF ControlStep
<1>4. BitInv'
  <2> USE DEF WakeTypes, BitInv, Late
  <2>1. CASE StartPool
    BY <2>1 DEF StartPool
  <2>2. CASE Direct
    BY <2>2 DEF Direct
  <2>3. CASE Close
    BY <2>3 DEF Close
  <2>4. CASE Spawn
    BY <2>4 DEF Spawn, Unspawned
  <2>5. CASE AwaitPins
    BY <2>5 DEF AwaitPins
  <2>6. CASE OpenHost
    BY <2>6 DEF OpenHost
  <2>7. CASE DrainWakers
    BY <2>7 DEF DrainWakers
  <2>8. CASE JoinAll
    BY <2>8 DEF JoinAll
  <2>9. CASE Clear
    BY <2>9 DEF Clear, ControlInv, Gone
  <2>10. CASE WakeWorker(Control)
    BY <2>10 DEF WakeWorker
  <2>11. CASE StopNext(Control) /\ UNCHANGED <<hostVars, wakeVars>>
    BY <2>11 DEF StopNext, Request, WakeEach, OpenGate
  <2>12. QED
        BY <2>1, <2>2, <2>3, <2>4, <2>5, <2>6, <2>7, <2>8, <2>9, <2>10,
      <2>11 DEF ControlStep
<1>5. FreshInv'
  <2> USE DEF WakeTypes, FreshInv, ReturnInv, Stoppers, Scopes
  <2>1. CASE StartPool
    BY <2>1 DEF StartPool
  <2>2. CASE Direct
    BY <2>2 DEF Direct
  <2>3. CASE Close
    BY <2>3 DEF Close
  <2>4. CASE Spawn
    BY <2>4 DEF Spawn, Unspawned
  <2>5. CASE AwaitPins
    BY <2>5 DEF AwaitPins
  <2>6. CASE OpenHost
    BY <2>6 DEF OpenHost
  <2>7. CASE DrainWakers
    BY <2>7 DEF DrainWakers
  <2>8. CASE JoinAll
    BY <2>8 DEF JoinAll
  <2>9. CASE Clear
    BY <2>9 DEF Clear
  <2>10. CASE WakeWorker(Control)
    BY <2>10 DEF WakeWorker
  <2>11. CASE StopNext(Control) /\ UNCHANGED <<hostVars, wakeVars>>
    BY <2>11 DEF StopNext, Request, WakeEach, OpenGate
  <2>12. QED
        BY <2>1, <2>2, <2>3, <2>4, <2>5, <2>6, <2>7, <2>8, <2>9, <2>10,
      <2>11 DEF ControlStep
<1>6. SeenInv'
  <2> SUFFICES ASSUME open', NEW s \in Scopes, work'[s] > 0 PROVE Attended(s)'
    BY DEF SeenInv
  <2>1. \A q \in Publishers : OwesWake(q, s) => OwesWake(q, s)'
    BY DEF OwesWake, Sees
  <2>2. (\A w \in Workers : s \in Sees(w) /\ ~Drowsy(w) => ~Drowsy(w)')
        => (Attended(s) => Attended(s)')
    BY <2>1 DEF Attended, Sees
  <2> HIDE DEF WInv
  <2>3. CASE StartPool
    <3>1. work'[s] = 0
      BY <2>3 DEF StartPool
    <3>2. QED
      BY <3>1
  <2>4. CASE Direct
    <3>1. UNCHANGED <<open, work>> /\ \A w \in Workers : Drowsy(w)' => Drowsy(w)
      BY <2>4 DEF Direct, Drowsy
    <3>2. QED
      BY <2>2, <3>1 DEF WInv, SeenInv
  <2>5. CASE Close
    BY <2>5 DEF Close
  <2>6. CASE Spawn
    <3>1. UNCHANGED <<open, work>> /\ \A w \in Workers : Drowsy(w)' => Drowsy(w)
      BY <2>6 DEF Spawn, Unspawned, Drowsy
    <3>2. QED
      BY <2>2, <3>1 DEF WInv, SeenInv
  <2>7. CASE AwaitPins
    <3>1. UNCHANGED <<open, work>> /\ \A w \in Workers : Drowsy(w)' => Drowsy(w)
      BY <2>7 DEF AwaitPins, Drowsy
    <3>2. QED
      BY <2>2, <3>1 DEF WInv, SeenInv
  <2>8. CASE OpenHost
    <3>1. work' = work /\ pc[Control] = "opening"
      BY <2>8 DEF OpenHost
    <3>2. QED
      BY <3>1 DEF WInv, FreshInv
  <2>9. CASE DrainWakers
    <3>1. UNCHANGED <<open, work>> /\ \A w \in Workers : Drowsy(w)' => Drowsy(w)
      BY <2>9 DEF DrainWakers, Drowsy
    <3>2. QED
      BY <2>2, <3>1 DEF WInv, SeenInv
  <2>10. CASE JoinAll
    <3>1. UNCHANGED <<open, work>> /\ \A w \in Workers : Drowsy(w)' => Drowsy(w)
      BY <2>10 DEF JoinAll, Drowsy
    <3>2. QED
      BY <2>2, <3>1 DEF WInv, SeenInv
  <2>11. CASE Clear
    <3>1. UNCHANGED <<open, work>> /\ \A w \in Workers : Drowsy(w)' => Drowsy(w)
      BY <2>11 DEF Clear, Drowsy
    <3>2. QED
      BY <2>2, <3>1 DEF WInv, SeenInv
  <2>12. CASE WakeWorker(Control)
    <3>1. UNCHANGED <<open, work>> /\ \A w \in Workers : Drowsy(w)' => Drowsy(w)
      BY <2>12 DEF WakeWorker, Drowsy
    <3>2. QED
      BY <2>2, <3>1 DEF WInv, SeenInv
  <2>13. CASE StopNext(Control) /\ UNCHANGED <<hostVars, wakeVars>>
    <3>1. UNCHANGED <<open, work>> /\ \A w \in Workers : Drowsy(w)' => Drowsy(w)
      BY <2>13 DEF StopNext, Request, WakeEach, OpenGate, Drowsy
    <3>2. QED
      BY <2>2, <3>1 DEF WInv, SeenInv
  <2>14. QED
        BY <2>3, <2>4, <2>5, <2>6, <2>7, <2>8, <2>9, <2>10, <2>11, <2>12,
      <2>13 DEF ControlStep
<1>7. PolicyInv'
  <2> USE DEF WakeTypes, PolicyInv
  <2>1. CASE StartPool
    BY <2>1 DEF StartPool
  <2>2. CASE Direct
    BY <2>2 DEF Direct
  <2>3. CASE Close
    BY <2>3 DEF Close
  <2>4. CASE Spawn
    BY <2>4 DEF Spawn, Unspawned
  <2>5. CASE AwaitPins
    BY <2>5 DEF AwaitPins
  <2>6. CASE OpenHost
    BY <2>6 DEF OpenHost
  <2>7. CASE DrainWakers
    BY <2>7 DEF DrainWakers
  <2>8. CASE JoinAll
    BY <2>8 DEF JoinAll
  <2>9. CASE Clear
    BY <2>9 DEF Clear
  <2>10. CASE WakeWorker(Control)
    BY <2>10 DEF WakeWorker
  <2>11. CASE StopNext(Control) /\ UNCHANGED <<hostVars, wakeVars>>
    BY <2>11 DEF StopNext, Request, WakeEach, OpenGate
  <2>12. QED
        BY <2>1, <2>2, <2>3, <2>4, <2>5, <2>6, <2>7, <2>8, <2>9, <2>10,
      <2>11 DEF ControlStep
<1>8. QED
  BY <1>3, <1>4, <1>5, <1>6, <1>7

(* What the invariant says of the initial states, and of a stutter.        *)
LEMMA InitWakes == Init => WInv
  BY PoolThreads DEF Init, WInv, WakeTypes, BitInv, FreshInv, SeenInv, PolicyInv, Late,
    Threads, Scopes

LEMMA StutterKeepsWakes == WInv /\ UNCHANGED vars => WInv'
<1> SUFFICES ASSUME WInv, UNCHANGED vars PROVE WInv'
  OBVIOUS
<1> USE DEF vars, workerVars, hostVars, wakeVars, flagVars, parkVars, idleVars, WInv
<1>1. WakeTypes' /\ BitInv' /\ FreshInv'
  BY DEF WakeTypes, BitInv, FreshInv
<1>2. SeenInv' /\ PolicyInv'
  BY DEF SeenInv, PolicyInv, Attended, Drowsy, OwesWake, Sees, At
<1>3. QED
  BY <1>1, <1>2

LEMMA WInvHolds == Spec => []WInv
<1>1. IInv /\ WInv /\ [Next]_vars => WInv'
  BY WorkerKeepsWakes, PublisherKeepsWakes, ControlKeepsWakes, StutterKeepsWakes DEF Next
<1>2. QED
  BY InitWakes, InvariantHolds, <1>1, PTL DEF Spec

LEMMA WInvSuffices == IInv /\ WInv => WakesReach
<1> SUFFICES ASSUME IInv, WInv PROVE WakesReach
  OBVIOUS
<1>1. WorkSeen
  BY DEF WInv, SeenInv, WorkSeen, Attended, Drowsy, Asleep, At
<1>2. PolicyHeard
  BY DEF WInv, PolicyInv, PolicyHeard, Asleep, At
<1>3. QED
  BY <1>1, <1>2 DEF WakesReach

(* However armings, timeouts, wakes, takings and changes of policy         *)
(* interleave: while a host is open and its pool not stopped, work that    *)
(* was published has somebody awake who sees it, or a publisher that has   *)
(* yet to wake such a worker; and nobody sleeps on under a policy that was *)
(* changed, unless the Director is about to wake it.                       *)
THEOREM NoWakeIsLost == Spec => []WakesReach
  BY InvariantHolds, WInvHolds, WInvSuffices, PTL
=============================================================================
