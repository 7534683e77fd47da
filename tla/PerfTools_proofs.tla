--------------------------- MODULE PerfTools_proofs ----------------------------
(***************************************************************************)
(* Theorems about the measurement tools, for any cells, arguments, outputs *)
(* of the benchmarks and numbers of runs, attempts and invocations: what   *)
(* they leave behind, which binaries the evidence is of, and what an exit  *)
(* status of 0 says.                                                       *)
(***************************************************************************)
EXTENDS PerfTools, SequenceTheorems, FiniteSetTheorems, TLAPS

-----------------------------------------------------------------------------
(* The gate.                                                               *)

(* The modes that may be run.                                              *)
ModesRunnable == {ModesBut(missing)[i] : missing \in SUBSET Range(Modes), i \in Nat}

Items == [mode : ModesRunnable, quiet : Nat, order : [Versions -> Nat],
          decision : {"insufficient", "classified", "inconclusive_work"}]

GateStates ==
    [pc : {"off", "add", "compile", "remove", "checks", "measure", "done"}, own : BOOLEAN,
     build : Versions, tree : SUBSET Versions, stuck : BOOLEAN, broken : BOOLEAN,
     missing : SUBSET Range(Modes), only : BOOLEAN, mode : Nat, kept : Nat, tries : Nat,
     ran : Nat, clean : BOOLEAN, first : [Versions -> Nat], items : Seq(Items), gate : Int,
     exit : Int]

(* The versions of the pairs kept alternate, the base first.               *)
Alternates(order, n) == order["base"] + order["candidate"] = n /\ order["base"] - order["candidate"] = n % 2

(* What the gate says of a mode agrees with its pairs.                     *)
ItemSound(item) ==
    /\ item.quiet < Repeats =>
          item.decision = "insufficient" \/ (item.decision = "inconclusive_work" /\ item.quiet > 0)
    /\ Alternates(item.order, item.quiet)

(* The modes judged so far are the first of those that are run.            *)
JudgedInOrder ==
    gt.missing = {} =>
        /\ Len(gt.items) = gt.mode - 1
        /\ \A i \in DOMAIN gt.items : i <= Len(Modes) /\ gt.items[i].mode = Modes[i]
        /\ gt.ran > 0 => gt.mode <= Len(Modes)

GateInv ==
    /\ gt \in GateStates
    /\ WorktreesRemoved
    /\ gt.pc = "add" /\ ~ gt.stuck => gt.tree = {}
    /\ gt.pc # "done" => gt.exit = Running /\ ~ gt.only
    /\ gt.pc = "off" => ~ gt.own
    /\ gt.pc \notin {"off", "done"} => gt.own
    /\ gt.pc \notin {"measure", "done"} => gt.items = <<>> /\ gt.mode = 1 /\ gt.kept = 0
                                           /\ gt.first = [v \in Versions |-> 0] /\ gt.missing = {}
                                           /\ gt.ran = 0
    /\ gt.pc = "measure" => JudgedInOrder /\ Alternates(gt.first, gt.kept)
    /\ \A i \in DOMAIN gt.items : ItemSound(gt.items[i])
    /\ GateHonest

LEMMA GateStart == GateInit => GateInv
<1>1. SUFFICES ASSUME gt = GateIdle PROVE GateInv
  BY DEF GateInit
<1>2. /\ gt.pc = "off" /\ ~ gt.own /\ gt.exit = Running /\ ~ gt.only /\ gt.items = <<>> /\ gt.mode = 1 /\ gt.kept = 0
      /\ gt.first = [v \in Versions |-> 0] /\ gt.missing = {} /\ gt.tree = {} /\ gt.ran = 0
  BY <1>1 DEF GateIdle
<1>3. gt \in GateStates
  <2>1. <<>> \in Seq(Items) /\ [v \in Versions |-> 0] \in [Versions -> Nat] /\ "base" \in Versions
    BY DEF Versions
  <2>2. Running \in Int /\ Absent \in Int
    BY DEF Running, Absent
  <2>3. QED
    BY <1>1, <2>1, <2>2 DEF GateStates, GateIdle
<1>4. WorktreesRemoved /\ GateHonest
  BY <1>2 DEF WorktreesRemoved, GateHonest, Running
<1>5. QED
  BY <1>2, <1>3, <1>4 DEF GateInv

(* It ends with another status than 0.                                     *)
LEMMA GateFails ==
    ASSUME GateInv, gt' \in GateStates, gt'.pc = "done", gt'.exit \in Int \ {0},
           gt'.items = gt.items, gt'.tree = {} \/ gt'.stuck,
           gt'.own /\ gt'.exit # Killed => gt'.gate = gt'.exit
    PROVE  GateInv'
<1>1. WorktreesRemoved' /\ GateHonest'
  BY DEF WorktreesRemoved, GateHonest
<1>2. \A i \in DOMAIN gt'.items : ItemSound(gt'.items[i])
  BY DEF GateInv
<1>3. QED
  BY <1>1, <1>2 DEF GateInv, ItemSound, Alternates

LEMMA GateArgumentsStep == ASSUME GateInv, GateArguments PROVE GateInv'
<1> DEFINE two == 2
           none == Absent
<1>0. gt \in GateStates /\ two \in Int /\ none \in Int /\ two # 0 /\ gt.gate \in Int /\ gt.pc = "off"
      /\ 0 \in Int
  BY DEF GateInv, GateStates, Absent, GateArguments
<1>1. gt.tree = {} \/ gt.stuck
  BY <1>0 DEF GateInv, WorktreesRemoved
<1>2. PICK exists \in BOOLEAN :
          \/ gt' = [gt EXCEPT !.pc = "done", !.exit = two, !.gate = IF exists THEN 0 ELSE none]
          \/ gt' = [gt EXCEPT !.pc = "done", !.exit = two, !.gate = IF exists THEN two ELSE @]
          \/ ~ exists /\ gt' = [gt EXCEPT !.pc = "add", !.own = TRUE]
  BY Zenon DEF GateArguments, Raised
<1> HIDE DEF two, none
<1>3. ASSUME NEW g \in Int, gt' = [gt EXCEPT !.pc = "done", !.exit = two, !.gate = g], ~ gt.own
      PROVE  GateInv'
  <2>1. gt' \in GateStates
    BY <1>0, <1>3 DEF GateStates
  <2>2. gt'.pc = "done" /\ gt'.exit = two /\ gt'.items = gt.items /\ gt'.tree = gt.tree
        /\ gt'.stuck = gt.stuck /\ gt'.own = gt.own
    BY <1>0, <1>3 DEF GateStates
  <2>3. QED
    BY <1>0, <1>1, <1>3, <2>1, <2>2, GateFails
<1>4. CASE gt' = [gt EXCEPT !.pc = "add", !.own = TRUE]
  <2>1. gt' \in GateStates
    BY <1>0, <1>4 DEF GateStates
  <2>2. gt'.pc = "add" /\ gt'.own /\ gt'.exit = gt.exit /\ gt'.items = gt.items /\ gt'.tree = gt.tree
        /\ gt'.stuck = gt.stuck /\ gt'.only = gt.only /\ gt'.mode = gt.mode /\ gt'.kept = gt.kept
        /\ gt'.first = gt.first /\ gt'.missing = gt.missing /\ gt'.ran = gt.ran
    BY <1>0, <1>4 DEF GateStates
  <2>3. QED
    BY <1>0, <1>1, <2>1, <2>2 DEF GateInv, WorktreesRemoved, GateHonest, Running, ItemSound, Alternates
<1>5. ~ gt.own
  BY <1>0 DEF GateInv
<1>6. (IF exists THEN 0 ELSE none) \in Int /\ (IF exists THEN two ELSE gt.gate) \in Int
  BY <1>0
<1>7. QED
  BY <1>2, <1>3, <1>4, <1>5, <1>6, Zenon

LEMMA AddWorktreeStep == ASSUME GateInv, AddWorktree PROVE GateInv'
<1> DEFINE two == 2
<1>0. gt \in GateStates /\ two \in Int /\ two # 0 /\ gt.pc = "add"
  BY DEF GateInv, AddWorktree
<1>1. gt.tree = {} \/ gt.stuck
  BY <1>0 DEF GateInv
<1>2. \/ gt' = [gt EXCEPT !.pc = "compile", !.tree = {gt.build}]
      \/ gt' = [gt EXCEPT !.pc = "done", !.exit = two, !.gate = two]
  BY DEF AddWorktree, Raised
<1> HIDE DEF two
<1>3. CASE gt' = [gt EXCEPT !.pc = "done", !.exit = two, !.gate = two]
  <2>1. gt' \in GateStates
    BY <1>0, <1>3 DEF GateStates
  <2>2. gt'.pc = "done" /\ gt'.exit = two /\ gt'.items = gt.items /\ gt'.tree = gt.tree
        /\ gt'.stuck = gt.stuck /\ gt'.gate = two
    BY <1>0, <1>3 DEF GateStates
  <2>3. QED
    BY <1>0, <1>1, <2>1, <2>2, GateFails
<1>4. CASE gt' = [gt EXCEPT !.pc = "compile", !.tree = {gt.build}]
  <2>1. gt' \in GateStates
    BY <1>0, <1>4 DEF GateStates
  <2>2. gt'.pc = "compile" /\ gt'.own = gt.own /\ gt'.exit = gt.exit /\ gt'.items = gt.items
        /\ gt'.only = gt.only /\ gt'.mode = gt.mode /\ gt'.kept = gt.kept
        /\ gt'.first = gt.first /\ gt'.missing = gt.missing /\ gt'.ran = gt.ran
    BY <1>0, <1>4 DEF GateStates
  <2>3. QED
    BY <1>0, <2>1, <2>2 DEF GateInv, WorktreesRemoved, GateHonest, Running, ItemSound, Alternates
<1>5. QED
  BY <1>2, <1>3, <1>4

LEMMA CompileStep == ASSUME GateInv, Compile PROVE GateInv'
<1>0. gt \in GateStates /\ gt.pc = "compile"
  BY DEF GateInv, Compile
<1>1. PICK ok \in BOOLEAN : gt' = [gt EXCEPT !.pc = "remove", !.broken = ~ ok]
  BY Zenon DEF Compile
<1>2. gt' \in GateStates
  BY <1>0, <1>1 DEF GateStates
<1>3. gt'.pc = "remove" /\ gt'.own = gt.own /\ gt'.exit = gt.exit /\ gt'.items = gt.items
      /\ gt'.only = gt.only /\ gt'.mode = gt.mode /\ gt'.kept = gt.kept
      /\ gt'.first = gt.first /\ gt'.missing = gt.missing /\ gt'.ran = gt.ran
  BY <1>0, <1>1 DEF GateStates
<1>4. QED
  BY <1>0, <1>2, <1>3 DEF GateInv, WorktreesRemoved, GateHonest, Running, ItemSound, Alternates

LEMMA RemoveWorktreeStep == ASSUME GateInv, RemoveWorktree PROVE GateInv'
<1> DEFINE two == 2
<1>0. gt \in GateStates /\ two \in Int /\ two # 0 /\ gt.pc = "remove"
  BY DEF GateInv, RemoveWorktree
<1>2. \/ gt.broken /\ gt' = [[gt EXCEPT !.pc = "done", !.exit = two, !.gate = two] EXCEPT !.tree = {}]
      \/ gt' = [gt EXCEPT !.tree = {}, !.build = "candidate",
                         !.pc = IF gt.build = "base" THEN "add" ELSE "checks"]
      \/ gt' = [[gt EXCEPT !.pc = "done", !.exit = two, !.gate = two] EXCEPT !.stuck = TRUE]
  BY DEF RemoveWorktree, Raised, Removed
<1> HIDE DEF two
<1>3. CASE gt' = [[gt EXCEPT !.pc = "done", !.exit = two, !.gate = two] EXCEPT !.tree = {}]
  <2>1. gt' \in GateStates
    BY <1>0, <1>3 DEF GateStates
  <2>2. gt'.pc = "done" /\ gt'.exit = two /\ gt'.items = gt.items /\ gt'.tree = {} /\ gt'.gate = two
    BY <1>0, <1>3 DEF GateStates
  <2>3. QED
    BY <1>0, <2>1, <2>2, GateFails
<1>4. CASE gt' = [[gt EXCEPT !.pc = "done", !.exit = two, !.gate = two] EXCEPT !.stuck = TRUE]
  <2>1. gt' \in GateStates
    BY <1>0, <1>4 DEF GateStates
  <2>2. gt'.pc = "done" /\ gt'.exit = two /\ gt'.items = gt.items /\ gt'.stuck /\ gt'.gate = two
    BY <1>0, <1>4 DEF GateStates
  <2>3. QED
    BY <1>0, <2>1, <2>2, GateFails
<1>5. ASSUME NEW l \in {"add", "checks"}, gt' = [gt EXCEPT !.tree = {}, !.build = "candidate", !.pc = l]
      PROVE  GateInv'
  <2>1. gt' \in GateStates
    BY <1>0, <1>5 DEF GateStates, Versions
  <2>2. gt'.pc = l /\ gt'.own = gt.own /\ gt'.exit = gt.exit /\ gt'.items = gt.items
        /\ gt'.only = gt.only /\ gt'.mode = gt.mode /\ gt'.kept = gt.kept /\ gt'.tree = {}
        /\ gt'.first = gt.first /\ gt'.missing = gt.missing /\ gt'.ran = gt.ran
    BY <1>0, <1>5 DEF GateStates
  <2>3. QED
    BY <1>0, <1>5, <2>1, <2>2 DEF GateInv, WorktreesRemoved, GateHonest, Running, ItemSound, Alternates
<1>6. QED
  BY <1>2, <1>3, <1>4, <1>5, Zenon

LEMMA GateChecksStep == ASSUME GateInv, GateChecks PROVE GateInv'
<1> DEFINE two == 2
           zero == 0
<1>a. gt \in GateStates /\ gt.pc = "checks"
  BY Zenon DEF GateInv, GateChecks
<1>b. two \in Int /\ two # 0 /\ zero = 0 /\ zero \in Int
  OBVIOUS
<1>0. gt \in GateStates /\ two \in Int /\ two # 0 /\ zero = 0 /\ zero \in Int /\ gt.pc = "checks"
  BY <1>a, <1>b
<1>1. gt.tree = {} \/ gt.stuck
  BY <1>0 DEF GateInv, WorktreesRemoved
<1>2. \/ gt' = [gt EXCEPT !.pc = "done", !.gate = two, !.exit = two]
      \/ gt' = [[gt EXCEPT !.pc = "done", !.gate = zero, !.exit = zero] EXCEPT !.only = TRUE]
      \/ \E missing \in SUBSET {Modes[i] : i \in DOMAIN Modes} :
             gt' = [gt EXCEPT !.pc = "measure", !.missing = missing]
  BY Zenon DEF GateChecks, Recorded
<1> HIDE DEF two, zero
<1>3. CASE gt' = [gt EXCEPT !.pc = "done", !.gate = two, !.exit = two]
  <2>1. gt' \in GateStates
    BY <1>0, <1>3 DEF GateStates
  <2>2. gt'.pc = "done" /\ gt'.exit = two /\ gt'.items = gt.items /\ gt'.tree = gt.tree
        /\ gt'.stuck = gt.stuck /\ gt'.gate = two
    BY <1>0, <1>3 DEF GateStates
  <2>3. QED
    BY <1>0, <1>1, <2>1, <2>2, GateFails
<1>4. CASE gt' = [[gt EXCEPT !.pc = "done", !.gate = zero, !.exit = zero] EXCEPT !.only = TRUE]
  <2>1. gt' \in GateStates
    BY <1>0, <1>4 DEF GateStates
  <2>2. gt'.pc = "done" /\ gt'.exit = zero /\ gt'.items = gt.items /\ gt'.tree = gt.tree
        /\ gt'.stuck = gt.stuck /\ gt'.gate = zero /\ gt'.only
    BY <1>0, <1>4 DEF GateStates
  <2>3. WorktreesRemoved' /\ GateHonest'
    BY <1>1, <2>2 DEF WorktreesRemoved, GateHonest
  <2>4. QED
    BY <2>1, <2>2, <2>3 DEF GateInv, ItemSound, Alternates
<1>5. ASSUME NEW missing \in SUBSET {Modes[i] : i \in DOMAIN Modes},
             gt' = [gt EXCEPT !.pc = "measure", !.missing = missing]
      PROVE  GateInv'
  <2>0. missing \in SUBSET Range(Modes)
    BY <1>5 DEF Range
  <2>1. gt' \in GateStates
    BY <1>0, <1>5, <2>0 DEF GateStates
  <2>2. gt'.pc = "measure" /\ gt'.own = gt.own /\ gt'.exit = gt.exit /\ gt'.items = gt.items
        /\ gt'.only = gt.only /\ gt'.mode = gt.mode /\ gt'.kept = gt.kept /\ gt'.tree = gt.tree
        /\ gt'.first = gt.first /\ gt'.ran = gt.ran /\ gt'.stuck = gt.stuck
    BY <1>0, <1>5 DEF GateStates
  <2>3. gt.items = <<>> /\ gt.mode = 1 /\ gt.kept = 0 /\ gt.first = [v \in Versions |-> 0] /\ gt.ran = 0
    BY <1>0 DEF GateInv
  <2>4. Alternates(gt.first, gt.kept) /\ JudgedInOrder'
    BY <2>2, <2>3 DEF Alternates, JudgedInOrder, Versions
  <2>5. WorktreesRemoved' /\ GateHonest'
    BY <1>0, <1>1, <2>2 DEF GateInv, WorktreesRemoved, GateHonest, Running
  <2>6. QED
    BY <1>0, <2>1, <2>2, <2>3, <2>4, <2>5 DEF GateInv, ItemSound, Alternates
<1>6. QED
  BY <1>2, <1>3, <1>4, <1>5, Zenon

LEMMA RunVersionStep == ASSUME GateInv, RunVersion PROVE GateInv'
<1> DEFINE two == 2
<1>a. gt \in GateStates /\ gt.pc = "measure" /\ gt.mode <= Len(ModesRun)
  BY Zenon DEF GateInv, RunVersion
<1>b. two \in Int /\ two # 0
  OBVIOUS
<1>0. gt \in GateStates /\ two \in Int /\ two # 0 /\ gt.pc = "measure" /\ gt.mode <= Len(ModesRun)
  BY <1>a, <1>b
<1>1. gt.tree = {} \/ gt.stuck
  BY <1>0 DEF GateInv, WorktreesRemoved
<1>2. \/ gt' = [gt EXCEPT !.pc = "done", !.gate = two, !.exit = two]
      \/ \E clean \in BOOLEAN : gt' = [gt EXCEPT !.ran = @ + 1, !.clean = @ /\ clean]
  BY Zenon DEF RunVersion, Recorded
<1> HIDE DEF two
<1>3. CASE gt' = [gt EXCEPT !.pc = "done", !.gate = two, !.exit = two]
  <2>1. gt' \in GateStates
    BY <1>0, <1>3 DEF GateStates
  <2>2. gt'.pc = "done" /\ gt'.exit = two /\ gt'.items = gt.items /\ gt'.tree = gt.tree
        /\ gt'.stuck = gt.stuck /\ gt'.gate = two
    BY <1>0, <1>3 DEF GateStates
  <2>3. QED
    BY <1>0, <1>1, <2>1, <2>2, GateFails
<1>4. ASSUME NEW clean \in BOOLEAN, gt' = [gt EXCEPT !.ran = @ + 1, !.clean = @ /\ clean]
      PROVE  GateInv'
  <2>1. gt' \in GateStates
    <3> DEFINE c == gt.clean /\ clean
           ran == gt.ran + 1
    <3>1. c \in BOOLEAN /\ gt' = [gt EXCEPT !.ran = ran, !.clean = c]
      BY <1>4
    <3>2. gt.ran \in Nat
      BY <1>0 DEF GateStates
    <3>3. ran \in Nat
      BY <3>2
    <3> HIDE DEF c, ran
    <3>4. QED
      BY <1>0, <3>1, <3>3 DEF GateStates
  <2>2. gt'.pc = "measure" /\ gt'.own = gt.own /\ gt'.exit = gt.exit /\ gt'.items = gt.items
        /\ gt'.only = gt.only /\ gt'.mode = gt.mode /\ gt'.kept = gt.kept /\ gt'.tree = gt.tree
        /\ gt'.first = gt.first /\ gt'.missing = gt.missing /\ gt'.stuck = gt.stuck
    BY <1>0, <1>4 DEF GateStates
  <2>3. gt.missing = {} => gt.mode <= Len(Modes)
    BY <1>0 DEF ModesRun, ModesBut
  <2>4. JudgedInOrder'
    BY <1>0, <2>2, <2>3 DEF GateInv, JudgedInOrder
  <2>5. WorktreesRemoved' /\ GateHonest'
    BY <1>0, <1>1, <2>2 DEF GateInv, WorktreesRemoved, GateHonest, Running
  <2>6. QED
    BY <1>0, <2>1, <2>2, <2>4, <2>5 DEF GateInv, ItemSound, Alternates
<1>5. QED
  BY <1>2, <1>3, <1>4, Zenon

LEMMA InterruptGateStep == ASSUME GateInv, InterruptGate PROVE GateInv'
<1> DEFINE e == Killed
<1>0. gt \in GateStates /\ e \in Int /\ e # 0 /\ {gt.build} \in SUBSET Versions /\ e = Killed
  BY DEF GateInv, GateStates, Killed
<1>1. \/ gt' = [gt EXCEPT !.pc = "done", !.exit = e, !.tree = {}]
      \/ gt' = [gt EXCEPT !.pc = "done", !.exit = e, !.stuck = TRUE]
      \/ gt' = [gt EXCEPT !.pc = "done", !.exit = e, !.stuck = TRUE, !.tree = {gt.build}]
  BY DEF InterruptGate
<1> HIDE DEF e
<1>2. gt' \in GateStates
  <2>1. CASE gt' = [gt EXCEPT !.pc = "done", !.exit = e, !.tree = {}]
    BY <1>0, <2>1 DEF GateStates
  <2>2. CASE gt' = [gt EXCEPT !.pc = "done", !.exit = e, !.stuck = TRUE]
    BY <1>0, <2>2 DEF GateStates
  <2>3. CASE gt' = [gt EXCEPT !.pc = "done", !.exit = e, !.stuck = TRUE, !.tree = {gt.build}]
    BY <1>0, <2>3 DEF GateStates
  <2>4. QED
    BY <1>1, <2>1, <2>2, <2>3
<1>3. gt'.pc = "done" /\ gt'.exit = e /\ gt'.items = gt.items /\ (gt'.tree = {} \/ gt'.stuck)
  BY <1>0, <1>1 DEF GateStates
<1>4. QED
  BY <1>0, <1>2, <1>3, GateFails

(* The versions of one more pair.                                          *)
LEMMA PairAlternates ==
    ASSUME gt \in GateStates, Alternates(gt.first, gt.kept)
    PROVE  Alternates([gt.first EXCEPT ![FirstVersion] = @ + 1], gt.kept + 1)
           /\ [gt.first EXCEPT ![FirstVersion] = @ + 1] \in [Versions -> Nat]
<1>1. gt.first \in [Versions -> Nat] /\ gt.kept \in Nat
  BY DEF GateStates
<1>2. CASE gt.kept % 2 = 0
  <2>1. FirstVersion = "base" /\ (gt.kept + 1) % 2 = 1
    BY <1>1, <1>2 DEF FirstVersion
  <2>2. QED
    BY <1>1, <1>2, <2>1 DEF Alternates, Versions
<1>3. CASE gt.kept % 2 # 0
  <2>1. FirstVersion = "candidate" /\ gt.kept % 2 = 1 /\ (gt.kept + 1) % 2 = 0
    BY <1>1, <1>3 DEF FirstVersion
  <2>2. QED
    BY <1>1, <1>3, <2>1 DEF Alternates, Versions
<1>4. QED
  BY <1>2, <1>3

LEMMA EndPairStep == ASSUME GateInv, EndPair PROVE GateInv'
<1> DEFINE keeps == Keeps(gt.clean)
           kept == gt.kept + (IF keeps THEN 1 ELSE 0)
           first == IF keeps THEN [gt.first EXCEPT ![FirstVersion] = @ + 1] ELSE gt.first
           mode == ModesRun[gt.mode]
<1>0. gt \in GateStates /\ gt.pc = "measure" /\ gt.ran = 2
  BY Zenon DEF GateInv, EndPair
<1>1. gt.kept \in Nat /\ gt.tries \in Nat /\ gt.mode \in Nat /\ gt.first \in [Versions -> Nat]
      /\ gt.items \in Seq(Items) /\ gt.missing \in SUBSET Range(Modes) /\ gt.clean \in BOOLEAN
  BY <1>0 DEF GateStates
<1>2. Alternates(gt.first, gt.kept) /\ JudgedInOrder
  BY <1>0 DEF GateInv
<1>3. Alternates(first, kept) /\ kept \in Nat /\ first \in [Versions -> Nat]
  BY <1>0, <1>1, <1>2, PairAlternates
<1>4. mode \in ModesRunnable
  BY <1>1 DEF ModesRun, ModesRunnable
<1>5. gt.tree = {} \/ gt.stuck
  BY <1>0 DEF GateInv, WorktreesRemoved
<1>6. \/ \E decision \in Decisions(mode, kept) :
            gt' = [[gt EXCEPT !.ran = 0, !.clean = TRUE] EXCEPT
                     !.mode = @ + 1, !.kept = 0, !.tries = 0, !.first = [v \in Versions |-> 0],
                     !.items = Append(@, [mode |-> mode, quiet |-> kept, order |-> first,
                                          decision |-> decision])]
      \/ gt' = [[gt EXCEPT !.ran = 0, !.clean = TRUE] EXCEPT !.kept = kept, !.tries = @ + 1,
                     !.first = first]
  BY Zenon DEF EndPair
<1>7. ASSUME NEW decision \in Decisions(mode, kept),
             gt' = [[gt EXCEPT !.ran = 0, !.clean = TRUE] EXCEPT
                     !.mode = @ + 1, !.kept = 0, !.tries = 0, !.first = [v \in Versions |-> 0],
                     !.items = Append(@, [mode |-> mode, quiet |-> kept, order |-> first,
                                          decision |-> decision])]
      PROVE  GateInv'
  <2> DEFINE item == [mode |-> mode, quiet |-> kept, order |-> first, decision |-> decision]
             none == [v \in Versions |-> 0]
             items == Append(gt.items, item)
             zero == 0
             next == gt.mode + 1
  <2>1. decision \in {"insufficient", "classified", "inconclusive_work"} /\ (kept < Repeats =>
            decision = "insufficient" \/ (decision = "inconclusive_work" /\ kept > 0))
    <3> HIDE DEF kept, mode
    <3>1. \/ kept < Repeats /\ decision = "insufficient"
          \/ ~ (kept < Repeats) /\ decision = "classified"
          \/ kept > 0 /\ decision = "inconclusive_work"
      BY <1>7 DEF Decisions
    <3>2. kept \in Nat /\ Repeats \in Nat
      BY <1>3, GateArgs
    <3>3. decision \in {"insufficient", "classified", "inconclusive_work"}
      BY <3>1
    <3>4. kept < Repeats => decision = "insufficient" \/ (decision = "inconclusive_work" /\ kept > 0)
      BY <3>1, <3>2
    <3>5. QED
      BY <3>3, <3>4
  <2>2. item \in Items /\ ItemSound(item)
    BY <1>3, <1>4, <2>1 DEF Items, ItemSound
  <2>3. none \in [Versions -> Nat] /\ Alternates(none, 0)
    BY DEF Alternates, Versions
  <2>4. gt' = [[gt EXCEPT !.ran = zero, !.clean = TRUE] EXCEPT
                     !.mode = next, !.kept = zero, !.tries = zero, !.first = none, !.items = items]
    BY <1>7
  <2>5. zero \in Nat /\ next \in Nat /\ zero = 0
    BY <1>1
  <2> HIDE DEF item
  <2>6. items \in Seq(Items) /\ Len(items) = Len(gt.items) + 1
        /\ \A i \in 1 .. Len(items) : items[i] = IF i <= Len(gt.items) THEN gt.items[i] ELSE item
    BY <1>1, <2>2, AppendProperties
  <2> HIDE DEF items, none, zero, next
  <2>7. gt' \in GateStates
    BY <1>0, <2>3, <2>4, <2>5, <2>6 DEF GateStates
  <2>8. gt'.pc = "measure" /\ gt'.own = gt.own /\ gt'.exit = gt.exit /\ gt'.items = items
        /\ gt'.only = gt.only /\ gt'.mode = next /\ gt'.kept = zero /\ gt'.tree = gt.tree
        /\ gt'.first = none /\ gt'.missing = gt.missing /\ gt'.stuck = gt.stuck /\ gt'.ran = zero
    BY <1>0, <2>4 DEF GateStates
  <2>9. Len(gt.items) \in Nat /\ DOMAIN items = 1 .. Len(gt.items) + 1 /\ DOMAIN gt.items = 1 .. Len(gt.items)
    BY <1>1, <2>6, LenProperties
  <2>10. \A i \in DOMAIN items : ItemSound(items[i])
    <3>1. \A i \in DOMAIN gt.items : ItemSound(gt.items[i])
      BY DEF GateInv
    <3>2. QED
      BY <2>2, <2>6, <2>9, <3>1
  <2>11. JudgedInOrder'
    <3>1. SUFFICES ASSUME gt.missing = {}
                   PROVE  /\ Len(items) = next - 1
                          /\ \A i \in DOMAIN items : i <= Len(Modes) /\ items[i].mode = Modes[i]
      BY <2>5, <2>8 DEF JudgedInOrder
    <3>2. /\ Len(gt.items) = gt.mode - 1 /\ gt.mode <= Len(Modes)
          /\ \A i \in DOMAIN gt.items : i <= Len(Modes) /\ gt.items[i].mode = Modes[i]
      <4>1. gt.ran > 0
        BY <1>0
      <4>2. QED
        BY <1>2, <3>1, <4>1, Zenon DEF JudgedInOrder
    <3>3. item.mode = Modes[gt.mode]
      BY <3>1 DEF item, ModesRun, ModesBut
    <3>4. Len(items) = next - 1
      BY <1>1, <2>6, <3>2 DEF next
    <3>5. ASSUME NEW i \in DOMAIN items PROVE i <= Len(Modes) /\ items[i].mode = Modes[i]
      <4>1. CASE i <= Len(gt.items)
        BY <2>6, <2>9, <3>2, <3>5, <4>1
      <4>2. CASE ~ (i <= Len(gt.items))
        <5>1. i = gt.mode /\ i \in 1 .. Len(items)
          <6>1. i \in 1 .. Len(gt.items) + 1
            BY <2>9
          <6>2. i = Len(gt.items) + 1
            BY <2>9, <4>2, <6>1
          <6>3. QED
            BY <1>1, <2>6, <2>9, <3>2, <6>1, <6>2
        <5>3. items[i] = item
          BY <2>6, <4>2, <5>1
        <5>2. QED
          BY <3>2, <3>3, <5>1, <5>3
      <4>3. QED
        BY <4>1, <4>2
    <3>6. QED
      BY <3>4, <3>5
  <2>12. WorktreesRemoved' /\ GateHonest'
    BY <1>0, <1>5, <2>8 DEF GateInv, WorktreesRemoved, GateHonest, Running
  <2>13. QED
    BY <1>0, <2>3, <2>5, <2>7, <2>8, <2>10, <2>11, <2>12 DEF GateInv, ItemSound, Alternates
<1>8. CASE gt' = [[gt EXCEPT !.ran = 0, !.clean = TRUE] EXCEPT !.kept = kept, !.tries = @ + 1,
                     !.first = first]
  <2> DEFINE zero == 0
             tries == gt.tries + 1
  <2>1. zero \in Nat /\ tries \in Nat /\ zero = 0
    BY <1>1
  <2>2. gt' = [[gt EXCEPT !.ran = zero, !.clean = TRUE] EXCEPT !.kept = kept, !.tries = tries, !.first = first]
    BY <1>8
  <2> HIDE DEF zero, tries, first, kept
  <2>3. gt' \in GateStates
    BY <1>0, <1>3, <2>1, <2>2 DEF GateStates
  <2>4. gt'.pc = "measure" /\ gt'.own = gt.own /\ gt'.exit = gt.exit /\ gt'.items = gt.items
        /\ gt'.only = gt.only /\ gt'.mode = gt.mode /\ gt'.kept = kept /\ gt'.tree = gt.tree
        /\ gt'.first = first /\ gt'.missing = gt.missing /\ gt'.stuck = gt.stuck /\ gt'.ran = zero
    BY <1>0, <2>2 DEF GateStates
  <2>5. JudgedInOrder'
    BY <1>2, <2>1, <2>4 DEF JudgedInOrder
  <2>6. WorktreesRemoved' /\ GateHonest'
    BY <1>0, <1>5, <2>4 DEF GateInv, WorktreesRemoved, GateHonest, Running
  <2>7. QED
    BY <1>0, <1>3, <2>3, <2>4, <2>5, <2>6 DEF GateInv, ItemSound, Alternates
<1>9. QED
  BY <1>6, <1>7, <1>8, Zenon

LEMMA GateReportStep == ASSUME GateInv, GateReport PROVE GateInv'
<1> DEFINE code == IF gt.missing # {} \/ \E i \in DOMAIN gt.items : Insufficient(gt.items[i]) THEN 2 ELSE 0
<1>0. gt \in GateStates /\ gt.pc = "measure" /\ gt.mode > Len(ModesRun) /\ code \in Int
  BY DEF GateInv, GateReport
<1>1. gt.tree = {} \/ gt.stuck
  BY <1>0 DEF GateInv, WorktreesRemoved
<1>2. gt' = [gt EXCEPT !.pc = "done", !.gate = code, !.exit = code]
  BY DEF GateReport, Recorded
<1>3. code = 0 => gt.missing = {} /\ \A i \in DOMAIN gt.items : gt.items[i].decision # "insufficient"
  BY DEF Insufficient
<1> HIDE DEF code
<1>4. gt' \in GateStates
  BY <1>0, <1>2 DEF GateStates
<1>5. gt'.pc = "done" /\ gt'.exit = code /\ gt'.items = gt.items /\ gt'.tree = gt.tree
      /\ gt'.stuck = gt.stuck /\ gt'.gate = code /\ gt'.only = gt.only
  BY <1>0, <1>2 DEF GateStates
<1>6. CASE code = 0
  <2>1. \A i \in DOMAIN gt.items : ItemSound(gt.items[i])
    BY DEF GateInv
  <2>2. gt.items \in Seq(Items) /\ gt.mode \in Nat /\ Modes \in Seq(STRING)
    BY <1>0, GateArgs DEF GateStates
  <2>3. /\ Len(gt.items) = gt.mode - 1
        /\ \A i \in DOMAIN gt.items : i <= Len(Modes) /\ gt.items[i].mode = Modes[i]
    <3>1. JudgedInOrder /\ gt.missing = {}
      BY <1>0, <1>3, <1>6, Zenon DEF GateInv
    <3>2. QED
      BY <3>1, Zenon DEF JudgedInOrder
  <2>4. gt.mode > Len(Modes)
    BY <1>0, <1>3, <1>6 DEF ModesRun, ModesBut
  <2>5. Len(gt.items) = Len(Modes) /\ DOMAIN gt.items = 1 .. Len(gt.items) /\ DOMAIN Modes = 1 .. Len(Modes)
    <3>1. Len(gt.items) \in Nat /\ Len(Modes) \in Nat /\ DOMAIN gt.items = 1 .. Len(gt.items)
          /\ DOMAIN Modes = 1 .. Len(Modes)
      BY <2>2, LenProperties
    <3>2. Len(gt.items) > 0 => Len(gt.items) <= Len(Modes)
      BY <2>3, <3>1
    <3>3. QED
      BY <2>2, <2>3, <2>4, <3>1, <3>2
  <2>6. [i \in DOMAIN gt.items |-> gt.items[i].mode] = Modes
    BY <2>2, <2>3, <2>5
  <2>7. \A i \in DOMAIN gt.items : gt.items[i].quiet < Repeats =>
             gt.items[i].quiet > 0 /\ gt.items[i].decision = "inconclusive_work"
    BY <1>3, <1>6, <2>1 DEF ItemSound
  <2>8. WorktreesRemoved' /\ GateHonest'
    BY <1>1, <1>5, <2>6, <2>7 DEF WorktreesRemoved, GateHonest
  <2>9. QED
    BY <1>4, <1>5, <2>1, <2>8 DEF GateInv, ItemSound, Alternates
<1>7. CASE code # 0
  BY <1>0, <1>1, <1>4, <1>5, <1>7, GateFails
<1>8. QED
  BY <1>6, <1>7

LEMMA GateStep == ASSUME GateInv, GateNext \/ UNCHANGED gt PROVE GateInv'
<1>1. CASE UNCHANGED gt
  BY <1>1 DEF GateInv, WorktreesRemoved, JudgedInOrder, ItemSound, Alternates, GateHonest
<1>2. CASE GateNext
  BY <1>2, GateArgumentsStep, AddWorktreeStep, CompileStep, RemoveWorktreeStep, GateChecksStep,
     RunVersionStep, EndPairStep, GateReportStep, InterruptGateStep DEF GateNext
<1>3. QED
  BY <1>1, <1>2

-----------------------------------------------------------------------------
(* The split.                                                              *)

(* Who belongs to no part of the set S is gone.                            *)
Outside(S) == \A p \in Parts \ S : alive[p] = {}

ChildTypes == alive \in [Parts -> SUBSET Members] /\ known \in [Parts -> BOOLEAN]

SplitStates ==
    [pc : {"off", "spawn", "listed", "collect", "term", "kill", "report", "reap", "done", "stopped"}, round : Nat,
     cell : DOMAIN SplitCells, at : Nat, late : BOOLEAN, parsed : Seq(BOOLEAN),
     samples : [DOMAIN SplitCells -> Nat], tried : [DOMAIN SplitCells -> Nat], exit : Int]

(* The parts of the sample under way, by what was started and collected.   *)
SplitParts ==
    /\ sp.pc = "off" => Quiet /\ sp.at = 1
    /\ sp.pc = "spawn" => sp.at \in 1 .. PartCount /\ Outside(1 .. sp.at - 1)
    /\ sp.pc = "listed" => sp.at \in 1 .. PartCount /\ Outside(1 .. sp.at)
    /\ sp.pc = "collect" => sp.at \in 1 .. PartCount + 1 /\ Outside(sp.at .. PartCount)
    /\ sp.pc \in {"term", "kill"} => sp.at \in 1 .. PartCount /\ Outside(sp.at .. PartCount)
    /\ sp.pc = "report" => Quiet
    /\ sp.pc = "done" => \A p \in Parts : known[p] => "leader" \notin alive[p]

(* Every cell has been tried once a round, in order.                       *)
SplitRounds ==
    /\ sp.pc \notin {"report", "reap", "done", "stopped"} =>
          /\ sp.round \in 1 .. SplitRuns
          /\ \A i \in DOMAIN SplitCells : sp.tried[i] = IF i < sp.cell THEN sp.round ELSE sp.round - 1
    /\ sp.pc = "report" => \A i \in DOMAIN SplitCells : sp.tried[i] = SplitRuns
    /\ sp.pc \notin {"reap", "done", "stopped"} => sp.exit = Running
    /\ sp.pc \in {"reap", "stopped"} => sp.exit # 0

SplitInv == sp \in SplitStates /\ ChildTypes /\ SplitParts /\ SplitRounds /\ SplitComplete

LEMMA PartCounts ==
    ASSUME sp \in SplitStates
    PROVE  PartCount \in Nat \ {0} /\ 1 .. PartCount \subseteq Parts
  BY SplitArgs DEF PartCount, SplitStates

LEMMA SplitIsClean == SplitInv => SplitClean
<1>1. SUFFICES ASSUME SplitInv PROVE SplitClean
  OBVIOUS
<1>2. sp.pc = "spawn" /\ sp.at = 1 => Quiet
  BY <1>1 DEF SplitInv, SplitParts, Outside, Quiet
<1>3. QED
  BY <1>1, <1>2 DEF SplitInv, SplitParts, SplitClean

LEMMA SplitStart == SplitInit /\ NoChildren => SplitInv
<1>1. SUFFICES ASSUME sp = SplitIdle, NoChildren PROVE SplitInv
  BY DEF SplitInit
<1>2. sp.pc = "off" /\ sp.at = 1 /\ sp.cell = 1 /\ sp.round = 1 /\ sp.exit = Running
      /\ sp.tried = [i \in DOMAIN SplitCells |-> 0]
  BY <1>1 DEF SplitIdle
<1>3. sp \in SplitStates
  <2>1. <<>> \in Seq(BOOLEAN) /\ 1 \in DOMAIN SplitCells
        /\ [i \in DOMAIN SplitCells |-> 0] \in [DOMAIN SplitCells -> Nat]
    BY SplitArgs
  <2>2. Running \in Int
    BY DEF Running
  <2>3. QED
    BY <1>1, <2>1, <2>2 DEF SplitStates, SplitIdle
<1>4. Quiet /\ ChildTypes
  BY <1>1 DEF NoChildren, Quiet, ChildTypes, Members
<1>5. SplitRounds
  BY <1>2, SplitArgs DEF SplitRounds
<1>6. SplitComplete
  BY <1>2 DEF SplitComplete, Running
<1>7. QED
  BY <1>2, <1>3, <1>4, <1>5, <1>6 DEF SplitInv, SplitParts

(* Members of a part come and go.                                          *)
LEMMA MovesKeep ==
    ASSUME ChildTypes, NEW p \in Parts, Fork(p) \/ Leave(p)
    PROVE  ChildTypes' /\ UNCHANGED known /\ \A q \in Parts : alive[q] = {} => alive'[q] = {}
<1>1. /\ alive \in [Parts -> SUBSET Members] /\ UNCHANGED known
      /\ \E new \in SUBSET Members : alive' = [alive EXCEPT ![p] = new] /\ (alive[p] = {} => new = {})
  <2>1. CASE Fork(p)
    BY <2>1 DEF Fork, ChildTypes
  <2>2. CASE Leave(p)
    <3>1. PICK m \in alive[p] : alive' = [alive EXCEPT ![p] = @ \ {m}]
      BY <2>2 DEF Leave
    <3>2. alive[p] \ {m} \in SUBSET Members
      BY DEF ChildTypes
    <3>3. QED
      BY <2>2, <3>1, <3>2 DEF Leave, ChildTypes
  <2>3. QED
    BY <2>1, <2>2
<1>2. PICK new \in SUBSET Members : alive' = [alive EXCEPT ![p] = new] /\ (alive[p] = {} => new = {})
  BY <1>1
<1>3. \A q \in Parts : alive'[q] = IF q = p THEN new ELSE alive[q]
  BY <1>1, <1>2
<1>4. QED
  BY <1>1, <1>2, <1>3 DEF ChildTypes

(* The finally clause.                                                     *)
LEMMA ReapedAll ==
    ASSUME ChildTypes
    PROVE  /\ Reaped \in [Parts -> SUBSET Members]
           /\ \A p \in Parts : known[p] => "leader" \notin Reaped[p]
  BY DEF Reaped, ChildTypes

(* The split ends other than with a report.                                *)
LEMMA SplitFails ==
    ASSUME SplitInv, sp' \in SplitStates, sp'.exit # 0, ChildTypes',
           \/ sp'.pc \in {"reap", "stopped"}
           \/ sp'.pc = "done" /\ \A p \in Parts : known'[p] => "leader" \notin alive'[p]
    PROVE  SplitInv'
<1>1. SplitComplete' /\ SplitRounds' /\ SplitParts'
  BY DEF SplitComplete, SplitRounds, SplitParts
<1>2. QED
  BY <1>1 DEF SplitInv

(* Within a sample what was tried stays.                                   *)
LEMMA SampleStep ==
    ASSUME SplitInv, sp' \in SplitStates, sp.pc \notin {"report", "reap", "done", "stopped"},
           sp'.pc \notin {"off", "report", "reap", "done", "stopped"}, ChildTypes', SplitParts',
           sp'.round = sp.round, sp'.cell = sp.cell, sp'.tried = sp.tried, sp'.exit = sp.exit
    PROVE  SplitInv'
<1>1. SplitRounds'
  BY DEF SplitInv, SplitRounds
<1>2. SplitComplete'
  BY DEF SplitInv, SplitRounds, SplitComplete, Running
<1>3. QED
  BY <1>1, <1>2 DEF SplitInv

LEMMA StartSplitStep == ASSUME SplitInv, StartSplit PROVE SplitInv'
<1> DEFINE one == 1
<1>0. sp \in SplitStates /\ ChildTypes /\ sp.pc = "off" /\ UNCHANGED childVars /\ Quiet /\ sp.at = 1
  BY Zenon DEF SplitInv, StartSplit, SplitParts
<1>1. \/ sp' = [sp EXCEPT !.pc = "done", !.exit = one]
      \/ sp' = [sp EXCEPT !.pc = "spawn"]
  BY DEF StartSplit
<1>2. one \in Int \ {0}
  OBVIOUS
<1> HIDE DEF one
<1>3. CASE sp' = [sp EXCEPT !.pc = "done", !.exit = one]
  <2>1. sp' \in SplitStates /\ sp'.pc = "done" /\ sp'.exit # 0
    BY <1>0, <1>2, <1>3 DEF SplitStates
  <2>2. ChildTypes' /\ \A p \in Parts : known'[p] => "leader" \notin alive'[p]
    BY <1>0 DEF ChildTypes, childVars, Quiet
  <2>3. QED
    BY <1>0, <2>1, <2>2, SplitFails
<1>4. CASE sp' = [sp EXCEPT !.pc = "spawn"]
  <2>1. sp' \in SplitStates
    BY <1>0, <1>4 DEF SplitStates
  <2>2. sp'.pc = "spawn" /\ sp'.at = 1 /\ sp'.round = sp.round /\ sp'.cell = sp.cell
        /\ sp'.tried = sp.tried /\ sp'.exit = sp.exit
    BY <1>0, <1>4 DEF SplitStates
  <2>3. PartCount' \in Nat \ {0}
    BY <2>1, SplitArgs DEF PartCount, SplitStates
  <2>4. SplitParts' /\ ChildTypes'
    BY <1>0, <2>2, <2>3 DEF SplitParts, ChildTypes, childVars, Outside, Quiet
  <2>5. QED
    BY <1>0, <2>1, <2>2, <2>4, SampleStep
<1>5. QED
  BY <1>1, <1>3, <1>4

LEMMA StartPartStep == ASSUME SplitInv, StartPart PROVE SplitInv'
<1> DEFINE one == 1
<1>0. sp \in SplitStates /\ ChildTypes /\ sp.pc = "spawn" /\ SplitParts
  BY Zenon DEF SplitInv, StartPart
<1>1. \/ Spawn(sp.at) /\ sp' = [sp EXCEPT !.pc = "listed"]
      \/ sp' = [sp EXCEPT !.pc = "reap", !.exit = one] /\ UNCHANGED childVars
  BY DEF StartPart
<1>2. one \in Int \ {0}
  OBVIOUS
<1>3. sp.at \in 1 .. PartCount /\ Outside(1 .. sp.at - 1) /\ sp.at \in Parts /\ PartCount \in Nat
  BY <1>0, PartCounts DEF SplitParts
<1> HIDE DEF one
<1>4. CASE sp' = [sp EXCEPT !.pc = "reap", !.exit = one] /\ UNCHANGED childVars
  <2>1. sp' \in SplitStates /\ sp'.pc = "reap" /\ sp'.exit # 0
    BY <1>0, <1>2, <1>4 DEF SplitStates
  <2>2. ChildTypes'
    BY <1>0, <1>4 DEF ChildTypes, childVars
  <2>3. QED
    BY <2>1, <2>2, SplitFails
<1>5. CASE Spawn(sp.at) /\ sp' = [sp EXCEPT !.pc = "listed"]
  <2>1. sp' \in SplitStates
    BY <1>0, <1>5 DEF SplitStates
  <2>2. sp'.pc = "listed" /\ sp'.at = sp.at /\ sp'.round = sp.round /\ sp'.cell = sp.cell
        /\ sp'.tried = sp.tried /\ sp'.exit = sp.exit
    BY <1>0, <1>5 DEF SplitStates
  <2>3. PartCount' = PartCount
    BY <2>2 DEF PartCount
  <2>4. ChildTypes' /\ \A p \in Parts \ {sp.at} : alive'[p] = alive[p]
    BY <1>0, <1>3, <1>5 DEF Spawn, ChildTypes, Members
  <2>5. \A p \in Parts \ (1 .. sp.at) : p \in Parts \ (1 .. sp.at - 1) /\ p # sp.at
    BY <1>3
  <2>6. SplitParts'
    BY <1>3, <2>2, <2>3, <2>4, <2>5 DEF SplitParts, Outside
  <2>7. QED
    BY <1>0, <2>1, <2>2, <2>4, <2>6, SampleStep
<1>6. QED
  BY <1>1, <1>4, <1>5

LEMMA ListPartStep == ASSUME SplitInv, ListPart PROVE SplitInv'
<1>0. sp \in SplitStates /\ ChildTypes /\ sp.pc = "listed" /\ SplitParts
  BY Zenon DEF SplitInv, ListPart
<1>1. sp.at \in 1 .. PartCount /\ Outside(1 .. sp.at) /\ sp.at \in Parts /\ PartCount \in Nat
  BY <1>0, PartCounts DEF SplitParts
<1>2. ChildTypes' /\ UNCHANGED alive
  BY <1>0, <1>1 DEF ListPart, Register, ChildTypes
<1>3. CASE sp.at < PartCount
  <2> DEFINE next == sp.at + 1
  <2>0. next \in Nat
    BY <1>1
  <2>1. sp' = [sp EXCEPT !.pc = "spawn", !.at = next]
    BY <1>3 DEF ListPart
  <2> HIDE DEF next
  <2>2. sp' \in SplitStates
    BY <1>0, <2>0, <2>1 DEF SplitStates
  <2>3. sp'.pc = "spawn" /\ sp'.at = next /\ sp'.round = sp.round /\ sp'.cell = sp.cell
        /\ sp'.tried = sp.tried /\ sp'.exit = sp.exit
    BY <1>0, <2>1 DEF SplitStates
  <2>4. PartCount' = PartCount
    BY <2>3 DEF PartCount
  <2>5. next \in 1 .. PartCount /\ 1 .. next - 1 = 1 .. sp.at
    BY <1>1, <1>3 DEF next
  <2>6. SplitParts'
    BY <1>1, <1>2, <2>3, <2>4, <2>5 DEF SplitParts, Outside
  <2>7. QED
    BY <1>0, <1>2, <2>2, <2>3, <2>6, SampleStep
<1>4. CASE ~ (sp.at < PartCount)
  <2> DEFINE one == 1
  <2>0. one \in Nat
    OBVIOUS
  <2>1. sp' = [sp EXCEPT !.pc = "collect", !.at = one, !.late = FALSE]
    BY <1>4 DEF ListPart
  <2> HIDE DEF one
  <2>2. sp' \in SplitStates
    BY <1>0, <2>0, <2>1 DEF SplitStates
  <2>3. sp'.pc = "collect" /\ sp'.at = one /\ sp'.round = sp.round /\ sp'.cell = sp.cell
        /\ sp'.tried = sp.tried /\ sp'.exit = sp.exit
    BY <1>0, <2>1 DEF SplitStates
  <2>4. PartCount' = PartCount
    BY <2>3 DEF PartCount
  <2>5. one \in 1 .. PartCount + 1 /\ one .. PartCount = 1 .. sp.at
    BY <1>1, <1>4 DEF one
  <2>6. SplitParts'
    BY <1>1, <1>2, <2>3, <2>4, <2>5 DEF SplitParts, Outside
  <2>7. QED
    BY <1>0, <1>2, <2>2, <2>3, <2>6, SampleStep
<1>5. QED
  BY <1>3, <1>4

LEMMA PartTimedOutStep == ASSUME SplitInv, PartTimedOut PROVE SplitInv'
<1>0. sp \in SplitStates /\ ChildTypes /\ sp.pc = "collect" /\ sp.at <= PartCount /\ SplitParts /\ UNCHANGED childVars
  BY Zenon DEF SplitInv, PartTimedOut
<1>1. sp' = [sp EXCEPT !.pc = "term", !.late = TRUE]
  BY DEF PartTimedOut
<1>2. sp' \in SplitStates
  BY <1>0, <1>1 DEF SplitStates
<1>3. sp'.pc = "term" /\ sp'.at = sp.at /\ sp'.round = sp.round /\ sp'.cell = sp.cell
      /\ sp'.tried = sp.tried /\ sp'.exit = sp.exit
  BY <1>0, <1>1 DEF SplitStates
<1>4. PartCount' = PartCount /\ PartCount \in Nat
  BY <1>0, <1>3, PartCounts DEF PartCount
<1>5. SplitParts' /\ ChildTypes'
  BY <1>0, <1>3, <1>4 DEF SplitParts, ChildTypes, childVars, Outside
<1>6. QED
  BY <1>0, <1>2, <1>3, <1>5, SampleStep

(* The parts from the one at hand on, when it is gone.                     *)
LEMMA NextPart ==
    ASSUME Outside(sp.at .. PartCount), sp.at \in Nat, PartCount \in Nat, alive[sp.at] = {}
    PROVE  Outside(sp.at + 1 .. PartCount)
<1>1. \A p \in Parts \ (sp.at + 1 .. PartCount) : p \in Parts \ (sp.at .. PartCount) \/ p = sp.at
  OBVIOUS
<1>2. QED
  BY <1>1 DEF Outside

LEMMA CollectPartStep == ASSUME SplitInv, CollectPart PROVE SplitInv'
<1> DEFINE next == sp.at + 1
<1>0. sp \in SplitStates /\ ChildTypes /\ sp.pc = "collect" /\ sp.at <= PartCount /\ SplitParts
      /\ UNCHANGED childVars /\ Drained(sp.at)
  BY Zenon DEF SplitInv, CollectPart
<1>1. PICK ok \in BOOLEAN : sp' = [sp EXCEPT !.parsed = Append(@, ok), !.at = @ + 1]
  BY Zenon DEF CollectPart
<1> DEFINE parsed == Append(sp.parsed, ok)
<1>2. next \in Nat /\ parsed \in Seq(BOOLEAN) /\ sp.at \in 1 .. PartCount /\ PartCount \in Nat
  <2>1. sp.at \in Nat /\ sp.parsed \in Seq(BOOLEAN)
    BY <1>0 DEF SplitStates
  <2>2. sp.at \in 1 .. PartCount /\ PartCount \in Nat
    BY <1>0, PartCounts DEF SplitParts
  <2>3. parsed \in Seq(BOOLEAN)
    BY <2>1, AppendProperties
  <2>4. QED
    BY <2>1, <2>2, <2>3
<1>3. Outside(next .. PartCount)
  BY <1>0, <1>2, NextPart DEF SplitParts, Drained
<1>4. sp' = [sp EXCEPT !.parsed = parsed, !.at = next]
  BY <1>1
<1>a. next \in 1 .. PartCount + 1
  BY <1>2
<1> HIDE DEF parsed, next
<1>5. sp' \in SplitStates
  BY <1>0, <1>2, <1>4 DEF SplitStates
<1>6. sp'.pc = "collect" /\ sp'.at = next /\ sp'.round = sp.round /\ sp'.cell = sp.cell
      /\ sp'.tried = sp.tried /\ sp'.exit = sp.exit
  BY <1>0, <1>4 DEF SplitStates
<1>7. PartCount' = PartCount
  BY <1>6 DEF PartCount
<1>8. SplitParts' /\ ChildTypes'
  BY <1>0, <1>a, <1>3, <1>6, <1>7 DEF SplitParts, ChildTypes, childVars, Outside
<1>9. QED
  BY <1>0, <1>5, <1>6, <1>8, SampleStep

(* The two rounds of kill_process_group; only TERM may leave somebody.     *)
LEMMA TermPartStep == ASSUME SplitInv, TermPart PROVE SplitInv'
<1>0. sp \in SplitStates /\ ChildTypes /\ sp.pc = "term" /\ SplitParts /\ TermGroup(sp.at)
  BY Zenon DEF SplitInv, TermPart
<1>1. sp' = [sp EXCEPT !.pc = "kill"]
  BY DEF TermPart
<1>2. sp' \in SplitStates
  BY <1>0, <1>1 DEF SplitStates
<1>3. sp'.pc = "kill" /\ sp'.at = sp.at /\ sp'.round = sp.round /\ sp'.cell = sp.cell
      /\ sp'.tried = sp.tried /\ sp'.exit = sp.exit
  BY <1>0, <1>1 DEF SplitStates
<1>4. PartCount' = PartCount /\ PartCount \in Nat /\ sp.at \in 1 .. PartCount /\ sp.at \in Parts
  BY <1>0, <1>3, PartCounts DEF PartCount, SplitParts
<1>5. ChildTypes' /\ \A p \in Parts \ {sp.at} : alive'[p] = alive[p]
  <2>1. PICK left \in SUBSET alive[sp.at] : alive' = [alive EXCEPT ![sp.at] = left]
    BY <1>0 DEF TermGroup
  <2>2. left \in SUBSET Members
    BY <1>0, <1>4 DEF ChildTypes
  <2>3. QED
    BY <1>0, <2>1, <2>2 DEF TermGroup, ChildTypes
<1>6. \A p \in Parts \ (sp.at .. PartCount) : p # sp.at
  BY <1>4
<1>7. SplitParts'
  BY <1>0, <1>3, <1>4, <1>5, <1>6 DEF SplitParts, Outside
<1>8. QED
  BY <1>0, <1>2, <1>3, <1>5, <1>7, SampleStep

LEMMA KillPartStep == ASSUME SplitInv, KillPart PROVE SplitInv'
<1> DEFINE next == sp.at + 1
           parsed == Append(sp.parsed, FALSE)
<1>0. sp \in SplitStates /\ ChildTypes /\ sp.pc = "kill" /\ SplitParts /\ KillGroup(sp.at)
  BY Zenon DEF SplitInv, KillPart
<1>1. sp' = [sp EXCEPT !.pc = "collect", !.parsed = parsed, !.at = next]
  BY DEF KillPart
<1>2. next \in Nat /\ parsed \in Seq(BOOLEAN) /\ sp.at \in 1 .. PartCount /\ PartCount \in Nat
      /\ sp.at \in Parts
  <2>1. sp.at \in Nat /\ sp.parsed \in Seq(BOOLEAN)
    BY <1>0 DEF SplitStates
  <2>2. sp.at \in 1 .. PartCount /\ PartCount \in Nat /\ sp.at \in Parts
    BY <1>0, PartCounts DEF SplitParts
  <2>3. parsed \in Seq(BOOLEAN)
    BY <2>1, AppendProperties
  <2>4. QED
    BY <2>1, <2>2, <2>3
<1>3. next \in 1 .. PartCount + 1 /\ \A p \in Parts \ (next .. PartCount) : p \in Parts \ (sp.at .. PartCount) \/ p = sp.at
  BY <1>2
<1> HIDE DEF parsed, next
<1>4. sp' \in SplitStates
  BY <1>0, <1>1, <1>2 DEF SplitStates
<1>5. sp'.pc = "collect" /\ sp'.at = next /\ sp'.round = sp.round /\ sp'.cell = sp.cell
      /\ sp'.tried = sp.tried /\ sp'.exit = sp.exit
  BY <1>0, <1>1 DEF SplitStates
<1>6. PartCount' = PartCount
  BY <1>5 DEF PartCount
<1>7. ChildTypes' /\ alive'[sp.at] = {} /\ \A p \in Parts \ {sp.at} : alive'[p] = alive[p]
  BY <1>0, <1>2 DEF KillGroup, Survivors, ChildTypes
<1>8. SplitParts'
  BY <1>0, <1>3, <1>5, <1>6, <1>7 DEF SplitParts, Outside
<1>9. QED
  BY <1>0, <1>4, <1>5, <1>7, <1>8, SampleStep

LEMMA EndSampleStep == ASSUME SplitInv, EndSample PROVE SplitInv'
<1> DEFINE one == 1
           more == sp.tried[sp.cell] + 1
           tried == [sp.tried EXCEPT ![sp.cell] = more]
           counted == IF Counts(sp.parsed) THEN sp.samples[sp.cell] + 1 ELSE sp.samples[sp.cell]
           samples == [sp.samples EXCEPT ![sp.cell] = counted]
           further == sp.cell + 1
           later == sp.round + 1
           last == Len(SplitCells)
<1>0. sp \in SplitStates /\ ChildTypes /\ sp.pc = "collect" /\ sp.at > PartCount /\ SplitParts
      /\ UNCHANGED childVars /\ SplitRounds
  BY Zenon DEF SplitInv, EndSample
<1>1. sp.cell \in 1 .. last /\ last \in Nat /\ DOMAIN SplitCells = 1 .. last /\ sp.round \in 1 .. SplitRuns
      /\ SplitRuns \in Nat /\ sp.tried \in [1 .. last -> Nat] /\ sp.samples \in [1 .. last -> Nat]
      /\ \A i \in 1 .. last : sp.tried[i] = IF i < sp.cell THEN sp.round ELSE sp.round - 1
  BY <1>0, SplitArgs DEF SplitStates, SplitRounds
<1>a. last \in Nat /\ sp.cell \in Int /\ sp.round \in Int /\ SplitRuns \in Int
  BY <1>1
<1>2. counted \in Nat /\ samples \in [DOMAIN SplitCells -> Nat] /\ tried \in [DOMAIN SplitCells -> Nat]
      /\ \A i \in 1 .. last : tried[i] = IF i <= sp.cell THEN sp.round ELSE sp.round - 1
  <2> HIDE DEF last
  <2>1. sp.samples[sp.cell] \in Nat /\ sp.tried[sp.cell] \in Nat
    BY <1>1
  <2>2. counted \in Nat
    BY <2>1
  <2>3. samples \in [1 .. last -> Nat]
    <3> HIDE DEF counted
    <3> QED
      BY <1>1, <2>2
  <2>4. more \in Nat /\ more = sp.tried[sp.cell] + 1
    BY <2>1
  <2> HIDE DEF more
  <2>9. tried \in [1 .. last -> Nat]
    BY <1>1, <2>4
  <2>5. ASSUME NEW i \in 1 .. last PROVE tried[i] = IF i <= sp.cell THEN sp.round ELSE sp.round - 1
    <3>1. CASE i = sp.cell
      <4>1. sp.tried[i] = IF i < sp.cell THEN sp.round ELSE sp.round - 1
        BY <1>1
      <4>2. tried[i] = more
        BY <1>1, <3>1
      <4>3. QED
        BY <1>a, <2>4, <3>1, <4>1, <4>2
    <3>2. CASE i # sp.cell
      <4>1. tried[i] = sp.tried[i] /\ sp.tried[i] = IF i < sp.cell THEN sp.round ELSE sp.round - 1
        BY <1>1, <3>2
      <4>2. QED
        BY <1>a, <3>2, <4>1
    <3>3. QED
      BY <3>1, <3>2
  <2>6. QED
    BY <1>1, <2>2, <2>3, <2>9, <2>5
<1>3. one \in Nat /\ one = 1 /\ (sp.cell < last => further \in DOMAIN SplitCells) /\ later \in Nat
      /\ one \in DOMAIN SplitCells
  BY <1>1
<1>4. Quiet
  <2>1. Outside({})
    <3>1. sp.at \in Nat /\ PartCount \in Nat
      BY <1>0, PartCounts DEF SplitStates
    <3>2. sp.at .. PartCount = {}
      BY <1>0, <3>1
    <3>3. QED
      BY <1>0, <3>2 DEF SplitParts
  <2>2. QED
    BY <2>1 DEF Outside, Quiet
<1>5. \/ sp.cell < last /\ sp' = [[sp EXCEPT !.at = one, !.parsed = <<>>, !.tried = tried, !.samples = samples]
                                    EXCEPT !.pc = "spawn", !.cell = further]
      \/ ~ (sp.cell < last) /\ sp.round < SplitRuns
         /\ sp' = [[sp EXCEPT !.at = one, !.parsed = <<>>, !.tried = tried, !.samples = samples]
                     EXCEPT !.pc = "spawn", !.cell = one, !.round = later]
      \/ ~ (sp.cell < last) /\ ~ (sp.round < SplitRuns)
         /\ sp' = [[sp EXCEPT !.at = one, !.parsed = <<>>, !.tried = tried, !.samples = samples]
                     EXCEPT !.pc = "report"]
  <2>1. [sp EXCEPT !.at = 1, !.parsed = <<>>, !.tried[sp.cell] = @ + 1,
                   !.samples[sp.cell] = IF Counts(sp.parsed) THEN @ + 1 ELSE @]
        = [sp EXCEPT !.at = one, !.parsed = <<>>, !.tried = tried, !.samples = samples]
    BY <1>0 DEF SplitStates
  <2>2. QED
    BY <2>1 DEF EndSample
<1>6. Counts(sp.parsed) \in BOOLEAN /\ <<>> \in Seq(BOOLEAN)
  BY DEF Counts
<1> HIDE DEF tried, more, samples, counted, one, further, later, last
<1>7. CASE sp.cell < last /\ sp' = [[sp EXCEPT !.at = one, !.parsed = <<>>, !.tried = tried, !.samples = samples]
                                    EXCEPT !.pc = "spawn", !.cell = further]
  <2>1. sp' \in SplitStates
    BY <1>0, <1>2, <1>3, <1>6, <1>7 DEF SplitStates
  <2>2. sp'.pc = "spawn" /\ sp'.at = 1 /\ sp'.round = sp.round /\ sp'.cell = further
        /\ sp'.tried = tried /\ sp'.exit = sp.exit
    BY <1>0, <1>3, <1>7 DEF SplitStates
  <2>3. PartCount' \in Nat \ {0}
    BY <2>1, SplitArgs DEF PartCount, SplitStates
  <2>4. SplitParts' /\ ChildTypes'
    BY <1>0, <1>4, <2>2, <2>3 DEF SplitParts, ChildTypes, childVars, Outside, Quiet
  <2>5. \A i \in 1 .. last : i < further <=> i <= sp.cell
    BY <1>a DEF further
  <2>6. SplitRounds'
    BY <1>0, <1>1, <1>2, <2>2, <2>5 DEF SplitRounds
  <2>7. SplitComplete'
    BY <1>0, <2>2 DEF SplitComplete, SplitRounds, Running
  <2>8. QED
    BY <2>1, <2>4, <2>6, <2>7 DEF SplitInv
<1>8. CASE ~ (sp.cell < last) /\ sp.round < SplitRuns
         /\ sp' = [[sp EXCEPT !.at = one, !.parsed = <<>>, !.tried = tried, !.samples = samples]
                     EXCEPT !.pc = "spawn", !.cell = one, !.round = later]
  <2>1. sp' \in SplitStates
    BY <1>0, <1>2, <1>3, <1>6, <1>8 DEF SplitStates
  <2>2. sp'.pc = "spawn" /\ sp'.at = 1 /\ sp'.round = later /\ sp'.cell = 1
        /\ sp'.tried = tried /\ sp'.exit = sp.exit
    BY <1>0, <1>3, <1>8 DEF SplitStates
  <2>3. PartCount' \in Nat \ {0}
    BY <2>1, SplitArgs DEF PartCount, SplitStates
  <2>4. SplitParts' /\ ChildTypes'
    BY <1>0, <1>4, <2>2, <2>3 DEF SplitParts, ChildTypes, childVars, Outside, Quiet
  <2>5. later \in 1 .. SplitRuns /\ later - 1 = sp.round /\ \A i \in 1 .. last : i <= sp.cell /\ ~ (i < 1)
    <3>1. sp.round \in 1 .. SplitRuns /\ sp.cell \in 1 .. last /\ ~ (sp.cell < last) /\ sp.round < SplitRuns
      BY <1>1, <1>8
    <3>2. QED
      BY <1>a, <3>1 DEF later
  <2>6. SplitRounds'
    BY <1>0, <1>1, <1>2, <2>2, <2>5 DEF SplitRounds
  <2>7. SplitComplete'
    BY <1>0, <2>2 DEF SplitComplete, SplitRounds, Running
  <2>8. QED
    BY <2>1, <2>4, <2>6, <2>7 DEF SplitInv
<1>9. CASE ~ (sp.cell < last) /\ ~ (sp.round < SplitRuns)
         /\ sp' = [[sp EXCEPT !.at = one, !.parsed = <<>>, !.tried = tried, !.samples = samples]
                     EXCEPT !.pc = "report"]
  <2>1. sp' \in SplitStates
    BY <1>0, <1>2, <1>3, <1>6, <1>9 DEF SplitStates
  <2>2. sp'.pc = "report" /\ sp'.tried = tried /\ sp'.exit = sp.exit
    BY <1>0, <1>3, <1>9 DEF SplitStates
  <2>4. SplitParts' /\ ChildTypes'
    BY <1>0, <1>4, <2>2 DEF SplitParts, ChildTypes, childVars, Quiet
  <2>5. sp.round = SplitRuns /\ \A i \in 1 .. last : i <= sp.cell
    BY <1>1, <1>9
  <2>6. SplitRounds'
    BY <1>0, <1>1, <1>2, <2>2, <2>5 DEF SplitRounds
  <2>7. SplitComplete'
    BY <1>0, <2>2 DEF SplitComplete, SplitRounds, Running
  <2>8. QED
    BY <2>1, <2>4, <2>6, <2>7 DEF SplitInv
<1>10. QED
  BY <1>5, <1>7, <1>8, <1>9

LEMMA SplitReportStep == ASSUME SplitInv, SplitReport PROVE SplitInv'
<1> DEFINE code == IF \E i \in DOMAIN SplitCells : FailedRow(i) THEN 1 ELSE 0
<1>0. sp \in SplitStates /\ ChildTypes /\ sp.pc = "report" /\ SplitParts /\ UNCHANGED childVars /\ SplitRounds
  BY Zenon DEF SplitInv, SplitReport
<1>1. sp' = [sp EXCEPT !.pc = "done", !.exit = code] /\ code \in Int
  BY DEF SplitReport
<1>2. code = 0 => \A i \in DOMAIN SplitCells : sp.samples[i] = SplitRuns
  BY DEF FailedRow
<1> HIDE DEF code
<1>3. sp' \in SplitStates
  BY <1>0, <1>1 DEF SplitStates
<1>4. sp'.pc = "done" /\ sp'.exit = code /\ sp'.samples = sp.samples /\ sp'.tried = sp.tried
  BY <1>0, <1>1 DEF SplitStates
<1>5. SplitParts' /\ ChildTypes' /\ SplitRounds'
  BY <1>0, <1>4 DEF SplitParts, ChildTypes, childVars, Quiet, SplitRounds
<1>6. SplitComplete'
  BY <1>0, <1>2, <1>4 DEF SplitComplete, SplitRounds
<1>7. QED
  BY <1>3, <1>5, <1>6 DEF SplitInv

LEMMA InterruptSplitStep == ASSUME SplitInv, InterruptSplit \/ StopSplit PROVE SplitInv'
<1> DEFINE e == Killed
<1>0. sp \in SplitStates /\ ChildTypes'
  BY DEF SplitInv, InterruptSplit, StopSplit, ChildTypes, childVars
<1>1. PICK to \in {"reap", "stopped"} : sp' = [sp EXCEPT !.pc = to, !.exit = e]
  BY DEF InterruptSplit, StopSplit
<1>2. e \in Int \ {0}
  BY DEF Killed
<1> HIDE DEF e
<1>3. sp' \in SplitStates /\ sp'.pc = to /\ sp'.exit # 0
  BY <1>0, <1>1, <1>2 DEF SplitStates
<1>4. QED
  BY <1>0, <1>3, SplitFails

LEMMA ReapPartsStep == ASSUME SplitInv, ReapParts PROVE SplitInv'
<1>0. sp \in SplitStates /\ ChildTypes /\ sp.exit # 0 /\ sp' = [sp EXCEPT !.pc = "done"]
      /\ alive' = Reaped /\ UNCHANGED known
  BY DEF SplitInv, SplitRounds, ReapParts
<1>1. sp' \in SplitStates /\ sp'.pc = "done" /\ sp'.exit # 0
  BY <1>0 DEF SplitStates
<1>2. ChildTypes' /\ \A p \in Parts : known'[p] => "leader" \notin alive'[p]
  BY <1>0, ReapedAll DEF ChildTypes
<1>3. QED
  BY <1>1, <1>2, SplitFails

LEMMA PartMovesStep == ASSUME SplitInv, PartMoves PROVE SplitInv'
<1>0. ChildTypes /\ sp.pc \notin {"done", "stopped"} /\ UNCHANGED sp
  BY Zenon DEF SplitInv, PartMoves
<1>1. PICK p \in Parts : Fork(p) \/ Leave(p)
  BY Zenon DEF PartMoves
<1>2. ChildTypes' /\ \A q \in Parts : alive[q] = {} => alive'[q] = {}
  BY <1>0, <1>1, MovesKeep
<1>3. PartCount' = PartCount /\ (Quiet => Quiet')
  BY <1>0, <1>2 DEF PartCount, Quiet
<1>4. SplitParts'
  BY <1>0, <1>2, <1>3 DEF SplitInv, SplitParts, Outside
<1>5. SplitRounds' /\ SplitComplete' /\ sp' \in SplitStates
  BY <1>0 DEF SplitInv, SplitRounds, SplitComplete
<1>6. QED
  BY <1>2, <1>4, <1>5 DEF SplitInv

LEMMA SplitStep == ASSUME SplitInv, SplitNext \/ UNCHANGED <<sp, childVars>> PROVE SplitInv'
<1>1. CASE UNCHANGED <<sp, childVars>>
  BY <1>1 DEF SplitInv, childVars, ChildTypes, SplitParts, SplitRounds, SplitComplete, Quiet, Outside, PartCount
<1>2. CASE SplitNext
  BY <1>2, StartSplitStep, StartPartStep, ListPartStep, CollectPartStep, PartTimedOutStep, TermPartStep,
     KillPartStep, EndSampleStep, SplitReportStep, InterruptSplitStep, ReapPartsStep, PartMovesStep DEF SplitNext
<1>3. QED
  BY <1>1, <1>2

-----------------------------------------------------------------------------
(* The report.                                                             *)

ReportPcs ==
    {"off", "prepare", "build", "hash", "create", "fill", "describe", "load", "install", "plant", "planted",
     "unplant", "cell", "run", "started", "wait", "term", "kill", "flush", "flushing", "cleanup", "final", "closing"}

CommandLines == [runs : Nat, six : Nat, resume : BOOLEAN, fake : BOOLEAN]

Invocations ==
    [pc : ReportPcs, args : CommandLines, launches : Nat, src : Nat, man : Manifests \cup {NoFile},
     i : Nat \ {0}, done : Nat, values : Seq(Metrics), checked : Versioned, ran : SUBSET Versioned, results : Seq(SummaryRows),
     failed : BOOLEAN, then : {"none", "measure", "sort", "raise"}, made : BOOLEAN, left : BOOLEAN,
     exit : Int]

Disks ==
    [manifest : Manifests \cup {NoFile, Torn}, meta : BOOLEAN, snap : Versioned,
     summary : Seq(SummaryRows) \cup {NoFile, Torn}, raw : BOOLEAN]

ReportTypes ==
    /\ inv \in Invocations
    /\ disk \in Disks
    /\ world \in [src : Nat, bin : Nat]
    /\ sysTree \in {"absent", "host"} \cup MadeUp
    /\ ChildTypes

Measuring == {"run", "started", "wait", "term", "kill"}
Loaded == Measuring \cup {"install", "plant", "planted", "unplant", "cell", "flush", "flushing", "cleanup", "final", "closing"}
Described == Loaded \cup {"describe", "load"}

(* A made-up tree is being written, or will be removed, or was left.        *)
TreeHeld ==
    sysTree \in MadeUp =>
        \/ inv.left \/ inv.pc \in {"plant", "planted", "unplant"}
        \/ inv.made /\ inv.pc \in {"cell", "flush", "flushing", "cleanup"} \cup Measuring

(* A process group known to the invocation is dead unless it is measured.   *)
TreeAndGroup ==
    /\ TreeHeld
    /\ \A p \in Parts \ {1} : alive[p] = {}
    /\ inv.pc \notin Measuring \ {"run"} /\ known[1] => alive[1] = {}
    /\ inv.pc = "started" => ~ known[1]

(* Rows checked against what a manifest names; whole bursts of the         *)
(* multithreaded fiber cells.                                              *)
RanSnapshot(c, ran, man) == c \in Frozen => ran \subseteq {man.bins[c]}
OfManifest(log, man) ==
    \A k \in DOMAIN log : /\ log[k].src = man.src /\ log[k].bin = man.bins[log[k].cell]
                          /\ RanSnapshot(log[k].cell, log[k].ran, man)
WholeBursts(c, values) == c \in MultiThreaded => \A k \in DOMAIN values : values[k] = "spawn_and_drain"
BurstRows(log) == \A k \in DOMAIN log : WholeBursts(log[k].cell, log[k].values)

Evidence ==
    /\ RowsBound
    /\ inv.pc = "create" => disk.manifest = NoFile
    /\ inv.pc = "fill" => disk.manifest = Torn
    /\ inv.pc \in {"create", "fill"} \cup Described => inv.man \in Manifests /\ inv.man.src = inv.src
    /\ inv.pc \in Described => disk.manifest = inv.man
    /\ inv.pc \in Loaded => OfManifest(inv.results, inv.man) /\ BurstRows(inv.results)
    /\ disk.summary \in Seq(SummaryRows) => BurstRows(disk.summary)
    /\ inv.pc \in Measuring =>
          /\ inv.checked = inv.man.bins[ReportCells[inv.i]]
          /\ ReportCells[inv.i] \in Frozen => disk.snap = inv.checked
          /\ RanSnapshot(ReportCells[inv.i], inv.ran, inv.man)
          /\ WholeBursts(ReportCells[inv.i], inv.values)

(* The cells before the n-th have a row, and one of enough samples if it   *)
(* succeeded.                                                              *)
FiledBefore(n) ==
    \A j \in 1 .. n - 1 : \E row \in RowsOf(inv.results, ReportCells[j]) :
        row.ok => Len(row.values) >= Requested(inv.args, ReportCells[j])

Progress ==
    /\ inv.pc # "off" => inv.exit # 0
    /\ inv.pc \in {"prepare", "build", "hash", "create", "fill", "describe", "load", "install", "plant", "planted",
                   "unplant"} => inv.i = 1
    /\ inv.pc \notin {"cleanup", "final", "closing", "off"} => inv.then # "sort"
    /\ inv.pc = "cell" => inv.i <= Len(ReportCells) + 1
    /\ inv.pc \in Measuring \cup {"flush", "flushing"} => inv.i <= Len(ReportCells)
    /\ inv.pc \in Measuring \cup {"cell"} => FiledBefore(inv.i)
    /\ inv.pc \in {"flush", "flushing"} => FiledBefore(inv.i + 1)
    /\ inv.pc \in {"final", "closing"} \/ (inv.pc = "cleanup" /\ inv.then = "sort")
          => FiledBefore(Len(ReportCells) + 1)
    /\ ReportComplete

ReportInv == ReportTypes /\ TreeAndGroup /\ Evidence /\ Progress

(* The moves that change the program counter alone, and the ends.          *)
Unmoved ==
    /\ inv'.args = inv.args /\ inv'.src = inv.src /\ inv'.man = inv.man /\ inv'.i = inv.i
    /\ inv'.values = inv.values /\ inv'.checked = inv.checked /\ inv'.results = inv.results
    /\ inv'.made = inv.made /\ inv'.left = inv.left /\ inv'.ran = inv.ran

LEMMA GotoFields ==
    ASSUME inv \in Invocations, NEW to \in ReportPcs, Goto(to)
    PROVE  inv' \in Invocations /\ inv'.pc = to /\ Unmoved /\ inv'.then = inv.then /\ inv'.exit = inv.exit
<1>1. inv' = [inv EXCEPT !.pc = to]
  BY DEF Goto
<1>2. QED
  BY <1>1 DEF Invocations, Unmoved

LEMMA EndedFields ==
    ASSUME inv \in Invocations, NEW code \in Int, inv' = Ended(code)
    PROVE  inv' \in Invocations /\ inv'.pc = "off" /\ Unmoved /\ inv'.exit = code
<1>1. inv' = [inv EXCEPT !.pc = "off", !.exit = code]
  BY DEF Ended
<1>2. QED
  BY <1>1 DEF Invocations, ReportPcs, Unmoved

LEMMA Codes == Running \in Int /\ Killed \in Int /\ Crashed \in Int
               /\ Running # 0 /\ Killed # 0 /\ Crashed # 0
  BY DEF Running, Killed, Crashed

LEMMA SameRows ==
    ASSUME RowsBound, disk'.summary = disk.summary, disk'.manifest = disk.manifest
    PROVE  RowsBound'
  BY DEF RowsBound, Readable

(* An invocation that ends otherwise than with 0.                          *)
LEMMA ReportEnds ==
    ASSUME ReportInv, inv' \in Invocations, inv'.pc = "off", inv'.exit # 0, UNCHANGED <<disk, world>>,
           sysTree' \in {"absent", "host"} \cup MadeUp, sysTree' \in MadeUp => inv'.left, ChildTypes', \A p \in Parts \ {1} : alive'[p] = {},
           known'[1] => alive'[1] = {}
    PROVE  ReportInv'
<1>1. ReportTypes'
  BY DEF ReportInv, ReportTypes
<1>2. TreeAndGroup'
  BY DEF TreeAndGroup, TreeHeld, Measuring
<1>3. Evidence'
  <2>1. RowsBound'
    BY SameRows DEF ReportInv, Evidence
  <2>2. QED
    BY <2>1 DEF ReportInv, Evidence, Described, Loaded, Measuring
<1>4. Progress'
  BY DEF Progress, Measuring, ReportComplete
<1>5. QED
  BY <1>1, <1>2, <1>3, <1>4 DEF ReportInv

(* What nobody but the benchmark touches.                                  *)
LEMMA SameGroup ==
    ASSUME ReportInv, UNCHANGED childVars
    PROVE  ChildTypes' /\ (\A p \in Parts \ {1} : alive'[p] = {})
           /\ (inv.pc \notin Measuring \ {"run"} /\ known'[1] => alive'[1] = {})
  BY DEF ReportInv, ReportTypes, TreeAndGroup, ChildTypes, childVars

LEMMA CleanUpStep == ASSUME ReportInv, CleanUp PROVE ReportInv'
<1>0. inv \in Invocations /\ inv.pc = "cleanup" /\ sysTree' = (IF inv.made THEN "absent" ELSE sysTree)
      /\ UNCHANGED <<disk, world>> /\ UNCHANGED childVars
  BY DEF ReportInv, ReportTypes, CleanUp
<1>1. sysTree' \in {"absent", "host"} \cup MadeUp /\ (sysTree' \in MadeUp => inv.left)
  BY <1>0 DEF ReportInv, ReportTypes, TreeAndGroup, TreeHeld, MadeUp, Measuring
<1>2. ChildTypes' /\ (\A p \in Parts \ {1} : alive'[p] = {}) /\ (known'[1] => alive'[1] = {})
  BY <1>0, SameGroup DEF Measuring
<1>3. CASE inv.then = "sort"
  <2>1. inv' = [inv EXCEPT !.pc = "final"]
    BY <1>3 DEF CleanUp
  <2>2. inv' \in Invocations /\ inv'.pc = "final" /\ Unmoved /\ inv'.then = inv.then /\ inv'.exit = inv.exit
    BY <1>0, <2>1 DEF Invocations, Unmoved, ReportPcs
  <2>3. ReportTypes'
    BY <1>0, <1>1, <1>2, <2>2 DEF ReportInv, ReportTypes
  <2>4. TreeAndGroup'
    BY <1>1, <1>2, <2>2 DEF TreeAndGroup, TreeHeld, Measuring, Unmoved
  <2>5. Evidence'
    <3>1. RowsBound'
      BY <1>0, SameRows DEF ReportInv, Evidence
    <3>2. QED
      BY <1>0, <2>2, <3>1 DEF ReportInv, Evidence, Described, Loaded, Measuring, OfManifest, Unmoved
  <2>6. Progress'
    BY <1>0, <1>3, <2>2 DEF ReportInv, Progress, Measuring, ReportComplete, FiledBefore, Unmoved
  <2>7. QED
    BY <2>3, <2>4, <2>5, <2>6 DEF ReportInv
<1>4. CASE inv.then # "sort"
  <2>1. inv' = Ended(inv.exit) /\ inv.exit \in Int /\ inv.exit # 0
    BY <1>0, <1>4 DEF CleanUp, ReportInv, Progress, Invocations
  <2>2. inv' \in Invocations /\ inv'.pc = "off" /\ inv'.exit # 0
    BY <1>0, <2>1, EndedFields
  <2>3. inv'.left = inv.left
    BY <1>0, <2>1, EndedFields DEF Unmoved
  <2>4. QED
    BY <1>0, <1>1, <1>2, <2>2, <2>3, ReportEnds
<1>5. QED
  BY <1>3, <1>4

(* An end that leaves a tree.                                              *)
LEMMA EndedLeft ==
    ASSUME inv \in Invocations, NEW code \in Int, NEW gone \in BOOLEAN,
           inv' = [Ended(code) EXCEPT !.left = gone]
    PROVE  inv' \in Invocations /\ inv'.pc = "off" /\ inv'.exit = code /\ inv'.left = gone
<1>1. inv' = [inv EXCEPT !.pc = "off", !.exit = code, !.left = gone]
  BY DEF Ended, Invocations
<1>2. QED
  BY <1>1 DEF Invocations, ReportPcs

LEMMA CrashStep == ASSUME ReportInv, Crash PROVE ReportInv'
<1> DEFINE e == Crashed
           gone == inv.left \/ sysTree \in MadeUp
<1>1. inv' = [Ended(e) EXCEPT !.left = gone] /\ inv \in Invocations /\ inv.left \in BOOLEAN
  BY DEF ReportInv, ReportTypes, Crash, Invocations, Ended
<1>2. inv' \in Invocations /\ inv'.pc = "off" /\ inv'.exit # 0 /\ inv'.left = gone
  <2>1. e \in Int /\ e # 0 /\ gone \in BOOLEAN
    BY Codes
  <2> HIDE DEF e, gone
  <2>2. QED
    BY <1>1, <2>1, EndedLeft
<1>3. sysTree' \in {"absent", "host"} \cup MadeUp /\ (sysTree' \in MadeUp => inv'.left)
      /\ UNCHANGED <<disk, world>>
  BY <1>2 DEF ReportInv, ReportTypes, Crash
<1>4. ChildTypes' /\ (\A p \in Parts : alive'[p] = {})
  BY DEF Crash, ChildTypes
<1>5. QED
  BY <1>2, <1>3, <1>4, PartsAssumption, ReportEnds

LEMMA WorldSteps == ASSUME ReportInv, Edit \/ Rebuild PROVE ReportInv'
<1>1. UNCHANGED <<inv, disk, sysTree>> /\ UNCHANGED childVars /\ world' \in [src : Nat, bin : Nat]
  <2>1. world \in [src : Nat, bin : Nat]
    BY DEF ReportInv, ReportTypes
  <2>2. CASE Edit
    <3> DEFINE next == world.src + 1
    <3>1. next \in Nat /\ world' = [world EXCEPT !.src = next]
      BY <2>1, <2>2 DEF Edit
    <3> HIDE DEF next
    <3>2. QED
      BY <2>1, <2>2, <3>1 DEF Edit
  <2>3. CASE Rebuild
    BY <2>1, <2>3 DEF Rebuild
  <2>4. QED
    BY <2>2, <2>3
<1>2. ReportTypes'
  BY <1>1 DEF ReportInv, ReportTypes, ChildTypes, childVars
<1>3. TreeAndGroup' /\ Progress'
  BY <1>1 DEF ReportInv, TreeAndGroup, TreeHeld, childVars, Progress, ReportComplete, FiledBefore
<1>4. Evidence'
  <2>1. RowsBound'
    BY <1>1, SameRows DEF ReportInv, Evidence
  <2>2. QED
    BY <1>1, <2>1 DEF ReportInv, Evidence
<1>5. QED
  BY <1>2, <1>3, <1>4 DEF ReportInv

LEMMA BenchmarkMovesStep == ASSUME ReportInv, BenchmarkMoves PROVE ReportInv'
<1>1. UNCHANGED <<inv, disk, world, sysTree>> /\ inv.pc \in {"started", "wait", "kill"} /\ (Fork(1) \/ Leave(1))
  BY DEF BenchmarkMoves, reportVars
<1>2. ChildTypes' /\ UNCHANGED known /\ \A q \in Parts : alive[q] = {} => alive'[q] = {}
  BY <1>1, PartsAssumption, MovesKeep DEF ReportInv, ReportTypes
<1>3. ReportTypes' /\ TreeAndGroup'
  BY <1>1, <1>2 DEF ReportInv, ReportTypes, TreeAndGroup, TreeHeld, Measuring
<1>4. Progress'
  BY <1>1 DEF ReportInv, Progress, ReportComplete, FiledBefore
<1>5. Evidence'
  <2>1. RowsBound'
    BY <1>1, SameRows DEF ReportInv, Evidence
  <2>2. QED
    BY <1>1, <2>1 DEF ReportInv, Evidence
<1>6. QED
  BY <1>3, <1>4, <1>5 DEF ReportInv

(* A move of the program counter by an invocation that has nothing made up *)
(* and measures nothing: what is left to show is its evidence and its      *)
(* progress.                                                               *)
LEMMA QuietMoves ==
    ASSUME ReportInv, inv.pc \notin Measuring \ {"run"}, inv' \in Invocations, disk' \in Disks, UNCHANGED world,
           UNCHANGED childVars, UNCHANGED sysTree, inv'.pc # "started", TreeHeld'
    PROVE  ReportTypes' /\ TreeAndGroup'
<1>1. ChildTypes' /\ (\A p \in Parts \ {1} : alive'[p] = {}) /\ (known'[1] => alive'[1] = {})
  BY SameGroup
<1>2. QED
  BY <1>1 DEF ReportInv, ReportTypes, TreeAndGroup

(* Where a made-up tree is there only because an earlier invocation left it. *)
LEMMA NoTree ==
    ASSUME ReportInv, inv.pc \notin {"plant", "planted", "unplant", "cell", "flush", "flushing", "cleanup"} \cup Measuring
    PROVE  sysTree \in {"absent", "host"} \cup MadeUp /\ (sysTree \in MadeUp => inv.left)
  BY DEF ReportInv, ReportTypes, TreeAndGroup, TreeHeld

(* From cell to cell the tree stays and the local `created` with it.       *)
LEMMA TreeStays ==
    ASSUME ReportInv, UNCHANGED sysTree, inv'.made = inv.made, inv'.left = inv.left,
           inv.pc \in {"cell", "flush", "flushing", "cleanup"} \cup Measuring,
           inv'.pc \in {"cell", "flush", "flushing", "cleanup"} \cup Measuring
    PROVE  TreeHeld'
  BY DEF ReportInv, TreeAndGroup, TreeHeld, Measuring

LEMMA IdleTyped == Idle \in Invocations
<1>1. [runs |-> 1, six |-> 0, resume |-> TRUE, fake |-> FALSE] \in CommandLines
  BY DEF CommandLines
<1>2. <<>> \in Seq(Metrics) /\ <<>> \in Seq(SummaryRows) /\ 0 \in Versioned /\ {} \in SUBSET Versioned
  BY DEF Versioned
<1>3. QED
  BY <1>1, <1>2, Codes DEF Idle, Invocations, ReportPcs

LEMMA LaunchStep == ASSUME ReportInv, NEW args \in ReportArgs, Launch(args) PROVE ReportInv'
<1> DEFINE one == 1
           count == inv.launches + 1
           refused == args.fake /\ sysTree # "absent"
           code == IF refused THEN 2 ELSE Running
           to == IF refused THEN "off" ELSE "prepare"
           gone == inv.left
<1>0. inv \in Invocations /\ disk \in Disks /\ inv.pc = "off" /\ UNCHANGED <<disk, world, sysTree>>
      /\ UNCHANGED childVars
  BY DEF ReportInv, ReportTypes, Launch
<1>1. Idle \in Invocations
  BY IdleTyped
<1>2. count \in Nat /\ code \in Int /\ to \in ReportPcs /\ args \in CommandLines /\ one = 1
  BY <1>0, Codes, ReportAssumption DEF ReportPcs, CommandLines, Invocations
<1>3. inv' = [Idle EXCEPT !.launches = count, !.left = gone, !.args = args, !.pc = to, !.exit = code]
      /\ gone \in BOOLEAN
  BY <1>0 DEF Launch, Invocations
<1>4. to # "off" => code = Running
  OBVIOUS
<1>5. to = "off" => code = 2
  OBVIOUS
<1>6. to \in {"off", "prepare"}
  OBVIOUS
<1>7. Idle.i = one /\ Idle.then = "none"
  BY DEF Idle
<1> HIDE DEF code, count, to, refused, one, gone
<1>8. inv' \in Invocations
  BY <1>1, <1>2, <1>3 DEF Invocations
<1>9. inv'.pc = to /\ inv'.i = 1 /\ inv'.then = "none" /\ inv'.exit = code /\ inv'.left = inv.left
  BY <1>1, <1>2, <1>3, <1>7 DEF Invocations, gone
<1>10. code # 0
  BY <1>2, <1>4, <1>5, Codes
<1>11. ReportTypes' /\ TreeAndGroup'
  <2>1. TreeHeld'
    BY <1>0, <1>9, NoTree DEF Measuring, TreeHeld
  <2>2. QED
    BY <1>0, <1>6, <1>8, <1>9, <2>1, QuietMoves DEF Measuring
<1>12. Evidence'
  <2>1. RowsBound'
    BY <1>0, SameRows DEF ReportInv, Evidence
  <2>2. QED
    BY <1>0, <1>6, <1>9, <2>1 DEF ReportInv, Evidence, Described, Loaded, Measuring
<1>13. Progress'
  BY <1>6, <1>9, <1>10 DEF Progress, Measuring, ReportComplete
<1>14. QED
  BY <1>11, <1>12, <1>13 DEF ReportInv

(* Between the launch and the loading of the summary.                      *)
LEMMA EarlyProgress ==
    ASSUME ReportInv, inv.pc \in {"prepare", "build", "hash", "create", "fill", "describe", "load"},
           inv'.pc \in {"prepare", "build", "hash", "create", "fill", "describe", "load", "install", "cell"},
           inv'.i = inv.i, inv'.then = inv.then, inv'.exit = inv.exit
    PROVE  Progress'
<1>1. inv'.i = 1 /\ inv'.exit # 0 /\ inv'.then # "sort"
  BY DEF ReportInv, Progress
<1>2. 1 .. 1 - 1 = {} /\ 1 <= Len(ReportCells) + 1
  BY ReportAssumption
<1>3. QED
  BY <1>1, <1>2 DEF Progress, Measuring, ReportComplete, FiledBefore

LEMMA PrepareStep == ASSUME ReportInv, Prepare PROVE ReportInv'
<1> DEFINE seen == world.src
           to == IF disk.manifest = NoFile THEN "build" ELSE "hash"
<1>0. inv \in Invocations /\ disk \in Disks /\ inv.pc = "prepare" /\ UNCHANGED <<disk, world, sysTree>>
      /\ UNCHANGED childVars /\ world.src \in Nat
  BY DEF ReportInv, ReportTypes, Prepare
<1>1. sysTree \in {"absent", "host"} \cup MadeUp /\ (sysTree \in MadeUp => inv.left)
  BY <1>0, NoTree DEF Measuring
<1>2. RowsBound'
  BY <1>0, SameRows DEF ReportInv, Evidence
<1>3. CASE inv' = Ended(2)
  <2>1. inv' \in Invocations /\ inv'.pc = "off" /\ inv'.exit # 0 /\ inv'.left = inv.left
    BY <1>0, <1>3, EndedFields DEF Unmoved
  <2>2. ChildTypes' /\ (\A p \in Parts \ {1} : alive'[p] = {}) /\ (known'[1] => alive'[1] = {})
    BY <1>0, SameGroup DEF Measuring
  <2>3. QED
    BY <1>0, <1>1, <2>1, <2>2, ReportEnds
<1>4. CASE inv' = [inv EXCEPT !.src = seen, !.pc = to]
  <2>1. seen \in Nat /\ to \in {"build", "hash"}
    BY <1>0
  <2> HIDE DEF seen, to
  <2>2. inv' \in Invocations /\ inv'.pc = to /\ inv'.i = inv.i /\ inv'.then = inv.then /\ inv'.exit = inv.exit /\ inv'.left = inv.left
    BY <1>0, <1>4, <2>1 DEF Invocations, ReportPcs
  <2>3. ReportTypes' /\ TreeAndGroup'
    BY <1>0, <1>1, <2>1, <2>2, QuietMoves DEF Measuring, TreeHeld
  <2>4. Progress'
    BY <1>0, <2>1, <2>2, EarlyProgress
  <2>5. Evidence'
    BY <1>0, <1>2, <2>1, <2>2 DEF ReportInv, Evidence, Described, Loaded, Measuring
  <2>6. QED
    BY <2>3, <2>4, <2>5 DEF ReportInv
<1>5. QED
  BY <1>3, <1>4 DEF Prepare

LEMMA BuildSnapshotsStep == ASSUME ReportInv, BuildSnapshots PROVE ReportInv'
<1>0. inv \in Invocations /\ disk \in Disks /\ inv.pc = "build" /\ UNCHANGED <<world, sysTree>>
      /\ UNCHANGED childVars /\ world.src \in Nat
  BY DEF ReportInv, ReportTypes, BuildSnapshots
<1>1. sysTree \in {"absent", "host"} \cup MadeUp /\ (sysTree \in MadeUp => inv.left)
  BY <1>0, NoTree DEF Measuring
<1>2. CASE Goto("hash") /\ disk' = [disk EXCEPT !.snap = world.src]
  <2>1. inv' \in Invocations /\ inv'.pc = "hash" /\ inv'.i = inv.i /\ inv'.then = inv.then /\ inv'.exit = inv.exit /\ inv'.left = inv.left
    BY <1>0, <1>2, GotoFields DEF ReportPcs, Unmoved
  <2>2. disk' \in Disks /\ disk'.manifest = disk.manifest /\ disk'.summary = disk.summary
    BY <1>0, <1>2 DEF Disks, Versioned
  <2>3. ReportTypes' /\ TreeAndGroup'
    BY <1>0, <1>1, <2>1, <2>2, QuietMoves DEF Measuring, TreeHeld
  <2>4. Progress'
    BY <1>0, <2>1, EarlyProgress
  <2>5. RowsBound'
    BY <2>2, SameRows DEF ReportInv, Evidence
  <2>6. Evidence'
    BY <2>1, <2>2, <2>5 DEF ReportInv, Evidence, Described, Loaded, Measuring
  <2>7. QED
    BY <2>3, <2>4, <2>6 DEF ReportInv
<1>3. CASE End(2) /\ UNCHANGED disk
  <2>1. inv' \in Invocations /\ inv'.pc = "off" /\ inv'.exit # 0 /\ inv'.left = inv.left
    BY <1>0, <1>3, EndedFields DEF Unmoved, End
  <2>2. ChildTypes' /\ (\A p \in Parts \ {1} : alive'[p] = {}) /\ (known'[1] => alive'[1] = {})
    BY <1>0, SameGroup DEF Measuring
  <2>3. QED
    BY <1>0, <1>1, <1>3, <2>1, <2>2, ReportEnds
<1>4. QED
  BY <1>2, <1>3 DEF BuildSnapshots

LEMMA HashBinariesStep == ASSUME ReportInv, HashBinaries PROVE ReportInv'
<1> DEFINE man == [src |-> inv.src, bins |-> Hashes]
           to == IF disk.manifest = NoFile THEN "create" ELSE "load"
<1>0. inv \in Invocations /\ disk \in Disks /\ inv.pc = "hash" /\ UNCHANGED <<disk, world, sysTree>>
      /\ UNCHANGED childVars /\ world.bin \in Nat
  BY DEF ReportInv, ReportTypes, HashBinaries
<1>1. sysTree \in {"absent", "host"} \cup MadeUp /\ (sysTree \in MadeUp => inv.left)
  BY <1>0, NoTree DEF Measuring
<1>2. RowsBound'
  BY <1>0, SameRows DEF ReportInv, Evidence
<1>3. man \in Manifests /\ man.src = inv.src
  <2>1. \A c \in CellNames : Binary(c) \in Versioned
    BY <1>0 DEF Binary, Disks, Versioned
  <2>2. Hashes \in [CellNames -> Versioned] /\ inv.src \in Nat
    BY <1>0, <2>1 DEF Hashes, Invocations
  <2>3. QED
    BY <2>2 DEF Manifests
<1>4. CASE inv' = Ended(2)
  <2>1. inv' \in Invocations /\ inv'.pc = "off" /\ inv'.exit # 0 /\ inv'.left = inv.left
    BY <1>0, <1>4, EndedFields DEF Unmoved
  <2>2. ChildTypes' /\ (\A p \in Parts \ {1} : alive'[p] = {}) /\ (known'[1] => alive'[1] = {})
    BY <1>0, SameGroup DEF Measuring
  <2>3. QED
    BY <1>0, <1>1, <2>1, <2>2, ReportEnds
<1>5. CASE inv' = [inv EXCEPT !.man = man, !.pc = to] /\ (disk.manifest = NoFile \/ disk.manifest = man)
  <2>1. to \in {"create", "load"} /\ (to = "create" => disk.manifest = NoFile) /\ (to = "load" => disk.manifest = man)
    BY <1>0, <1>5
  <2> HIDE DEF man, to
  <2>2. inv' \in Invocations /\ inv'.pc = to /\ inv'.i = inv.i /\ inv'.then = inv.then /\ inv'.exit = inv.exit /\ inv'.left = inv.left
        /\ inv'.man = man /\ inv'.src = inv.src
    BY <1>0, <1>3, <1>5, <2>1 DEF Invocations, ReportPcs
  <2>3. ReportTypes' /\ TreeAndGroup'
    BY <1>0, <1>1, <2>1, <2>2, QuietMoves DEF Measuring, TreeHeld
  <2>4. Progress'
    BY <1>0, <2>1, <2>2, EarlyProgress
  <2>5. Evidence'
    BY <1>0, <1>2, <1>3, <2>1, <2>2 DEF ReportInv, Evidence, Described, Loaded, Measuring
  <2>6. QED
    BY <2>3, <2>4, <2>5 DEF ReportInv
<1>6. QED
  BY <1>4, <1>5 DEF HashBinaries

(* What a directory without a whole manifest holds of rows.                *)
LEMMA NoRows ==
    ASSUME RowsBound, disk.manifest \in {NoFile, Torn}, Readable(disk.summary)
    PROVE  DOMAIN disk.summary = {}
  BY DEF RowsBound, Readable

LEMMA CreateManifestStep == ASSUME ReportInv, CreateManifest PROVE ReportInv'
<1>0. inv \in Invocations /\ disk \in Disks /\ inv.pc = "create" /\ UNCHANGED <<world, sysTree>>
      /\ UNCHANGED childVars /\ disk' = [disk EXCEPT !.manifest = Torn] /\ Goto("fill")
  BY DEF ReportInv, ReportTypes, CreateManifest
<1>1. sysTree \in {"absent", "host"} \cup MadeUp /\ (sysTree \in MadeUp => inv.left)
  BY <1>0, NoTree DEF Measuring
<1>2. disk' \in Disks /\ disk'.manifest = Torn /\ disk'.summary = disk.summary
  BY <1>0 DEF Disks
<1>3. inv' \in Invocations /\ inv'.pc = "fill" /\ inv'.i = inv.i /\ inv'.then = inv.then /\ inv'.exit = inv.exit /\ inv'.left = inv.left
      /\ inv'.man = inv.man /\ inv'.src = inv.src
  BY <1>0, GotoFields DEF ReportPcs, Unmoved
<1>4. ReportTypes' /\ TreeAndGroup'
  BY <1>0, <1>1, <1>2, <1>3, QuietMoves DEF Measuring, TreeHeld
<1>5. Progress'
  BY <1>0, <1>3, EarlyProgress
<1>6. RowsBound'
  BY <1>0, <1>2, NoRows DEF RowsBound, Readable, ReportInv, Evidence
<1>7. Evidence'
  BY <1>0, <1>2, <1>3, <1>6 DEF ReportInv, Evidence, Described, Loaded, Measuring
<1>8. QED
  BY <1>4, <1>5, <1>7 DEF ReportInv

LEMMA FillManifestStep == ASSUME ReportInv, FillManifest PROVE ReportInv'
<1>0. inv \in Invocations /\ disk \in Disks /\ inv.pc = "fill" /\ UNCHANGED <<world, sysTree>>
      /\ UNCHANGED childVars /\ disk' = [disk EXCEPT !.manifest = inv.man] /\ Goto("describe")
  BY DEF ReportInv, ReportTypes, FillManifest
<1>1. sysTree \in {"absent", "host"} \cup MadeUp /\ (sysTree \in MadeUp => inv.left)
  BY <1>0, NoTree DEF Measuring
<1>2. inv.man \in Manifests /\ inv.man.src = inv.src /\ disk.manifest = Torn
  BY <1>0 DEF ReportInv, Evidence
<1>3. disk' \in Disks /\ disk'.manifest = inv.man /\ disk'.summary = disk.summary
  BY <1>0, <1>2 DEF Disks
<1>4. inv' \in Invocations /\ inv'.pc = "describe" /\ inv'.i = inv.i /\ inv'.then = inv.then /\ inv'.exit = inv.exit /\ inv'.left = inv.left
      /\ inv'.man = inv.man /\ inv'.src = inv.src
  BY <1>0, GotoFields DEF ReportPcs, Unmoved
<1>5. ReportTypes' /\ TreeAndGroup'
  BY <1>0, <1>1, <1>3, <1>4, QuietMoves DEF Measuring, TreeHeld
<1>6. Progress'
  BY <1>0, <1>4, EarlyProgress
<1>7. RowsBound'
  BY <1>2, <1>3, NoRows DEF RowsBound, Readable, ReportInv, Evidence
<1>8. Evidence'
  BY <1>2, <1>3, <1>4, <1>7 DEF ReportInv, Evidence, Described, Loaded, Measuring
<1>9. QED
  BY <1>5, <1>6, <1>8 DEF ReportInv

LEMMA WriteMetadataStep == ASSUME ReportInv, WriteMetadata PROVE ReportInv'
<1> DEFINE written == TRUE
<1>0. inv \in Invocations /\ disk \in Disks /\ inv.pc = "describe" /\ UNCHANGED <<world, sysTree>>
      /\ UNCHANGED childVars /\ disk' = [disk EXCEPT !.meta = written] /\ Goto("load")
  BY DEF ReportInv, ReportTypes, WriteMetadata
<1>1. written \in BOOLEAN
  OBVIOUS
<1> HIDE DEF written
<1>2. disk' \in Disks /\ disk'.manifest = disk.manifest /\ disk'.summary = disk.summary
  BY <1>0, <1>1 DEF Disks
<1>3. inv' \in Invocations /\ inv'.pc = "load" /\ inv'.i = inv.i /\ inv'.then = inv.then /\ inv'.exit = inv.exit /\ inv'.left = inv.left
      /\ inv'.man = inv.man /\ inv'.src = inv.src
  BY <1>0, GotoFields DEF ReportPcs, Unmoved
<1>4. sysTree \in {"absent", "host"} \cup MadeUp /\ (sysTree \in MadeUp => inv.left)
  BY <1>0, NoTree DEF Measuring
<1>5. ReportTypes' /\ TreeAndGroup'
  BY <1>0, <1>2, <1>3, <1>4, QuietMoves DEF Measuring, TreeHeld
<1>6. Progress'
  BY <1>0, <1>3, EarlyProgress
<1>7. RowsBound'
  BY <1>2, SameRows DEF ReportInv, Evidence
<1>8. Evidence'
  BY <1>0, <1>2, <1>3, <1>7 DEF ReportInv, Evidence, Described, Loaded, Measuring
<1>9. QED
  BY <1>5, <1>6, <1>8 DEF ReportInv

LEMMA LoadSummaryStep == ASSUME ReportInv, LoadSummary PROVE ReportInv'
<1> DEFINE made == TRUE
           log == IF Readable(disk.summary) THEN disk.summary ELSE <<>>
           to == IF inv.args.fake THEN "install" ELSE "cell"
<1>0. inv \in Invocations /\ disk \in Disks /\ inv.pc = "load" /\ UNCHANGED <<world, sysTree>>
      /\ UNCHANGED childVars /\ disk' = [disk EXCEPT !.raw = made]
      /\ inv' = [inv EXCEPT !.results = log, !.pc = to]
  BY DEF ReportInv, ReportTypes, LoadSummary
<1>1. log \in Seq(SummaryRows) /\ to \in {"install", "cell"} /\ made \in BOOLEAN
  BY <1>0 DEF Disks, Readable
<1>2. OfManifest(log, inv.man) /\ BurstRows(log)
  <2>1. CASE Readable(disk.summary)
    <3>1. disk.manifest = inv.man /\ disk.summary \in Seq(SummaryRows)
      BY <1>0, <2>1 DEF ReportInv, Evidence, Described, Disks, Readable
    <3>2. QED
      BY <2>1, <3>1 DEF ReportInv, Evidence, OfManifest, RowsBound, RanSnapshot
  <2>2. CASE ~ Readable(disk.summary)
    BY <2>2 DEF OfManifest, BurstRows
  <2>3. QED
    BY <2>1, <2>2
<1> HIDE DEF log, to, made
<1>3. disk' \in Disks /\ disk'.manifest = disk.manifest /\ disk'.summary = disk.summary
  BY <1>0, <1>1 DEF Disks
<1>4. inv' \in Invocations /\ inv'.pc = to /\ inv'.i = inv.i /\ inv'.then = inv.then /\ inv'.exit = inv.exit /\ inv'.left = inv.left
      /\ inv'.man = inv.man /\ inv'.src = inv.src /\ inv'.results = log
  BY <1>0, <1>1 DEF Invocations, ReportPcs
<1>5. sysTree \in {"absent", "host"} \cup MadeUp /\ (sysTree \in MadeUp => inv.left)
  BY <1>0, NoTree DEF Measuring
<1>6. ReportTypes' /\ TreeAndGroup'
  BY <1>0, <1>1, <1>3, <1>4, <1>5, QuietMoves DEF Measuring, TreeHeld
<1>7. Progress'
  BY <1>0, <1>1, <1>4, EarlyProgress
<1>8. RowsBound'
  BY <1>3, SameRows DEF ReportInv, Evidence
<1>9. Evidence'
  BY <1>0, <1>1, <1>2, <1>3, <1>4, <1>8 DEF ReportInv, Evidence, Described, Loaded, Measuring
<1>10. QED
  BY <1>6, <1>7, <1>9 DEF ReportInv

LEMMA InstallTreeStep == ASSUME ReportInv, InstallTree PROVE ReportInv'
<1>0. inv \in Invocations /\ disk \in Disks /\ inv.pc = "install" /\ UNCHANGED <<disk, world>>
      /\ UNCHANGED childVars
  BY DEF ReportInv, ReportTypes, InstallTree
<1>1. ChildTypes' /\ (\A p \in Parts \ {1} : alive'[p] = {}) /\ (known'[1] => alive'[1] = {})
  BY <1>0, SameGroup DEF Measuring
<1>2. RowsBound'
  BY <1>0, SameRows DEF ReportInv, Evidence
<1>3. CASE End(2) /\ UNCHANGED sysTree
  <2>1. inv' \in Invocations /\ inv'.pc = "off" /\ inv'.exit # 0 /\ inv'.left = inv.left
    BY <1>0, <1>3, EndedFields DEF Unmoved, End
  <2>2. sysTree \in {"absent", "host"} \cup MadeUp /\ (sysTree \in MadeUp => inv.left)
    BY <1>0, NoTree DEF Measuring
  <2>3. QED
    BY <1>0, <1>1, <1>3, <2>1, <2>2, ReportEnds
<1>4. CASE Goto("plant") /\ sysTree' = "partial"
  <2>1. inv' \in Invocations /\ inv'.pc = "plant" /\ Unmoved /\ inv'.then = inv.then /\ inv'.exit = inv.exit /\ inv'.left = inv.left
    BY <1>0, <1>4, GotoFields DEF ReportPcs, Unmoved
  <2>2. ReportTypes' /\ TreeAndGroup'
    BY <1>0, <1>1, <1>4, <2>1 DEF ReportInv, ReportTypes, TreeAndGroup, TreeHeld, MadeUp, Measuring
  <2>3. Progress'
    BY <1>0, <2>1 DEF ReportInv, Progress, Measuring, ReportComplete, Unmoved
  <2>4. Evidence'
    BY <1>0, <1>2, <2>1 DEF ReportInv, Evidence, Described, Loaded, Measuring, OfManifest, Unmoved
  <2>5. QED
    BY <2>2, <2>3, <2>4 DEF ReportInv
<1>5. QED
  BY <1>3, <1>4 DEF InstallTree

(* The steps of the installation after its first file.                     *)
LEMMA PlantSteps ==
    ASSUME ReportInv, inv.pc \in {"plant", "planted", "unplant"}, inv' \in Invocations, UNCHANGED <<disk, world>>,
           UNCHANGED childVars, inv'.pc \in {"planted", "unplant", "cell", "cleanup"}, inv'.man = inv.man,
           inv'.src = inv.src, inv'.results = inv.results, inv'.i = inv.i, inv'.then # "sort", inv'.exit # 0,
           sysTree' \in {"absent", "host"} \cup MadeUp,
           sysTree' \in MadeUp => inv'.left \/ inv'.pc \in {"planted", "unplant"} \/ (inv'.pc = "cell" /\ inv'.made)
    PROVE  ReportInv'
<1>1. ChildTypes' /\ (\A p \in Parts \ {1} : alive'[p] = {}) /\ (known'[1] => alive'[1] = {})
  BY SameGroup DEF Measuring
<1>2. ReportTypes' /\ TreeAndGroup'
  BY <1>1 DEF ReportInv, ReportTypes, TreeAndGroup, TreeHeld
<1>3. inv.i = 1 /\ 1 .. 1 - 1 = {} /\ 1 <= Len(ReportCells) + 1
  BY ReportAssumption DEF ReportInv, Progress
<1>4. Progress'
  BY <1>3 DEF Progress, Measuring, ReportComplete, FiledBefore
<1>5. RowsBound'
  BY SameRows DEF ReportInv, Evidence
<1>6. Evidence'
  BY <1>5 DEF ReportInv, Evidence, Described, Loaded, Measuring, OfManifest
<1>7. QED
  BY <1>2, <1>4, <1>6 DEF ReportInv

LEMMA WritePlanStep == ASSUME ReportInv, WritePlan PROVE ReportInv'
<1> DEFINE one == 1
<1>0. inv \in Invocations /\ inv.pc = "plant" /\ UNCHANGED <<disk, world>> /\ UNCHANGED childVars
      /\ inv.then # "sort" /\ inv.exit # 0 /\ sysTree \in {"absent", "host"} \cup MadeUp
  BY DEF ReportInv, ReportTypes, Progress, WritePlan
<1>1. one \in Int /\ one # 0
  OBVIOUS
<1>2. \/ Goto("planted") /\ sysTree' = "whole"
      \/ inv' = [inv EXCEPT !.pc = "unplant", !.exit = one] /\ UNCHANGED sysTree
  BY DEF WritePlan
<1> HIDE DEF one
<1>3. inv' \in Invocations /\ inv'.pc \in {"planted", "unplant"} /\ inv'.man = inv.man /\ inv'.src = inv.src
      /\ inv'.results = inv.results /\ inv'.i = inv.i /\ inv'.then = inv.then /\ inv'.exit # 0
  <2>1. CASE Goto("planted")
    BY <1>0, <2>1, GotoFields DEF Unmoved, ReportPcs
  <2>2. CASE inv' = [inv EXCEPT !.pc = "unplant", !.exit = one]
    BY <1>0, <1>1, <2>2 DEF Invocations, ReportPcs
  <2>3. QED
    BY <1>2, <2>1, <2>2
<1>4. sysTree' \in {"absent", "host"} \cup MadeUp
  BY <1>0, <1>2 DEF MadeUp
<1>5. QED
  BY <1>0, <1>3, <1>4, PlantSteps

LEMMA UnplantTreeStep == ASSUME ReportInv, UnplantTree PROVE ReportInv'
<1>0. inv \in Invocations /\ inv.pc = "unplant" /\ Goto("cleanup") /\ UNCHANGED <<disk, world>>
      /\ UNCHANGED childVars /\ inv.then # "sort" /\ inv.exit # 0 /\ sysTree' = "absent"
  BY DEF ReportInv, ReportTypes, Progress, UnplantTree
<1>1. inv' \in Invocations /\ inv'.pc = "cleanup" /\ Unmoved /\ inv'.then = inv.then /\ inv'.exit = inv.exit
  BY <1>0, GotoFields DEF ReportPcs
<1>2. sysTree' \in {"absent", "host"} \cup MadeUp /\ sysTree' \notin MadeUp
  BY <1>0 DEF MadeUp
<1>3. QED
  BY <1>0, <1>1, <1>2, PlantSteps DEF Unmoved

LEMMA NoteTreeStep == ASSUME ReportInv, NoteTree PROVE ReportInv'
<1> DEFINE made == TRUE
<1>0. inv \in Invocations /\ inv.pc = "planted" /\ inv' = [inv EXCEPT !.pc = "cell", !.made = made]
      /\ UNCHANGED <<disk, world, sysTree>> /\ UNCHANGED childVars /\ inv.then # "sort" /\ inv.exit # 0
      /\ sysTree \in {"absent", "host"} \cup MadeUp
  BY DEF ReportInv, ReportTypes, Progress, NoteTree
<1>1. made \in BOOLEAN /\ made
  OBVIOUS
<1> HIDE DEF made
<1>2. inv' \in Invocations /\ inv'.pc = "cell" /\ inv'.made = made /\ inv'.man = inv.man /\ inv'.src = inv.src
      /\ inv'.results = inv.results /\ inv'.i = inv.i /\ inv'.then = inv.then /\ inv'.exit = inv.exit
  BY <1>0, <1>1 DEF Invocations, ReportPcs
<1>3. QED
  BY <1>0, <1>1, <1>2, PlantSteps

(* To the finally clause, otherwise than after the last cell.              *)
LEMMA ReportUnwinds ==
    ASSUME ReportInv, inv.pc \in {"install", "cell", "flush", "flushing"} \cup Measuring, inv' \in Invocations,
           inv'.pc = "cleanup", inv'.then # "sort", inv'.exit # 0, Unmoved, UNCHANGED <<disk, world, sysTree>>,
           ChildTypes', \A p \in Parts \ {1} : alive'[p] = {}, known'[1] => alive'[1] = {}
    PROVE  ReportInv'
<1>0. TreeHeld'
  BY DEF ReportInv, TreeAndGroup, TreeHeld, Measuring, Unmoved
<1>1. ReportTypes' /\ TreeAndGroup'
  BY <1>0 DEF ReportInv, ReportTypes, TreeAndGroup
<1>2. RowsBound'
  BY SameRows DEF ReportInv, Evidence
<1>3. Evidence'
  BY <1>2 DEF ReportInv, Evidence, Described, Loaded, Measuring, OfManifest, Unmoved
<1>4. Progress'
  BY DEF Progress, Measuring, ReportComplete
<1>5. QED
  BY <1>1, <1>3, <1>4 DEF ReportInv

LEMMA CellsDoneStep == ASSUME ReportInv, CellsDone PROVE ReportInv'
<1>0. inv \in Invocations /\ inv.pc = "cell" /\ inv.i > Len(ReportCells) /\ UNCHANGED <<disk, world, sysTree>>
      /\ UNCHANGED childVars /\ inv' = [inv EXCEPT !.pc = "cleanup", !.then = "sort"] /\ disk \in Disks
  BY DEF ReportInv, ReportTypes, CellsDone
<1>1. inv' \in Invocations /\ inv'.pc = "cleanup" /\ Unmoved /\ inv'.then = "sort" /\ inv'.exit = inv.exit
  BY <1>0 DEF Invocations, ReportPcs, Unmoved
<1>2. inv.i = Len(ReportCells) + 1
  BY <1>0, ReportAssumption DEF ReportInv, Progress, Invocations
<1>a. TreeHeld'
  BY <1>0, <1>1, TreeStays DEF Unmoved
<1>3. ReportTypes' /\ TreeAndGroup'
  BY <1>0, <1>1, <1>a, QuietMoves DEF Measuring
<1>4. Progress'
  BY <1>0, <1>1, <1>2 DEF ReportInv, Progress, Measuring, ReportComplete, Unmoved, FiledBefore
<1>5. RowsBound'
  BY <1>0, SameRows DEF ReportInv, Evidence
<1>6. Evidence'
  BY <1>0, <1>1, <1>5 DEF ReportInv, Evidence, Described, Loaded, Measuring, OfManifest, Unmoved
<1>7. QED
  BY <1>3, <1>4, <1>6 DEF ReportInv

LEMMA NextCellStep == ASSUME ReportInv, NextCell PROVE ReportInv'
<1> DEFINE c == ReportCells[inv.i]
           failed == 1
           next == inv.i + 1
           none == 0
           bin == Binary(c)
<1>0. inv \in Invocations /\ disk \in Disks /\ inv.pc = "cell" /\ inv.i <= Len(ReportCells)
      /\ UNCHANGED <<disk, world, sysTree>> /\ UNCHANGED childVars
  BY DEF ReportInv, ReportTypes, NextCell
<1>1. inv.i \in 1 .. Len(ReportCells) /\ c \in CellNames /\ next \in Nat \ {0} /\ failed \in Int /\ failed # 0
      /\ none \in Nat /\ <<>> \in Seq(Metrics)
  BY <1>0, ReportAssumption DEF Invocations, CellNames
<1>2. bin \in Versioned
  BY <1>0 DEF Binary, Disks, Versioned, ReportInv, ReportTypes
<1>3. RowsBound'
  BY <1>0, SameRows DEF ReportInv, Evidence
<1>4. CASE inv' = [inv EXCEPT !.pc = "cleanup", !.exit = failed]
  <2> HIDE DEF failed
  <2>1. inv' \in Invocations /\ inv'.pc = "cleanup" /\ Unmoved /\ inv'.then = inv.then /\ inv'.exit # 0
    BY <1>0, <1>1, <1>4 DEF Invocations, ReportPcs, Unmoved
  <2>2. inv.then # "sort"
    BY <1>0 DEF ReportInv, Progress
  <2>3. ChildTypes' /\ (\A p \in Parts \ {1} : alive'[p] = {}) /\ (known'[1] => alive'[1] = {})
    BY <1>0, SameGroup DEF Measuring
  <2>4. QED
    BY <1>0, <2>1, <2>2, <2>3, ReportUnwinds
<1>5. CASE inv' = [inv EXCEPT !.i = next] /\ Cached(inv.results, c, Requested(inv.args, c))
  <2>1. inv' = [inv EXCEPT !.i = next] /\ next \in Nat \ {0} /\ next = inv.i + 1
    BY <1>1, <1>5
  <2> HIDE DEF next
  <2>2. inv' \in Invocations /\ inv'.pc = "cell" /\ inv'.i = next /\ inv'.then = inv.then /\ inv'.exit = inv.exit
        /\ inv'.results = inv.results /\ inv'.args = inv.args /\ inv'.man = inv.man /\ inv'.src = inv.src
        /\ inv'.made = inv.made /\ inv'.left = inv.left
    BY <1>0, <2>1 DEF Invocations
  <2>a. TreeHeld'
    BY <1>0, <2>2, TreeStays
  <2>3. ReportTypes' /\ TreeAndGroup'
    BY <1>0, <2>2, <2>a, QuietMoves DEF Measuring
  <2>4. FiledBefore(inv.i) /\ inv.then # "sort" /\ inv.exit # 0
    BY <1>0 DEF ReportInv, Progress
  <2>5. \E row \in RowsOf(inv.results, c) : row.ok => Len(row.values) >= Requested(inv.args, c)
    BY <1>5 DEF Cached
  <2>6. \A j \in 1 .. next - 1 : j \in 1 .. inv.i - 1 \/ j = inv.i
    BY <1>1, <2>1
  <2>8. inv'.i <= Len(ReportCells) + 1
    BY <1>1, <2>1, <2>2, ReportAssumption
  <2>9. FiledBefore(inv.i)'
    BY <2>2, <2>4, <2>5, <2>6 DEF FiledBefore
  <2>10. Progress'
    BY <2>2, <2>4, <2>8, <2>9 DEF Progress, Measuring, ReportComplete
  <2>11. Evidence'
    BY <1>0, <1>3, <2>2 DEF ReportInv, Evidence, Described, Loaded, Measuring, OfManifest
  <2>12. QED
    BY <2>3, <2>10, <2>11 DEF ReportInv
<1>6. CASE inv' = [inv EXCEPT !.pc = "run", !.done = none, !.values = <<>>, !.checked = bin, !.ran = {}] /\ ~ Changed(c)
  <2>0. inv' = [inv EXCEPT !.pc = "run", !.done = none, !.values = <<>>, !.checked = bin, !.ran = {}]
        /\ bin = inv.man.bins[ReportCells[inv.i]] /\ <<>> \in Seq(Metrics) /\ none \in Nat
        /\ (c \in Frozen => disk.snap = bin) /\ {} \in SUBSET Versioned
    BY <1>1, <1>6 DEF Changed, Binary
  <2> HIDE DEF none, bin
  <2>1. inv' \in Invocations /\ inv'.pc = "run" /\ inv'.i = inv.i /\ inv'.then = inv.then /\ inv'.exit = inv.exit
        /\ inv'.results = inv.results /\ inv'.args = inv.args /\ inv'.man = inv.man /\ inv'.src = inv.src
        /\ inv'.values = <<>> /\ inv'.checked = bin /\ inv'.ran = {} /\ inv'.made = inv.made /\ inv'.left = inv.left
    BY <1>0, <1>2, <2>0 DEF Invocations, ReportPcs
  <2>2. ReportTypes'
    <3>1. ChildTypes'
      BY <1>0, SameGroup
    <3>2. QED
      BY <1>0, <2>1, <3>1 DEF ReportInv, ReportTypes
  <2>3. TreeAndGroup'
    <3>1. (\A p \in Parts \ {1} : alive'[p] = {}) /\ (known'[1] => alive'[1] = {})
      BY <1>0, SameGroup DEF Measuring
    <3>2. TreeHeld'
      BY <1>0, <2>1, TreeStays DEF Measuring
    <3>3. QED
      BY <1>0, <2>1, <3>1, <3>2 DEF ReportInv, TreeAndGroup, Measuring
  <2>4. Progress'
    BY <1>0, <2>1 DEF ReportInv, Progress, Measuring, ReportComplete, FiledBefore
  <2>5. Evidence'
    BY <1>0, <1>3, <2>0, <2>1 DEF ReportInv, Evidence, Described, Loaded, Measuring, OfManifest, WholeBursts,
       RanSnapshot
  <2>6. QED
    BY <2>2, <2>3, <2>4, <2>5 DEF ReportInv
<1>7. QED
  BY <1>4, <1>5, <1>6 DEF NextCell

(* A measurement that goes on with the same cell, perhaps with a sample.   *)
Sampling ==
    /\ inv'.args = inv.args /\ inv'.src = inv.src /\ inv'.man = inv.man /\ inv'.i = inv.i
    /\ inv'.values = inv.values /\ inv'.checked = inv.checked /\ inv'.results = inv.results
    /\ inv'.made = inv.made /\ inv'.left = inv.left /\ inv'.ran = inv.ran \cup {Binary(ReportCells[inv.i])}

LEMMA ReportGoesOn ==
    ASSUME ReportInv, inv.pc \in Measuring, inv' \in Invocations, inv'.pc \in Measuring,
           Unmoved \/ (Sampling /\ (ReportCells[inv.i] \in Frozen => Binary(ReportCells[inv.i]) = disk.snap)), inv'.then # "sort", inv'.exit # 0, UNCHANGED <<disk, world, sysTree>>,
           ChildTypes', \A p \in Parts \ {1} : alive'[p] = {},
           inv'.pc = "run" /\ known'[1] => alive'[1] = {}, inv'.pc = "started" => ~ known'[1]
    PROVE  ReportInv'
<1>0. TreeHeld'
  BY TreeStays DEF Unmoved, Sampling
<1>1. ReportTypes' /\ TreeAndGroup'
  BY <1>0 DEF ReportInv, ReportTypes, TreeAndGroup, Measuring
<1>2. RowsBound'
  BY SameRows DEF ReportInv, Evidence
<1>3. Evidence'
  BY <1>2 DEF ReportInv, Evidence, Described, Loaded, Measuring, OfManifest, Unmoved, Sampling,
     RanSnapshot
<1>4. Progress'
  BY DEF ReportInv, Progress, Measuring, ReportComplete, Unmoved, Sampling, FiledBefore
<1>5. QED
  BY <1>1, <1>3, <1>4 DEF ReportInv

(* What the signals leave of the group.                                    *)
LEMMA Signalled ==
    ASSUME ChildTypes, \A p \in Parts \ {1} : alive[p] = {}, TermGroup(1) \/ KillGroup(1)
    PROVE  ChildTypes' /\ UNCHANGED known /\ (\A p \in Parts \ {1} : alive'[p] = {})
           /\ (KillGroup(1) => alive'[1] = {})
<1>0. ChildTypes /\ (\A p \in Parts \ {1} : alive[p] = {}) /\ 1 \in Parts
  BY PartsAssumption
<1>1. CASE TermGroup(1)
  <2>1. PICK left \in SUBSET alive[1] : alive' = [alive EXCEPT ![1] = left]
    BY <1>1 DEF TermGroup
  <2>2. left \in SUBSET Members
    BY <1>0, <2>1 DEF ChildTypes
  <2>3. CASE KillGroup(1)
    BY <1>0, <2>3 DEF KillGroup, Survivors, ChildTypes
  <2>4. QED
    BY <1>0, <1>1, <2>1, <2>2, <2>3 DEF TermGroup, ChildTypes
<1>2. CASE KillGroup(1)
  BY <1>0, <1>2 DEF KillGroup, Survivors, ChildTypes
<1>3. QED
  BY <1>1, <1>2

LEMMA StartBenchmarkStep == ASSUME ReportInv, StartBenchmark PROVE ReportInv'
<1> DEFINE ran == inv.ran \cup {Binary(ReportCells[inv.i])}
<1>0. inv \in Invocations /\ inv.pc = "run" /\ Spawn(1) /\ inv' = [inv EXCEPT !.pc = "started", !.ran = ran]
      /\ UNCHANGED <<disk, world, sysTree>> /\ ChildTypes /\ (\A p \in Parts \ {1} : alive[p] = {}) /\ inv.then # "sort" /\ inv.exit # 0
  BY DEF ReportInv, ReportTypes, TreeAndGroup, Progress, StartBenchmark
<1>1. inv' \in Invocations /\ inv'.pc = "started" /\ Sampling /\ inv'.then = inv.then /\ inv'.exit = inv.exit
  <2>1. ran \in SUBSET Versioned /\ ran = inv.ran \cup {Binary(ReportCells[inv.i])}
    BY <1>0 DEF Binary, Disks, Versioned, ReportInv, ReportTypes, Invocations
  <2> HIDE DEF ran
  <2>2. QED
    BY <1>0, <2>1 DEF Invocations, ReportPcs, Sampling
<1>a. ReportCells[inv.i] \in Frozen => Binary(ReportCells[inv.i]) = disk.snap
  BY DEF Binary
<1>2. alive' \in [Parts -> SUBSET Members] /\ \A p \in Parts \ {1} : alive'[p] = {}
  BY <1>0 DEF Spawn, ChildTypes, Members
<1>3. known' \in [Parts -> BOOLEAN] /\ ~ known'[1]
  <2>1. known \in [Parts -> BOOLEAN] /\ known' = [known EXCEPT ![1] = FALSE]
    BY <1>0 DEF Spawn, ChildTypes
  <2>2. QED
    BY <2>1, PartsAssumption, Zenon
<1>4. QED
  BY <1>0, <1>1, <1>a, <1>2, <1>3, ReportGoesOn DEF Measuring, ChildTypes

LEMMA NoteBenchmarkStep == ASSUME ReportInv, NoteBenchmark PROVE ReportInv'
<1>0. inv \in Invocations /\ inv.pc = "started" /\ Register(1) /\ Goto("wait") /\ UNCHANGED <<disk, world, sysTree>>
      /\ ChildTypes /\ (\A p \in Parts \ {1} : alive[p] = {}) /\ inv.then # "sort" /\ inv.exit # 0
  BY DEF ReportInv, ReportTypes, TreeAndGroup, Progress, NoteBenchmark
<1>1. inv' \in Invocations /\ inv'.pc = "wait" /\ Unmoved /\ inv'.then = inv.then /\ inv'.exit = inv.exit
  BY <1>0, GotoFields DEF ReportPcs
<1>2. alive' \in [Parts -> SUBSET Members] /\ \A p \in Parts \ {1} : alive'[p] = {}
  BY <1>0 DEF Register, ChildTypes
<1>3. known' \in [Parts -> BOOLEAN]
  <2>1. known \in [Parts -> BOOLEAN] /\ known' = [known EXCEPT ![1] = TRUE]
    BY <1>0 DEF Register, ChildTypes
  <2>2. QED
    BY <2>1, Zenon
<1>4. QED
  BY <1>0, <1>1, <1>2, <1>3, ReportGoesOn DEF Measuring, ChildTypes

LEMMA TimedOutStep == ASSUME ReportInv, TimedOut PROVE ReportInv'
<1>0. inv \in Invocations /\ inv.pc = "wait" /\ UNCHANGED <<disk, world, sysTree>> /\ UNCHANGED childVars
      /\ inv' = [inv EXCEPT !.pc = "term", !.then = "measure"] /\ inv.exit # 0
  BY DEF ReportInv, ReportTypes, Progress, TimedOut
<1>1. inv' \in Invocations /\ inv'.pc = "term" /\ Unmoved /\ inv'.then = "measure" /\ inv'.exit = inv.exit
  BY <1>0 DEF Invocations, ReportPcs, Unmoved
<1>2. ChildTypes' /\ (\A p \in Parts \ {1} : alive'[p] = {})
  BY <1>0, SameGroup
<1>3. QED
  BY <1>0, <1>1, <1>2, ReportGoesOn DEF Measuring

LEMMA TermBenchmarkStep == ASSUME ReportInv, TermBenchmark PROVE ReportInv'
<1>0. inv \in Invocations /\ inv.pc = "term" /\ TermGroup(1) /\ Goto("kill") /\ UNCHANGED <<disk, world, sysTree>>
      /\ inv.then # "sort" /\ inv.exit # 0
  BY DEF ReportInv, ReportTypes, Progress, TermBenchmark
<1>1. inv' \in Invocations /\ inv'.pc = "kill" /\ Unmoved /\ inv'.then = inv.then /\ inv'.exit = inv.exit
  BY <1>0, GotoFields DEF ReportPcs
<1>2. ChildTypes' /\ (\A p \in Parts \ {1} : alive'[p] = {})
  BY <1>0, Signalled DEF ReportInv, ReportTypes, TreeAndGroup
<1>3. QED
  BY <1>0, <1>1, <1>2, ReportGoesOn DEF Measuring

(* A cell has at most one row, the last one measured.                      *)
LEMMA FiledRows ==
    ASSUME NEW log \in Seq(SummaryRows), NEW row \in SummaryRows
    PROVE  /\ Filed(log, row) \in Seq(SummaryRows)
           /\ \A k \in DOMAIN Filed(log, row) :
                 Filed(log, row)[k] = row \/ (k \in DOMAIN log /\ Filed(log, row)[k] = log[k])
           /\ row \in RowsOf(Filed(log, row), row.cell)
           /\ \A c : c # row.cell => RowsOf(log, c) \subseteq RowsOf(Filed(log, row), c)
<1> DEFINE new == Filed(log, row)
<1>0. Len(log) \in Nat /\ DOMAIN log = 1 .. Len(log) /\ \A k \in DOMAIN log : log[k] \in SummaryRows
  OBVIOUS
<1>1. CASE RowsOf(log, row.cell) = {}
  <2>1. new = Append(log, row)
    BY <1>1 DEF Filed
  <2>2. /\ new \in Seq(SummaryRows) /\ DOMAIN new = 1 .. Len(log) + 1 /\ new[Len(log) + 1] = row
        /\ \A k \in DOMAIN log : new[k] = log[k]
    BY <1>0, <2>1, AppendProperties
  <2> HIDE DEF new
  <2>3. \A k \in DOMAIN new : new[k] = row \/ (k \in DOMAIN log /\ new[k] = log[k])
    BY <1>0, <2>2
  <2>4. Len(log) + 1 \in DOMAIN new /\ DOMAIN log \subseteq DOMAIN new
    BY <1>0, <2>2
  <2>5. row \in RowsOf(new, row.cell)
    BY <2>2, <2>4 DEF RowsOf
  <2>6. \A c : RowsOf(log, c) \subseteq RowsOf(new, c)
    BY <2>2, <2>4 DEF RowsOf
  <2>7. QED
    BY <2>2, <2>3, <2>5, <2>6 DEF new
<1>2. CASE RowsOf(log, row.cell) # {}
  <2>1. new = [k \in DOMAIN log |-> IF log[k].cell = row.cell THEN row ELSE log[k]]
    BY <1>2 DEF Filed
  <2>2. DOMAIN new = DOMAIN log /\ \A k \in DOMAIN log : new[k] = IF log[k].cell = row.cell THEN row ELSE log[k]
    BY <2>1
  <2>3. new \in Seq(SummaryRows)
    <3>1. new = [k \in 1 .. Len(log) |-> IF log[k].cell = row.cell THEN row ELSE log[k]]
      BY <1>0, <2>1
    <3>2. \A k \in 1 .. Len(log) : (IF log[k].cell = row.cell THEN row ELSE log[k]) \in SummaryRows
      BY <1>0
    <3> HIDE DEF new
    <3>3. QED
      BY <1>0, <3>1, <3>2
  <2> HIDE DEF new
  <2>4. PICK k \in DOMAIN log : log[k].cell = row.cell
    BY <1>2 DEF RowsOf
  <2>5. row \in RowsOf(new, row.cell)
    BY <2>2, <2>4 DEF RowsOf
  <2>6. \A c : c # row.cell => RowsOf(log, c) \subseteq RowsOf(new, c)
    BY <2>2 DEF RowsOf
  <2>7. QED
    BY <2>2, <2>3, <2>5, <2>6 DEF new
<1>3. QED
  BY <1>1, <1>2

LEMMA ParsedMetric ==
    ASSUME NEW c \in CellNames, NEW out \in Printed[c]
    PROVE  /\ Parse(Parser[c], out) \in Metrics \cup {"none", "error"}
           /\ c \in MultiThreaded /\ Sample(Parse(Parser[c], out)) => Parse(Parser[c], out) = "spawn_and_drain"
<1>1. ParseFiber(out) \in Metrics \cup {"error"}
  BY DEF ParseFiber, Metrics
<1>2. Parser[c] \in {"dub_fiber", "tail", "actor_churn", "throughput", "dual", "actor_ready", "scaling"}
  BY ReportAssumption
<1>3. Parse(Parser[c], out) \in Metrics \cup {"none", "error"}
  BY <1>1, <1>2 DEF Parse, ParseTail, ParseChurn, ParseRow, Metrics
<1>4. ASSUME c \in MultiThreaded, Sample(Parse(Parser[c], out)) PROVE Parse(Parser[c], out) = "spawn_and_drain"
  <2>1. Parser[c] = "dub_fiber" /\ <<FALSE, "workers">> \in out
    BY <1>4, ReportAssumption
  <2>2. Parse(Parser[c], out) = ParseFiber(out)
    BY <2>1 DEF Parse
  <2>3. ParseFiber(out) \in {"error", "spawn_and_drain"}
    BY <2>1 DEF ParseFiber
  <2>4. QED
    BY <1>4, <2>2, <2>3 DEF Sample
<1>5. QED
  BY <1>3, <1>4

(* The end of a sample: the next one, or the row of the cell.              *)
LEMMA MeasuredStep ==
    ASSUME ReportInv, inv.pc \in {"wait", "kill"}, NEW metric \in Metrics \cup {"none", "error"},
           ReportCells[inv.i] \in MultiThreaded /\ Sample(metric) => metric = "spawn_and_drain",
           inv' = [Measured(metric) EXCEPT !.then = "none"]
           \/ (inv' = Measured(metric) /\ inv.pc = "wait"),
           UNCHANGED <<disk, world, sysTree>>, ChildTypes', \A p \in Parts : alive'[p] = {}
    PROVE  ReportInv'
<1> DEFINE c == ReportCells[inv.i]
           want == Requested(inv.args, c)
           values == IF Sample(metric) THEN Append(inv.values, metric) ELSE inv.values
           ok == Len(values) >= want
           row == [cell |-> c, values |-> values, ok |-> ok, src |-> inv.src, bin |-> inv.checked,
                   ran |-> inv.ran]
           new == Filed(inv.results, row)
           next == inv.done + 1
           bad == inv.failed \/ ~ row.ok
<1>0. inv \in Invocations /\ disk \in Disks /\ inv.then # "sort" /\ inv.exit # 0 /\ inv.i <= Len(ReportCells)
  BY DEF ReportInv, ReportTypes, Progress, Measuring
<1>1. inv.i \in 1 .. Len(ReportCells) /\ c \in CellNames /\ next \in Nat /\ inv.values \in Seq(Metrics)
      /\ inv.results \in Seq(SummaryRows)
  BY <1>0, ReportAssumption DEF Invocations, CellNames
<1>2. values \in Seq(Metrics)
  <2>1. CASE Sample(metric)
    <3>1. metric \in Metrics
      BY <2>1 DEF Sample
    <3>2. QED
      BY <1>1, <2>1, <3>1, AppendProperties
  <2>2. CASE ~ Sample(metric)
    BY <1>1, <2>2
  <2>3. QED
    BY <2>1, <2>2
<1>3. WholeBursts(c, values)
  <2>0. WholeBursts(c, inv.values)
    BY DEF ReportInv, Evidence, Measuring
  <2>1. CASE Sample(metric)
    <3>1. /\ values = Append(inv.values, metric) /\ DOMAIN values = 1 .. Len(inv.values) + 1
          /\ DOMAIN inv.values = 1 .. Len(inv.values) /\ Len(inv.values) \in Nat
          /\ \A k \in 1 .. Len(inv.values) : values[k] = inv.values[k]
          /\ values[Len(inv.values) + 1] = metric
      BY <1>1, <2>1, AppendProperties
    <3> HIDE DEF values
    <3>2. QED
      BY <2>0, <2>1, <3>1 DEF WholeBursts
  <2>2. CASE ~ Sample(metric)
    BY <2>0, <2>2
  <2>3. QED
    BY <2>1, <2>2
<1>4. ok \in BOOLEAN /\ (ok => Len(values) >= want)
  OBVIOUS
<1>5. bad \in BOOLEAN
  OBVIOUS
<1>6. inv.man \in Manifests /\ inv.man.src = inv.src /\ inv.checked = inv.man.bins[c] /\ disk.manifest = inv.man
      /\ OfManifest(inv.results, inv.man) /\ BurstRows(inv.results) /\ FiledBefore(inv.i)
      /\ RanSnapshot(c, inv.ran, inv.man)
  BY DEF ReportInv, Evidence, Progress, Described, Loaded, Measuring
<1>7. \/ Measured(metric) = [inv EXCEPT !.pc = "run", !.done = next, !.values = values]
      \/ Measured(metric) = [inv EXCEPT !.pc = "flush", !.results = new, !.failed = bad]
  BY DEF Measured
<1>8. inv.src \in Nat /\ inv.checked \in Versioned /\ inv.ran \in SUBSET Versioned
  BY <1>0 DEF Invocations
<1> HIDE DEF values, ok
<1>9. row \in SummaryRows /\ row.cell = c /\ row.src = inv.src /\ row.bin = inv.checked /\ row.values = values
      /\ row.ok = ok /\ row.ran = inv.ran
  BY <1>1, <1>2, <1>4, <1>8 DEF SummaryRows
<1> HIDE DEF row, next, bad
<1>10. /\ new \in Seq(SummaryRows)
       /\ \A k \in DOMAIN new : new[k] = row \/ (k \in DOMAIN inv.results /\ new[k] = inv.results[k])
       /\ row \in RowsOf(new, c)
       /\ \A d : d # c => RowsOf(inv.results, d) \subseteq RowsOf(new, d)
  BY <1>1, <1>9, FiledRows
<1>11. OfManifest(new, inv.man) /\ BurstRows(new)
  <2> HIDE DEF new
  <2>1. OfManifest(new, inv.man)
    BY <1>6, <1>9, <1>10 DEF OfManifest
  <2>2. WholeBursts(row.cell, row.values)
    BY <1>3, <1>9
  <2>3. BurstRows(new)
    BY <1>6, <1>10, <2>2 DEF BurstRows
  <2>4. QED
    BY <2>1, <2>3
<1> HIDE DEF new
<1>12. CASE Measured(metric) = [inv EXCEPT !.pc = "run", !.done = next, !.values = values]
  <2>1. Measured(metric) \in Invocations
    BY <1>0, <1>1, <1>2, <1>12 DEF Invocations, ReportPcs
  <2>2. /\ Measured(metric).pc = "run" /\ Measured(metric).args = inv.args /\ Measured(metric).src = inv.src
        /\ Measured(metric).man = inv.man /\ Measured(metric).i = inv.i /\ Measured(metric).values = values
        /\ Measured(metric).checked = inv.checked /\ Measured(metric).results = inv.results
        /\ Measured(metric).ran = inv.ran
        /\ Measured(metric).exit = inv.exit /\ Measured(metric).then = inv.then
        /\ Measured(metric).made = inv.made /\ Measured(metric).left = inv.left
    BY <1>0, <1>12 DEF Invocations
  <2>3. /\ inv' \in Invocations /\ inv'.pc = "run" /\ inv'.args = inv.args /\ inv'.src = inv.src
        /\ inv'.man = inv.man /\ inv'.i = inv.i /\ inv'.values = values /\ inv'.checked = inv.checked
        /\ inv'.results = inv.results /\ inv'.exit = inv.exit /\ inv'.then # "sort"
        /\ inv'.ran = inv.ran /\ inv'.made = inv.made /\ inv'.left = inv.left
    <3>1. PICK m \in Invocations : m = Measured(metric)
      BY <2>1
    <3>2. inv' = m \/ inv' = [m EXCEPT !.then = "none"]
      BY <3>1
    <3>3. QED
      BY <1>0, <2>2, <3>1, <3>2 DEF Invocations
  <2>a. TreeHeld'
    BY <2>3, TreeStays DEF Measuring
  <2>4. ReportTypes' /\ TreeAndGroup'
    BY <2>3, <2>a, PartsAssumption DEF ReportInv, ReportTypes, TreeAndGroup, Measuring
  <2>5. RowsBound'
    BY SameRows DEF ReportInv, Evidence
  <2>6. Evidence'
    BY <1>3, <1>6, <2>3, <2>5 DEF ReportInv, Evidence, Described, Loaded, Measuring, OfManifest
  <2>7. Progress'
    BY <1>0, <1>6, <2>3 DEF Progress, Measuring, ReportComplete, FiledBefore
  <2>8. QED
    BY <2>4, <2>6, <2>7 DEF ReportInv
<1>13. CASE Measured(metric) = [inv EXCEPT !.pc = "flush", !.results = new, !.failed = bad]
  <2>1. Measured(metric) \in Invocations
    BY <1>0, <1>5, <1>10, <1>13 DEF Invocations, ReportPcs, bad
  <2>2. /\ Measured(metric).pc = "flush" /\ Measured(metric).args = inv.args /\ Measured(metric).src = inv.src
        /\ Measured(metric).man = inv.man /\ Measured(metric).i = inv.i
        /\ Measured(metric).results = new
        /\ Measured(metric).exit = inv.exit /\ Measured(metric).then = inv.then
        /\ Measured(metric).made = inv.made /\ Measured(metric).left = inv.left
    BY <1>0, <1>13 DEF Invocations
  <2>3. /\ inv' \in Invocations /\ inv'.pc = "flush" /\ inv'.args = inv.args /\ inv'.src = inv.src
        /\ inv'.man = inv.man /\ inv'.i = inv.i
        /\ inv'.results = new /\ inv'.exit = inv.exit /\ inv'.then # "sort"
        /\ inv'.made = inv.made /\ inv'.left = inv.left
    <3>1. PICK m \in Invocations : m = Measured(metric)
      BY <2>1
    <3>2. inv' = m \/ inv' = [m EXCEPT !.then = "none"]
      BY <3>1
    <3>3. m.pc = "flush" /\ m.args = inv.args /\ m.src = inv.src /\ m.man = inv.man /\ m.i = inv.i
          /\ m.results = new /\ m.exit = inv.exit /\ m.then = inv.then /\ m.made = inv.made /\ m.left = inv.left
      BY <2>2, <3>1
    <3>4. CASE inv' = m
      BY <1>0, <3>3, <3>4
    <3>5. CASE inv' = [m EXCEPT !.then = "none"]
      BY <3>1, <3>3, <3>5 DEF Invocations
    <3>6. QED
      BY <3>2, <3>4, <3>5
  <2>a. TreeHeld'
    BY <2>3, TreeStays DEF Measuring
  <2>4. ReportTypes' /\ TreeAndGroup'
    BY <2>3, <2>a, PartsAssumption DEF ReportInv, ReportTypes, TreeAndGroup, Measuring
  <2>5. RowsBound'
    BY SameRows DEF ReportInv, Evidence
  <2>6. Evidence'
    BY <1>6, <1>11, <2>3, <2>5 DEF ReportInv, Evidence, Described, Loaded, Measuring
  <2>7. ASSUME NEW j \in 1 .. inv.i
        PROVE  \E r \in RowsOf(new, ReportCells[j]) : r.ok => Len(r.values) >= Requested(inv.args, ReportCells[j])
    <3>1. CASE ReportCells[j] = c
      <4>1. row.ok => Len(row.values) >= want
        BY <1>4, <1>9
      <4>2. QED
        BY <1>10, <3>1, <4>1
    <3>2. CASE ReportCells[j] # c
      <4>1. j \in 1 .. inv.i - 1
        BY <1>1, <3>2
      <4>2. QED
        BY <1>6, <1>10, <3>2, <4>1 DEF FiledBefore
    <3>3. QED
      BY <3>1, <3>2
  <2>8. (inv.i + 1) - 1 = inv.i
    BY <1>1
  <2>9. Progress'
    BY <1>0, <2>3, <2>7, <2>8 DEF Progress, Measuring, ReportComplete, FiledBefore
  <2>10. QED
    BY <2>4, <2>6, <2>9 DEF ReportInv
<1>14. QED
  BY <1>7, <1>12, <1>13

LEMMA FinishedStep == ASSUME ReportInv, Finished PROVE ReportInv'
<1>0. inv \in Invocations /\ inv.pc = "wait" /\ Drained(1) /\ UNCHANGED <<disk, world, sysTree>> /\ UNCHANGED childVars
  BY DEF ReportInv, ReportTypes, Finished
<1>1. ReportCells[inv.i] \in CellNames
  BY <1>0, ReportAssumption DEF Invocations, CellNames, ReportInv, Progress, Measuring
<1>2. ChildTypes' /\ \A p \in Parts : alive'[p] = {}
  BY <1>0 DEF Drained, childVars, ReportInv, ReportTypes, TreeAndGroup, ChildTypes
<1>3. CASE inv' = Measured("none")
  <2>1. "none" \in Metrics \cup {"none", "error"} /\ ~ Sample("none")
    BY DEF Sample
  <2>2. QED
    BY <1>0, <1>2, <1>3, <2>1, MeasuredStep
<1>4. ASSUME NEW out \in Printed[ReportCells[inv.i]], inv' = Measured(Parse(Parser[ReportCells[inv.i]], out))
      PROVE  ReportInv'
  <2>1. PICK metric \in Metrics \cup {"none", "error"} :
            metric = Parse(Parser[ReportCells[inv.i]], out)
    BY <1>1, ParsedMetric
  <2>2. ReportCells[inv.i] \in MultiThreaded /\ Sample(metric) => metric = "spawn_and_drain"
    BY <1>1, <2>1, ParsedMetric
  <2>3. inv' = Measured(metric)
    BY <1>4, <2>1
  <2>4. QED
    BY <1>0, <1>2, <2>2, <2>3, MeasuredStep
<1>5. QED
  BY <1>3, <1>4 DEF Finished

LEMMA KillBenchmarkStep == ASSUME ReportInv, KillBenchmark PROVE ReportInv'
<1>0. inv \in Invocations /\ inv.pc = "kill" /\ KillGroup(1) /\ UNCHANGED <<disk, world, sysTree>>
      /\ inv.then # "sort" /\ inv.exit # 0
  BY DEF ReportInv, ReportTypes, Progress, KillBenchmark
<1>1. ChildTypes' /\ \A p \in Parts : alive'[p] = {}
  BY <1>0, Signalled DEF ReportInv, ReportTypes, TreeAndGroup
<1>2. CASE inv' = [Measured("none") EXCEPT !.then = "none"]
  <2>1. "none" \in Metrics \cup {"none", "error"} /\ ~ Sample("none")
    BY DEF Sample
  <2>2. QED
    BY <1>0, <1>1, <1>2, <2>1, MeasuredStep
<1>3. CASE inv' = [inv EXCEPT !.pc = "cleanup"]
  <2>1. inv' \in Invocations /\ inv'.pc = "cleanup" /\ Unmoved /\ inv'.then = inv.then /\ inv'.exit = inv.exit
    BY <1>0, <1>3 DEF Invocations, ReportPcs, Unmoved
  <2>2. QED
    BY <1>0, <1>1, <2>1, PartsAssumption, ReportUnwinds DEF Measuring
<1>4. QED
  BY <1>2, <1>3 DEF KillBenchmark

LEMMA OpenSummaryStep == ASSUME ReportInv, OpenSummary PROVE ReportInv'
<1>0. inv \in Invocations /\ disk \in Disks /\ inv.pc \in {"flush", "final"} /\ UNCHANGED <<world, sysTree>>
      /\ UNCHANGED childVars /\ disk' = [disk EXCEPT !.summary = Torn]
  BY DEF ReportInv, ReportTypes, OpenSummary
<1>1. disk' \in Disks /\ disk'.manifest = disk.manifest /\ disk'.summary = Torn
  BY <1>0 DEF Disks
<1>2. PICK to \in {"flushing", "closing"} : Goto(to) /\ to = IF inv.pc = "flush" THEN "flushing" ELSE "closing"
  BY <1>0 DEF OpenSummary
<1>3. inv' \in Invocations /\ inv'.pc = to /\ Unmoved /\ inv'.then = inv.then /\ inv'.exit = inv.exit
  BY <1>0, <1>2, GotoFields DEF ReportPcs
<1>4. ReportTypes' /\ TreeAndGroup'
  <2>1. TreeHeld'
    <3>1. CASE inv.pc = "flush"
      BY <1>0, <1>2, <1>3, <3>1, TreeStays DEF Unmoved
    <3>2. CASE inv.pc = "final"
      BY <1>0, <1>3, <3>2, NoTree DEF Measuring, Unmoved, TreeHeld
    <3>3. QED
      BY <1>0, <3>1, <3>2
  <2>2. QED
    BY <1>0, <1>1, <1>2, <1>3, <2>1, QuietMoves DEF Measuring
<1>5. RowsBound' /\ Torn \notin Seq(SummaryRows)
  BY <1>1, ReportAssumption DEF RowsBound, Readable
<1>6. Evidence'
  BY <1>0, <1>1, <1>2, <1>3, <1>5 DEF ReportInv, Evidence, Described, Loaded, Measuring, OfManifest, Unmoved
<1>7. Progress'
  BY <1>0, <1>2, <1>3 DEF ReportInv, Progress, Measuring, ReportComplete, Unmoved, FiledBefore
<1>8. QED
  BY <1>4, <1>6, <1>7 DEF ReportInv

(* A summary written whole, of rows that belong to the manifest.           *)
LEMMA WrittenRows ==
    ASSUME ReportInv, inv.pc \in {"flushing", "closing"}, disk' = [disk EXCEPT !.summary = inv.results]
    PROVE  /\ disk' \in Disks /\ disk'.manifest = disk.manifest /\ disk'.summary = inv.results
           /\ inv.results \in Seq(SummaryRows) /\ RowsBound' /\ BurstRows(disk'.summary)
<1>1. inv.results \in Seq(SummaryRows) /\ disk \in Disks
  BY DEF ReportInv, ReportTypes, Invocations
<1>2. disk' \in Disks /\ disk'.manifest = disk.manifest /\ disk'.summary = inv.results
  BY <1>1 DEF Disks
<1>3. inv.man \in Manifests /\ disk.manifest = inv.man /\ OfManifest(inv.results, inv.man) /\ BurstRows(inv.results)
  BY DEF ReportInv, Evidence, Described, Loaded
<1>4. Readable(disk'.manifest)
  BY <1>2, <1>3, ReportAssumption DEF Readable
<1>5. RowsBound'
  BY <1>2, <1>3, <1>4 DEF RowsBound, OfManifest, RanSnapshot
<1>6. QED
  BY <1>1, <1>2, <1>3, <1>5

LEMMA FlushSummaryStep == ASSUME ReportInv, FlushSummary PROVE ReportInv'
<1> DEFINE next == inv.i + 1
<1>0. inv \in Invocations /\ disk \in Disks /\ inv.pc = "flushing" /\ UNCHANGED <<world, sysTree>>
      /\ UNCHANGED childVars /\ disk' = [disk EXCEPT !.summary = inv.results]
      /\ inv' = [inv EXCEPT !.pc = "cell", !.i = next]
  BY DEF ReportInv, ReportTypes, FlushSummary
<1>1. /\ disk' \in Disks /\ disk'.manifest = disk.manifest /\ disk'.summary = inv.results
      /\ inv.results \in Seq(SummaryRows) /\ RowsBound' /\ BurstRows(disk'.summary)
  BY <1>0, WrittenRows
<1>2. inv.i <= Len(ReportCells) /\ inv.then # "sort" /\ inv.exit # 0 /\ FiledBefore(inv.i + 1)
  BY <1>0 DEF ReportInv, Progress
<1>3. next \in Nat \ {0} /\ next <= Len(ReportCells) + 1 /\ next = inv.i + 1
  BY <1>0, <1>2, ReportAssumption DEF Invocations
<1> HIDE DEF next
<1>4. inv' \in Invocations /\ inv'.pc = "cell" /\ inv'.i = next /\ inv'.then = inv.then /\ inv'.exit = inv.exit
      /\ inv'.results = inv.results /\ inv'.args = inv.args /\ inv'.man = inv.man /\ inv'.src = inv.src
      /\ inv'.made = inv.made /\ inv'.left = inv.left
  BY <1>0, <1>3 DEF Invocations, ReportPcs
<1>a. TreeHeld'
  BY <1>0, <1>4, TreeStays
<1>5. ReportTypes' /\ TreeAndGroup'
  BY <1>0, <1>1, <1>4, <1>a, QuietMoves DEF Measuring
<1>6. Evidence'
  BY <1>0, <1>1, <1>4 DEF ReportInv, Evidence, Described, Loaded, Measuring, OfManifest
<1>7. FiledBefore(inv.i)'
  BY <1>2, <1>3, <1>4 DEF FiledBefore
<1>8. Progress'
  BY <1>2, <1>3, <1>4, <1>7 DEF Progress, Measuring, ReportComplete
<1>9. QED
  BY <1>5, <1>6, <1>8 DEF ReportInv

LEMMA CloseSummaryStep == ASSUME ReportInv, CloseSummary PROVE ReportInv'
<1> DEFINE code == IF inv.failed \/ \E i \in DOMAIN inv.results : ~ inv.results[i].ok THEN 1 ELSE 0
<1>0. inv \in Invocations /\ disk \in Disks /\ inv.pc = "closing" /\ UNCHANGED <<world, sysTree>>
      /\ UNCHANGED childVars /\ disk' = [disk EXCEPT !.summary = inv.results] /\ inv' = Ended(code)
  BY DEF ReportInv, ReportTypes, CloseSummary, End
<1>1. /\ disk' \in Disks /\ disk'.manifest = disk.manifest /\ disk'.summary = inv.results
      /\ inv.results \in Seq(SummaryRows) /\ RowsBound' /\ BurstRows(disk'.summary)
  BY <1>0, WrittenRows
<1>2. code \in Int /\ (code = 0 => \A i \in DOMAIN inv.results : inv.results[i].ok)
  OBVIOUS
<1> HIDE DEF code
<1>3. inv' \in Invocations /\ inv'.pc = "off" /\ Unmoved /\ inv'.exit = code
  BY <1>0, <1>2, EndedFields
<1>4. TreeHeld'
  BY <1>0, <1>3, NoTree DEF Measuring, Unmoved, TreeHeld
<1>5. ReportTypes' /\ TreeAndGroup'
  BY <1>0, <1>1, <1>3, <1>4, QuietMoves DEF Measuring
<1>6. Evidence'
  BY <1>1, <1>3 DEF Evidence, Described, Loaded, Measuring
<1>7. ReportComplete'
  <2>1. SUFFICES ASSUME code = 0 PROVE ReportComplete'
    BY <1>3 DEF ReportComplete
  <2>2. Readable(disk'.summary)
    BY <1>1, ReportAssumption DEF Readable
  <2>3. FiledBefore(Len(ReportCells) + 1) /\ BurstRows(inv.results)
    BY <1>0 DEF ReportInv, Progress, Evidence, Loaded
  <2>4. ASSUME NEW c \in CellNames
        PROVE  \E row \in RowsOf(inv.results, c) :
                  /\ Len(row.values) >= Requested(inv.args, c)
                  /\ \A i \in DOMAIN row.values : c \in MultiThreaded => row.values[i] = "spawn_and_drain"
    <3>1. PICK j \in 1 .. Len(ReportCells) : ReportCells[j] = c
      BY ReportAssumption DEF CellNames
    <3>2. j \in 1 .. (Len(ReportCells) + 1) - 1
      BY <3>1, ReportAssumption
    <3>3. PICK row \in RowsOf(inv.results, c) : row.ok => Len(row.values) >= Requested(inv.args, c)
      BY <2>3, <3>1, <3>2 DEF FiledBefore
    <3>4. PICK k \in DOMAIN inv.results : inv.results[k].cell = c /\ row = inv.results[k]
      BY <3>3 DEF RowsOf
    <3>5. row.ok /\ WholeBursts(c, row.values)
      BY <1>2, <2>1, <2>3, <3>4 DEF BurstRows
    <3>6. QED
      BY <3>3, <3>5 DEF WholeBursts
  <2>5. QED
    BY <1>1, <1>3, <2>2, <2>4 DEF ReportComplete, Unmoved
<1>8. Progress'
  BY <1>3, <1>7 DEF Progress, Measuring
<1>9. QED
  BY <1>5, <1>6, <1>8 DEF ReportInv

(* A signal: the interpreter ends, or the handler raises.                  *)
LEMMA RaisedFields ==
    ASSUME inv \in Invocations, NEW to \in ReportPcs, Raise(to)
    PROVE  inv' \in Invocations /\ inv'.pc = to /\ Unmoved /\ inv'.then = "raise" /\ inv'.exit # 0
<1> DEFINE killed == Killed
<1>1. killed \in Int /\ killed # 0 /\ inv' = [inv EXCEPT !.pc = to, !.then = "raise", !.exit = killed]
  BY Codes DEF Raise
<1> HIDE DEF killed
<1>2. QED
  BY <1>1 DEF Invocations, Unmoved

LEMMA InterruptStep == ASSUME ReportInv, Interrupt PROVE ReportInv'
<1> DEFINE killed == Killed
<1>0. inv \in Invocations /\ UNCHANGED <<disk, world>> /\ UNCHANGED childVars /\ killed \in Int /\ killed # 0
      /\ sysTree \in {"absent", "host"} \cup MadeUp
  BY Codes DEF ReportInv, ReportTypes, Interrupt, InterruptBare, InterruptBenchmark, InterruptBetween,
     InterruptPlanting, InterruptRemoval
<1>1. ChildTypes' /\ (\A p \in Parts \ {1} : alive'[p] = {})
      /\ (inv.pc \notin Measuring \ {"run"} /\ known'[1] => alive'[1] = {})
      /\ (inv.pc = "started" => ~ known'[1])
  BY <1>0, SameGroup DEF ReportInv, TreeAndGroup, childVars
<1>2. CASE InterruptBare
  <2>1. inv' = Ended(killed) /\ UNCHANGED sysTree /\ inv.pc \in Unhandled
    BY <1>2 DEF InterruptBare, End
  <2> HIDE DEF killed
  <2>2. inv' \in Invocations /\ inv'.pc = "off" /\ inv'.exit # 0 /\ inv'.left = inv.left
    BY <1>0, <2>1, EndedFields DEF Unmoved
  <2>3. sysTree \in MadeUp => inv.left
    BY <2>1, NoTree DEF Unhandled, Measuring
  <2>4. QED
    BY <1>0, <1>1, <2>1, <2>2, <2>3, ReportEnds DEF Unhandled, Measuring
<1>3. CASE InterruptBenchmark
  <2>1. Raise("term") /\ inv.pc \in {"wait", "term", "kill"} /\ UNCHANGED sysTree
    BY <1>3 DEF InterruptBenchmark
  <2>2. inv' \in Invocations /\ inv'.pc = "term" /\ Unmoved /\ inv'.then = "raise" /\ inv'.exit # 0
    BY <1>0, <2>1, RaisedFields DEF ReportPcs
  <2>3. QED
    BY <1>0, <1>1, <2>1, <2>2, ReportGoesOn DEF Measuring
<1>4. CASE InterruptBetween
  <2>1. Raise("cleanup") /\ inv.pc \in {"install", "cell", "run", "started", "flush", "flushing"} /\ UNCHANGED sysTree
    BY <1>4 DEF InterruptBetween
  <2>2. inv' \in Invocations /\ inv'.pc = "cleanup" /\ Unmoved /\ inv'.then = "raise" /\ inv'.exit # 0
    BY <1>0, <2>1, RaisedFields DEF ReportPcs
  <2>3. known'[1] => alive'[1] = {}
    BY <1>1, <2>1 DEF Measuring
  <2>4. QED
    BY <1>0, <1>1, <2>1, <2>2, <2>3, ReportUnwinds DEF Measuring
<1>5. CASE inv.pc = "plant" /\ Raise("unplant") /\ UNCHANGED sysTree
  <2>1. inv' \in Invocations /\ inv'.pc = "unplant" /\ Unmoved /\ inv'.then = "raise" /\ inv'.exit # 0
    BY <1>0, <1>5, RaisedFields DEF ReportPcs
  <2>2. QED
    BY <1>0, <1>5, <2>1, PlantSteps DEF Unmoved
<1>6. CASE /\ inv.pc = "planted" /\ UNCHANGED sysTree
           /\ inv' = [inv EXCEPT !.pc = "cleanup", !.then = "raise", !.exit = killed, !.left = TRUE]
  <2> DEFINE gone == TRUE
  <2>0. gone \in BOOLEAN /\ gone
    OBVIOUS
  <2>1. inv' = [inv EXCEPT !.pc = "cleanup", !.then = "raise", !.exit = killed, !.left = gone]
    BY <1>6
  <2> HIDE DEF killed, gone
  <2>2. inv' \in Invocations /\ inv'.pc = "cleanup" /\ inv'.then = "raise" /\ inv'.exit # 0 /\ inv'.left = gone
        /\ inv'.man = inv.man /\ inv'.src = inv.src /\ inv'.results = inv.results /\ inv'.i = inv.i
    BY <1>0, <2>0, <2>1 DEF Invocations, ReportPcs
  <2>3. QED
    BY <1>0, <1>6, <2>0, <2>2, PlantSteps
<1>7. CASE InterruptRemoval
  <2> DEFINE gone == inv.left \/ Removing
  <2>1. inv' = [Ended(killed) EXCEPT !.left = gone] /\ gone \in BOOLEAN /\ inv.pc \in {"unplant", "cleanup"}
        /\ sysTree' \in {sysTree} \cup (IF Removing THEN {"partial"} ELSE {})
    <3>1. inv.left \in BOOLEAN /\ Ended(killed).left = inv.left
      BY <1>0 DEF Invocations, Ended
    <3>2. QED
      BY <1>7, <3>1 DEF InterruptRemoval, Removing, Ended, Invocations
  <2>2. sysTree' \in {"absent", "host"} \cup MadeUp /\ (sysTree' \in MadeUp => gone)
    BY <1>0, <2>1 DEF ReportInv, TreeAndGroup, TreeHeld, Removing, MadeUp, Measuring
  <2> HIDE DEF killed, gone
  <2>3. inv' \in Invocations /\ inv'.pc = "off" /\ inv'.exit # 0 /\ inv'.left = gone
    BY <1>0, <2>1, EndedLeft
  <2>4. QED
    BY <1>0, <1>1, <2>1, <2>2, <2>3, ReportEnds DEF Measuring
<1>8. QED
  BY <1>2, <1>3, <1>4, <1>5, <1>6, <1>7 DEF Interrupt, InterruptPlanting

LEMMA ReportStep == ASSUME ReportInv, ReportNext \/ UNCHANGED <<reportVars, childVars>> PROVE ReportInv'
<1>1. CASE UNCHANGED <<reportVars, childVars>>
  <2>1. UNCHANGED <<inv, disk, world, sysTree>> /\ UNCHANGED childVars
    BY <1>1 DEF reportVars
  <2>2. ReportTypes' /\ TreeAndGroup'
    BY <2>1 DEF ReportInv, ReportTypes, TreeAndGroup, TreeHeld, ChildTypes, childVars
  <2>3. RowsBound'
    BY <2>1, SameRows DEF ReportInv, Evidence
  <2>4. Evidence' /\ Progress'
    BY <2>1, <2>3 DEF ReportInv, Evidence, Progress, ReportComplete, FiledBefore
  <2>5. QED
    BY <2>2, <2>4 DEF ReportInv
<1>2. CASE ReportNext
  BY <1>2, LaunchStep, PrepareStep, BuildSnapshotsStep, HashBinariesStep, CreateManifestStep, FillManifestStep,
     WriteMetadataStep, LoadSummaryStep, InstallTreeStep, WritePlanStep, UnplantTreeStep, NoteTreeStep, CleanUpStep, NextCellStep, CellsDoneStep,
     StartBenchmarkStep, NoteBenchmarkStep, FinishedStep, TimedOutStep, TermBenchmarkStep, KillBenchmarkStep,
     OpenSummaryStep, FlushSummaryStep, CloseSummaryStep, InterruptStep, CrashStep, WorldSteps, BenchmarkMovesStep
     DEF ReportNext
<1>3. QED
  BY <1>1, <1>2

LEMMA ReportStart == ReportInit /\ NoChildren => ReportInv
<1>1. SUFFICES ASSUME ReportInit, NoChildren PROVE ReportInv
  OBVIOUS
<1>2. Idle \in Invocations /\ Idle.pc = "off" /\ Idle.exit = Running
  BY IdleTyped DEF Idle
<1>3. inv = Idle /\ inv \in Invocations /\ inv.pc = "off" /\ inv.exit # 0
  BY <1>1, <1>2, Codes DEF ReportInit
<1>4. disk \in Disks /\ disk.manifest = NoFile /\ (disk.summary = NoFile \/ disk.summary = <<>>)
  <2> DEFINE yes == TRUE
  <2>0. yes \in BOOLEAN /\ <<>> \in Seq(SummaryRows)
    OBVIOUS
  <2>1. Empty \in Disks /\ Empty.manifest = NoFile /\ Empty.summary = NoFile
    BY DEF Empty, Disks, Versioned
  <2>2. CASE disk = Empty
    BY <2>1, <2>2
  <2>3. CASE disk = [Empty EXCEPT !.meta = yes, !.summary = <<>>, !.raw = yes]
    <3> HIDE DEF yes
    <3>1. QED
      BY <2>0, <2>1, <2>3 DEF Disks
  <2>4. QED
    BY <1>1, <2>2, <2>3 DEF ReportInit
<1>5. ReportTypes /\ TreeAndGroup
  <2>1. ChildTypes /\ \A p \in Parts : alive[p] = {}
    BY <1>1 DEF NoChildren, ChildTypes, Members
  <2>2. world \in [src : Nat, bin : Nat] /\ sysTree \in {"absent", "host"}
    BY <1>1 DEF ReportInit
  <2>3. QED
    BY <1>3, <1>4, <2>1, <2>2, PartsAssumption DEF ReportTypes, TreeAndGroup, TreeHeld, MadeUp, Measuring
<1>6. Evidence
  BY <1>3, <1>4, ReportAssumption DEF Evidence, RowsBound, BurstRows, Readable, Described, Loaded, Measuring
<1>7. Progress
  BY <1>3 DEF Progress, Measuring, ReportComplete
<1>8. QED
  BY <1>5, <1>6, <1>7 DEF ReportInv

LEMMA ReportIsClean == ReportInv => ReportClean
<1>1. SUFFICES ASSUME ReportInv PROVE ReportClean
  OBVIOUS
<1>2. inv.pc \notin Measuring \ {"run"} /\ known[1] => Quiet
  BY <1>1, PartsAssumption DEF ReportInv, TreeAndGroup, Quiet
<1>3. QED
  BY <1>1, <1>2 DEF ReportInv, TreeAndGroup, TreeHeld, ReportClean, Measuring

-----------------------------------------------------------------------------
(* The sweep.                                                              *)

LoggedCells == SweepCells \cup MirrorCells \cup PerfCells
LogRows == UNION {RowsFor(c) : c \in LoggedCells}

Driving == {"drive", "term", "kill"}

(* The fields the argument says nothing of may be anything.                *)
SweepStates ==
    [pc : {"off", "refused", "round", "summary", "done", "stopped", "merged"} \cup Driving, todo : {sw.todo},
     cell : {sw.cell}, round : Nat, settled : {sw.settled}, noisy : {sw.noisy}, exit : Int, summary : {sw.summary}, merged : {sw.merged}]

CellRows(log, c) == {i \in DOMAIN log : log[i].cell = c}

(* Nothing of a cell is logged after a skip.                               *)
EndsWithSkip(log, c) == \A i \in DOMAIN log, s \in RowsWith(log, c, "skipped") : log[i].cell = c => i <= s

(* How often a cell that no run has settled was run: once a round, and in  *)
(* the top-up rounds if it is noisy.                                       *)
RunsSoFar(c) ==
    LET now == IF c \in sw.todo THEN 0 ELSE 1
    IN  IF sw.round < SweepRuns THEN sw.round + now
        ELSE IF c \in sw.noisy THEN sw.round + now ELSE SweepRuns

AllRuns(c) == IF c \in sw.noisy THEN SweepRuns + TopupRuns ELSE SweepRuns

SweepInv ==
    /\ sw \in SweepStates /\ rows \in Seq(LogRows)
    /\ sw.pc \notin {"done", "merged"} => sw.exit # 0
    /\ sw.pc = "off" => sw.round = 0
    /\ sw.pc \in {"round", "summary", "done"} \cup Driving => \A c \in SweepCells :
          IF c \in sw.settled THEN RowsWith(rows, c, "skipped") # {} /\ EndsWithSkip(rows, c)
          ELSE /\ RowsWith(rows, c, "skipped") = {}
               /\ Cardinality(CellRows(rows, c)) = IF sw.pc \in {"round"} \cup Driving THEN RunsSoFar(c)
                                                    ELSE AllRuns(c)
    /\ sw.pc \in Driving => sw.cell \subseteq sw.todo \cap SweepCells
    /\ sw.pc \in {"round"} \cup Driving =>
          /\ sw.todo \cap sw.settled = {}
          /\ sw.round < SweepRuns + TopupRuns
          /\ sw.round >= SweepRuns => sw.todo \subseteq sw.noisy

LEMMA SweepIsComplete == SweepInv => SweepComplete
<1>1. SUFFICES ASSUME SweepInv, sw.pc = "done", NEW c \in SweepCells
      PROVE  LET n == Cardinality({i \in DOMAIN rows : rows[i].cell = c})
                 skips == RowsWith(rows, c, "skipped")
             IN  IF skips = {} THEN n = SweepRuns + (IF c \in sw.noisy THEN TopupRuns ELSE 0)
                 ELSE \A i \in DOMAIN rows, s \in skips : rows[i].cell = c => i <= s
  BY DEF SweepComplete
<1>2. CASE c \in sw.settled
  BY <1>1, <1>2 DEF SweepInv, EndsWithSkip
<1>3. CASE c \notin sw.settled
  BY <1>1, <1>3, SweepAssumption DEF SweepInv, CellRows, AllRuns, Driving
<1>4. QED
  BY <1>2, <1>3

LEMMA SweepStart == SweepInit => SweepInv
<1>1. SUFFICES ASSUME sw = SweepIdle, rows = <<>> PROVE SweepInv
  BY DEF SweepInit
<1>2. sw \in SweepStates /\ sw.pc = "off" /\ sw.round = 0 /\ sw.exit # 0
  BY <1>1, Codes DEF SweepStates, SweepIdle
<1>3. QED
  BY <1>1, <1>2 DEF SweepInv, Driving

LEMMA LoggedRow ==
    ASSUME NEW row \in LogRows
    PROVE  row.cell \in LoggedCells /\ row.status \in {"ok", "skipped", "invalid"}
<1>1. PICK c \in LoggedCells : row \in RowsFor(c)
  BY DEF LogRows
<1>2. QED
  BY <1>1 DEF RowsFor, Row, Without

(* What one more row changes.                                              *)
LEMMA OneMoreRow ==
    ASSUME NEW log \in Seq(LogRows), NEW row \in LogRows
    PROVE  LET new == Append(log, row) IN
           /\ new \in Seq(LogRows)
           /\ \A c : c # row.cell => /\ CellRows(new, c) = CellRows(log, c)
                                     /\ RowsWith(new, c, "skipped") = RowsWith(log, c, "skipped")
                                     /\ EndsWithSkip(log, c) => EndsWithSkip(new, c)
           /\ Cardinality(CellRows(log, row.cell)) \in Nat
           /\ Cardinality(CellRows(new, row.cell)) = Cardinality(CellRows(log, row.cell)) + 1
           /\ row.status # "skipped" => RowsWith(new, row.cell, "skipped") = RowsWith(log, row.cell, "skipped")
           /\ row.status = "skipped" /\ RowsWith(log, row.cell, "skipped") = {}
                 => RowsWith(new, row.cell, "skipped") # {} /\ EndsWithSkip(new, row.cell)
<1> DEFINE new == Append(log, row)
           n == Len(log)
           d == row.cell
<1>1. /\ new \in Seq(LogRows) /\ DOMAIN new = 1 .. n + 1 /\ DOMAIN log = 1 .. n /\ n \in Nat
      /\ new[n + 1] = row /\ \A i \in 1 .. n : new[i] = log[i]
  BY AppendProperties
<1> HIDE DEF n, new
<1>2. \A i : i \in DOMAIN new <=> i \in DOMAIN log \/ i = n + 1
  BY <1>1
<1>3. ASSUME NEW c, c # d
      PROVE  /\ CellRows(new, c) = CellRows(log, c)
             /\ RowsWith(new, c, "skipped") = RowsWith(log, c, "skipped")
             /\ EndsWithSkip(log, c) => EndsWithSkip(new, c)
  <2>1. CellRows(new, c) = CellRows(log, c)
    BY <1>1, <1>2, <1>3 DEF CellRows
  <2>2. RowsWith(new, c, "skipped") = RowsWith(log, c, "skipped")
    BY <1>1, <1>2, <1>3 DEF RowsWith
  <2>3. \A i \in DOMAIN new : new[i].cell = c => i \in DOMAIN log /\ log[i].cell = c
    BY <1>1, <1>2, <1>3
  <2>4. QED
    BY <2>1, <2>2, <2>3 DEF EndsWithSkip
<1>4. CellRows(new, d) = CellRows(log, d) \cup {n + 1} /\ n + 1 \notin CellRows(log, d)
  BY <1>1, <1>2 DEF CellRows
<1>5. IsFiniteSet(CellRows(log, d))
  <2>1. CellRows(log, d) \subseteq 1 .. n /\ IsFiniteSet(1 .. n)
    BY <1>1, FS_Interval DEF CellRows
  <2>2. QED
    BY <2>1, FS_Subset
<1>6. Cardinality(CellRows(log, d)) \in Nat
      /\ Cardinality(CellRows(new, d)) = Cardinality(CellRows(log, d)) + 1
  BY <1>4, <1>5, FS_AddElement, FS_CardinalityType
<1>7. row.status # "skipped" => RowsWith(new, d, "skipped") = RowsWith(log, d, "skipped")
  BY <1>1, <1>2 DEF RowsWith
<1>8. ASSUME row.status = "skipped", RowsWith(log, d, "skipped") = {}
      PROVE  RowsWith(new, d, "skipped") # {} /\ EndsWithSkip(new, d)
  <2>1. RowsWith(new, d, "skipped") = {n + 1}
    BY <1>1, <1>2, <1>8 DEF RowsWith
  <2>2. \A i \in DOMAIN new : i <= n + 1
    BY <1>1
  <2>3. QED
    BY <2>1, <2>2 DEF EndsWithSkip
<1>9. QED
  BY <1>1, <1>3, <1>6, <1>7, <1>8 DEF new

(* The rows of the cells settled before the first round.                   *)
LEMMA SettledLog ==
    ASSUME NEW S \in SUBSET (MirrorCells \cup PerfCells), NEW log,
           log = SetToSeq({Without(c, "skipped") : c \in S})
    PROVE  /\ log \in Seq(LogRows)
           /\ \A c \in S : RowsWith(log, c, "skipped") # {} /\ EndsWithSkip(log, c)
           /\ \A c : c \notin S => CellRows(log, c) = {} /\ RowsWith(log, c, "skipped") = {}
<1> DEFINE T == {Without(c, "skipped") : c \in S}
           f == [c \in S |-> Without(c, "skipped")]
           n == Cardinality(T)
<1>1. IsFiniteSet(S)
  <2>1. IsFiniteSet(MirrorCells \cup PerfCells)
    BY SweepAssumption, FS_Union
  <2>2. QED
    BY <2>1, FS_Subset
<1>2. IsFiniteSet(T)
  <2>1. f \in Surjection(S, T)
    BY DEF Surjection
  <2>2. QED
    BY <1>1, <2>1, FS_Surjection
<1>3. n \in Nat /\ ExistsBijection(1 .. n, T)
  BY <1>2, FS_CardinalityType
<1>4. log \in [1 .. n -> T] /\ IsInjective(log)
  <2>1. \E g \in [1 .. n -> T] : IsInjective(g)
    BY <1>3 DEF ExistsBijection, Bijection, Injection
  <2>2. log = CHOOSE g \in [1 .. n -> T] : IsInjective(g)
    BY DEF SetToSeq
  <2>3. QED
    BY <2>1, <2>2
<1>5. log \in Surjection(1 .. n, T)
  <2>1. log \in Injection(1 .. n, T)
    BY <1>4 DEF Injection
  <2>2. Cardinality(1 .. n) = n
    BY <1>3, FS_Interval
  <2>3. QED
    BY <1>2, <2>1, <2>2, FS_Injection
<1>6. \A c \in S : Without(c, "skipped") \in LogRows
  BY DEF LogRows, LoggedCells, RowsFor
<1>7. \A c : Without(c, "skipped").cell = c /\ Without(c, "skipped").status = "skipped"
  BY DEF Without, Row
<1>8. log \in Seq(LogRows)
  <2>1. T \subseteq LogRows
    BY <1>6
  <2>2. log \in Seq(T)
    <3> HIDE DEF T
    <3> QED
      BY <1>3, <1>4
  <2>3. QED
    BY <2>1, <2>2
<1>9. ASSUME NEW c \in S PROVE RowsWith(log, c, "skipped") # {} /\ EndsWithSkip(log, c)
  <2>1. PICK i \in DOMAIN log : log[i] = Without(c, "skipped")
    BY <1>4, <1>5 DEF Surjection
  <2>2. i \in RowsWith(log, c, "skipped")
    BY <1>7, <2>1 DEF RowsWith
  <2>3. ASSUME NEW j \in DOMAIN log, log[j].cell = c PROVE log[j] = Without(c, "skipped")
    <3>1. PICK d \in S : log[j] = Without(d, "skipped")
      BY <1>4
    <3>2. QED
      BY <1>7, <2>3, <3>1
  <2>4. \A j \in DOMAIN log, k \in DOMAIN log : log[j].cell = c /\ log[k].cell = c => j = k
    BY <1>4, <2>3 DEF IsInjective
  <2>5. \A j \in DOMAIN log : j \in Nat
    <3> HIDE DEF T, n, f
    <3> QED
      BY <1>3, <1>4
  <2>6. EndsWithSkip(log, c)
    <3>1. SUFFICES ASSUME NEW j \in DOMAIN log, NEW k \in RowsWith(log, c, "skipped"), log[j].cell = c
                   PROVE  j <= k
      BY DEF EndsWithSkip
    <3>2. k \in DOMAIN log /\ log[k].cell = c
      BY DEF RowsWith
    <3>3. j = k /\ j \in Nat
      BY <2>4, <2>5, <3>1, <3>2
    <3>4. QED
      BY <3>3
  <2>7. QED
    BY <2>2, <2>6
<1>10. ASSUME NEW c, c \notin S PROVE CellRows(log, c) = {} /\ RowsWith(log, c, "skipped") = {}
  <2>1. \A j \in DOMAIN log : log[j].cell # c
    BY <1>4, <1>7, <1>10
  <2>2. QED
    BY <2>1 DEF CellRows, RowsWith
<1>11. QED
  BY <1>8, <1>9, <1>10

LEMMA StartSweepStep == ASSUME SweepInv, StartSweep PROVE SweepInv'
<1>0. sw \in SweepStates /\ rows \in Seq(LogRows) /\ sw.pc = "off" /\ sw.round = 0 /\ sw.exit # 0
  BY DEF SweepInv, StartSweep
<1>1. PICK exists \in BOOLEAN, mirror \in BOOLEAN, perf \in BOOLEAN :
        LET settled == (IF mirror THEN {} ELSE MirrorCells) \cup (IF perf THEN {} ELSE PerfCells)
            log == SetToSeq({Without(c, "skipped") : c \in settled})
        IN  IF exists
            THEN sw' = [sw EXCEPT !.pc = "refused", !.exit = 1] /\ UNCHANGED rows
            ELSE /\ sw' = [sw EXCEPT !.pc = "round", !.settled = settled, !.todo = SweepCells \ settled]
                 /\ rows' = log
  BY Zenon DEF StartSweep
<1>2. CASE exists
  <2> DEFINE code == 1
  <2>1. sw' = [sw EXCEPT !.pc = "refused", !.exit = code] /\ UNCHANGED rows /\ code \in Int /\ code # 0
    BY <1>1, <1>2
  <2> HIDE DEF code
  <2>2. sw' \in SweepStates' /\ sw'.pc = "refused" /\ sw'.exit # 0
    BY <1>0, <2>1 DEF SweepStates, Driving
  <2>3. QED
    BY <1>0, <2>1, <2>2 DEF SweepInv, Driving
<1>3. CASE ~ exists
  <2> DEFINE settled == (IF mirror THEN {} ELSE MirrorCells) \cup (IF perf THEN {} ELSE PerfCells)
             todo == SweepCells \ settled
  <2>1. sw' = [sw EXCEPT !.pc = "round", !.settled = settled, !.todo = todo]
        /\ rows' = SetToSeq({Without(c, "skipped") : c \in settled})
    BY <1>1, <1>3
  <2>2. settled \in SUBSET (MirrorCells \cup PerfCells)
    OBVIOUS
  <2>3. todo = SweepCells \ settled
    OBVIOUS
  <2> HIDE DEF settled, todo
  <2>4. /\ rows' \in Seq(LogRows)
        /\ \A c \in settled : RowsWith(rows', c, "skipped") # {} /\ EndsWithSkip(rows', c)
        /\ \A c : c \notin settled => CellRows(rows', c) = {} /\ RowsWith(rows', c, "skipped") = {}
    BY <2>1, <2>2, SettledLog
  <2>5. sw' \in SweepStates' /\ sw'.pc = "round" /\ sw'.exit = sw.exit /\ sw'.round = sw.round
        /\ sw'.settled = settled /\ sw'.todo = todo /\ sw'.noisy = sw.noisy
    BY <1>0, <2>1 DEF SweepStates, Driving
  <2>6. ASSUME NEW c \in SweepCells, c \notin settled PROVE Cardinality(CellRows(rows', c)) = RunsSoFar(c)'
    <3>1. Cardinality(CellRows(rows', c)) = 0
      BY <2>4, <2>6, FS_EmptySet
    <3>2. c \in sw'.todo /\ sw'.round = 0
      BY <1>0, <2>3, <2>5, <2>6
    <3>3. RunsSoFar(c)' = 0
      BY <3>2, SweepAssumption DEF RunsSoFar
    <3>4. QED
      BY <3>1, <3>3
  <2>7. sw'.todo \cap sw'.settled = {} /\ sw'.round < SweepRuns + TopupRuns /\ ~ (sw'.round >= SweepRuns)
    BY <1>0, <2>3, <2>5, SweepAssumption
  <2>8. QED
    BY <1>0, <2>4, <2>5, <2>6, <2>7 DEF SweepInv, Driving
<1>4. QED
  BY <1>2, <1>3

(* The driver at work: nothing is logged yet.                              *)
LEMMA SweepDrives ==
    ASSUME SweepInv, sw.pc \in {"round"} \cup Driving, sw' \in SweepStates', sw'.pc \in Driving, UNCHANGED rows,
           sw'.exit = sw.exit, sw'.round = sw.round, sw'.settled = sw.settled, sw'.todo = sw.todo,
           sw'.noisy = sw.noisy, sw'.cell \subseteq sw.todo \cap SweepCells
    PROVE  SweepInv'
<1>1. \A c \in SweepCells : RunsSoFar(c)' = RunsSoFar(c)
  BY DEF RunsSoFar
<1>2. QED
  BY <1>1 DEF SweepInv, Driving

LEMMA DriverSteps ==
    ASSUME SweepInv, (\E c \in SweepCells : StartDriver(c)) \/ DriverTimesOut \/ TermDriver PROVE SweepInv'
<1>0. sw \in SweepStates /\ UNCHANGED rows
  BY DEF SweepInv, StartDriver, DriverTimesOut, TermDriver
<1>1. ASSUME NEW c \in SweepCells, StartDriver(c) PROVE SweepInv'
  <2> DEFINE cell == {c}
  <2>1. sw.pc = "round" /\ cell \subseteq sw.todo \cap SweepCells /\ sw' = [sw EXCEPT !.pc = "drive", !.cell = cell]
    BY <1>1 DEF StartDriver
  <2> HIDE DEF cell
  <2>2. sw' \in SweepStates' /\ sw'.pc = "drive" /\ sw'.cell = cell /\ sw'.exit = sw.exit /\ sw'.round = sw.round
        /\ sw'.settled = sw.settled /\ sw'.todo = sw.todo /\ sw'.noisy = sw.noisy
    BY <1>0, <2>1 DEF SweepStates, Driving
  <2>3. QED
    BY <1>0, <2>1, <2>2, SweepDrives DEF Driving
<1>2. ASSUME NEW to \in Driving, sw.pc \in Driving, sw' = [sw EXCEPT !.pc = to] PROVE SweepInv'
  <2>1. sw' \in SweepStates' /\ sw'.pc = to /\ sw'.cell = sw.cell /\ sw'.exit = sw.exit /\ sw'.round = sw.round
        /\ sw'.settled = sw.settled /\ sw'.todo = sw.todo /\ sw'.noisy = sw.noisy
    BY <1>0, <1>2 DEF SweepStates
  <2>2. sw.cell \subseteq sw.todo \cap SweepCells
    BY <1>2 DEF SweepInv
  <2>3. QED
    BY <1>0, <1>2, <2>1, <2>2, SweepDrives
<1>3. QED
  BY <1>1, <1>2 DEF DriverTimesOut, TermDriver, Driving

LEMMA LogRowStep == ASSUME SweepInv, sw.pc \in Driving, LogRow PROVE SweepInv'
<1>0. PICK c \in sw.cell : \E row \in RowsFor(c) :
        /\ rows' = Append(rows, row)
        /\ sw' = [sw EXCEPT !.pc = "round", !.cell = {}, !.todo = @ \ {c},
                            !.settled = IF row.status = "skipped" THEN @ \cup {c} ELSE @]
  BY Zenon DEF LogRow
<1>a. sw \in SweepStates /\ rows \in Seq(LogRows) /\ c \in SweepCells /\ c \in sw.todo /\ sw.exit # 0
      /\ c \notin sw.settled /\ sw.round \in Nat /\ sw.round < SweepRuns + TopupRuns
      /\ sw.todo \cap sw.settled = {}
  BY DEF SweepInv, SweepStates, Driving
<1>1. PICK row \in RowsFor(c) :
        /\ rows' = Append(rows, row)
        /\ sw' = [sw EXCEPT !.pc = "round", !.cell = {}, !.todo = @ \ {c},
                            !.settled = IF row.status = "skipped" THEN @ \cup {c} ELSE @]
  BY <1>0, Zenon
<1> DEFINE todo == sw.todo \ {c}
           none == {}
           settled == IF row.status = "skipped" THEN sw.settled \cup {c} ELSE sw.settled
<1>2. sw' = [sw EXCEPT !.pc = "round", !.cell = none, !.todo = todo, !.settled = settled]
  BY <1>1
<1>3. settled = sw.settled \/ settled = sw.settled \cup {c}
  OBVIOUS
<1>4. row.status = "skipped" <=> c \in settled
  BY <1>a
<1>5. todo = sw.todo \ {c}
  OBVIOUS
<1> HIDE DEF todo, settled, none
<1>6. sw' \in SweepStates' /\ sw'.pc = "round" /\ sw'.exit = sw.exit /\ sw'.round = sw.round
      /\ sw'.settled = settled /\ sw'.todo = todo /\ sw'.noisy = sw.noisy
  BY <1>a, <1>2 DEF SweepStates
<1>7. row \in LogRows /\ row.cell = c
  BY <1>a DEF LogRows, LoggedCells, RowsFor, Row, Without
<1>8. /\ rows' \in Seq(LogRows)
      /\ \A d : d # c => /\ CellRows(rows', d) = CellRows(rows, d)
                         /\ RowsWith(rows', d, "skipped") = RowsWith(rows, d, "skipped")
                         /\ EndsWithSkip(rows, d) => EndsWithSkip(rows', d)
      /\ Cardinality(CellRows(rows, c)) \in Nat
      /\ Cardinality(CellRows(rows', c)) = Cardinality(CellRows(rows, c)) + 1
      /\ row.status # "skipped" => RowsWith(rows', c, "skipped") = RowsWith(rows, c, "skipped")
      /\ row.status = "skipped" /\ RowsWith(rows, c, "skipped") = {}
            => RowsWith(rows', c, "skipped") # {} /\ EndsWithSkip(rows', c)
  BY <1>a, <1>1, <1>7, OneMoreRow
<1>9. RowsWith(rows, c, "skipped") = {} /\ Cardinality(CellRows(rows, c)) = RunsSoFar(c)
  BY <1>a DEF SweepInv, Driving
<1>10. ASSUME NEW d \in SweepCells
       PROVE  IF d \in sw'.settled THEN RowsWith(rows', d, "skipped") # {} /\ EndsWithSkip(rows', d)
              ELSE RowsWith(rows', d, "skipped") = {} /\ Cardinality(CellRows(rows', d)) = RunsSoFar(d)'
  <2>1. CASE d = c /\ d \in settled
    BY <1>4, <1>6, <1>8, <1>9, <2>1
  <2>2. CASE d = c /\ d \notin settled
    <3>1. RowsWith(rows', c, "skipped") = {} /\ Cardinality(CellRows(rows', c)) = RunsSoFar(c) + 1
      BY <1>4, <1>8, <1>9, <2>2
    <3>2. c \in sw.todo /\ c \notin sw'.todo
      BY <1>a, <1>5, <1>6
    <3>3. RunsSoFar(c)' = RunsSoFar(c) + 1
      <4>1. CASE sw.round < SweepRuns
        BY <1>a, <1>6, <3>2, <4>1 DEF RunsSoFar
      <4>2. CASE ~ (sw.round < SweepRuns)
        <5>1. sw.round >= SweepRuns
          BY <1>a, <4>2, SweepAssumption
        <5>2. c \in sw.noisy
          BY <1>a, <5>1 DEF SweepInv, Driving
        <5>3. QED
          BY <1>a, <1>6, <3>2, <4>2, <5>2 DEF RunsSoFar
      <4>3. QED
        BY <4>1, <4>2
    <3>4. QED
      BY <1>6, <2>2, <3>1, <3>3
  <2>3. CASE d # c
    <3>1. (d \in settled <=> d \in sw.settled) /\ (d \in todo <=> d \in sw.todo)
      BY <1>3, <1>5, <2>3
    <3>2. RunsSoFar(d)' = RunsSoFar(d)
      BY <1>6, <3>1 DEF RunsSoFar
    <3>3. QED
      BY <1>a, <1>6, <1>8, <2>3, <3>1, <3>2 DEF SweepInv, Driving
  <2>4. QED
    BY <2>1, <2>2, <2>3
<1>11. sw'.todo \cap sw'.settled = {}
  BY <1>a, <1>3, <1>5, <1>6
<1>12. sw'.round >= SweepRuns => sw'.todo \subseteq sw'.noisy
  BY <1>a, <1>5, <1>6 DEF SweepInv, Driving
<1>13. QED
  BY <1>a, <1>6, <1>8, <1>10, <1>11, <1>12 DEF SweepInv, Driving

LEMMA NextRoundStep == ASSUME SweepInv, NextRound PROVE SweepInv'
<1> DEFINE r == sw.round + 1
           noisy == IF r = SweepRuns THEN SelectTopup(rows) ELSE sw.noisy
           again == SweepCells \ sw.settled
           topup == noisy \ sw.settled
<1>0. sw \in SweepStates /\ rows \in Seq(LogRows) /\ UNCHANGED rows /\ sw.pc = "round" /\ sw.todo = {} /\ sw.exit # 0
      /\ sw.round \in Nat /\ sw.round < SweepRuns + TopupRuns
  BY DEF SweepInv, NextRound, SweepStates
<1>1. \A c \in SweepCells :
        IF c \in sw.settled THEN RowsWith(rows, c, "skipped") # {} /\ EndsWithSkip(rows, c)
        ELSE RowsWith(rows, c, "skipped") = {} /\ Cardinality(CellRows(rows, c)) = RunsSoFar(c)
  BY <1>0 DEF SweepInv, Driving
<1>2. \A c : RunsSoFar(c) = IF sw.round < SweepRuns \/ c \in sw.noisy THEN r ELSE SweepRuns
  BY <1>0, SweepAssumption DEF RunsSoFar
<1>3. r \in Nat /\ r = sw.round + 1 /\ (r = SweepRuns \/ noisy = sw.noisy)
  BY <1>0
<1>4. \/ r < SweepRuns /\ sw' = [sw EXCEPT !.round = r, !.todo = again]
      \/ ~ (r < SweepRuns) /\ r < SweepRuns + TopupRuns
         /\ sw' = [sw EXCEPT !.round = r, !.noisy = noisy, !.todo = topup]
      \/ ~ (r < SweepRuns) /\ ~ (r < SweepRuns + TopupRuns) /\ sw' = [sw EXCEPT !.pc = "summary", !.noisy = noisy]
  BY DEF NextRound
<1>5. again = SweepCells \ sw.settled /\ topup = noisy \ sw.settled
  OBVIOUS
<1>6. SweepRuns \in Nat /\ SweepRuns > 0 /\ TopupRuns \in Nat
  BY SweepAssumption
<1> HIDE DEF r, noisy, again, topup
<1>7. CASE r < SweepRuns /\ sw' = [sw EXCEPT !.round = r, !.todo = again]
  <2>1. sw' \in SweepStates' /\ sw'.pc = "round" /\ sw'.exit = sw.exit /\ sw'.round = r
        /\ sw'.settled = sw.settled /\ sw'.todo = again /\ sw'.noisy = sw.noisy
    BY <1>0, <1>3, <1>7 DEF SweepStates, Driving
  <2>2. ASSUME NEW c \in SweepCells, c \notin sw.settled PROVE RunsSoFar(c)' = RunsSoFar(c)
    <3>1. c \in sw'.todo /\ sw'.round < SweepRuns /\ sw.round < SweepRuns /\ sw'.round = r
      BY <1>0, <1>3, <1>5, <1>6, <1>7, <2>1, <2>2
    <3>2. RunsSoFar(c)' = r
      BY <1>3, <3>1 DEF RunsSoFar
    <3>3. QED
      BY <1>2, <3>1, <3>2
  <2>3. sw'.todo \cap sw'.settled = {} /\ sw'.round < SweepRuns + TopupRuns /\ ~ (sw'.round >= SweepRuns)
    BY <1>3, <1>5, <1>6, <1>7, <2>1
  <2>4. QED
    BY <1>0, <1>1, <2>1, <2>2, <2>3 DEF SweepInv, Driving
<1>8. CASE ~ (r < SweepRuns) /\ r < SweepRuns + TopupRuns
           /\ sw' = [sw EXCEPT !.round = r, !.noisy = noisy, !.todo = topup]
  <2>1. sw' \in SweepStates' /\ sw'.pc = "round" /\ sw'.exit = sw.exit /\ sw'.round = r
        /\ sw'.settled = sw.settled /\ sw'.todo = topup /\ sw'.noisy = noisy
    BY <1>0, <1>3, <1>8 DEF SweepStates, Driving
  <2>2. ASSUME NEW c \in SweepCells, c \notin sw.settled PROVE RunsSoFar(c)' = RunsSoFar(c)
    <3>1. RunsSoFar(c)' = IF c \in noisy THEN r ELSE SweepRuns
      <4>1. ~ (sw'.round < SweepRuns) /\ sw'.round = r /\ (c \in sw'.noisy <=> c \in noisy)
            /\ (c \in noisy => c \in sw'.todo)
        BY <1>5, <1>8, <2>1, <2>2
      <4>2. QED
        BY <1>3, <4>1 DEF RunsSoFar
    <3>2. CASE r = SweepRuns
      BY <1>0, <1>2, <1>3, <1>6, <3>1, <3>2
    <3>3. CASE r # SweepRuns
      <4>1. ~ (sw.round < SweepRuns) /\ noisy = sw.noisy
        BY <1>0, <1>3, <1>6, <1>8, <3>3
      <4>2. QED
        BY <1>2, <3>1, <4>1
    <3>4. QED
      BY <3>2, <3>3
  <2>3. sw'.todo \cap sw'.settled = {} /\ sw'.round < SweepRuns + TopupRuns /\ sw'.todo \subseteq sw'.noisy
    BY <1>5, <1>8, <2>1
  <2>4. QED
    BY <1>0, <1>1, <2>1, <2>2, <2>3 DEF SweepInv, Driving
<1>9. CASE ~ (r < SweepRuns) /\ ~ (r < SweepRuns + TopupRuns) /\ sw' = [sw EXCEPT !.pc = "summary", !.noisy = noisy]
  <2>1. sw' \in SweepStates' /\ sw'.pc = "summary" /\ sw'.exit = sw.exit
        /\ sw'.settled = sw.settled /\ sw'.noisy = noisy
    BY <1>0, <1>9 DEF SweepStates, Driving
  <2>2. r = SweepRuns + TopupRuns
    BY <1>0, <1>3, <1>6, <1>9
  <2>3. ASSUME NEW c \in SweepCells, c \notin sw.settled PROVE AllRuns(c)' = RunsSoFar(c)
    <3>1. AllRuns(c)' = IF c \in noisy THEN r ELSE SweepRuns
      BY <2>1, <2>2 DEF AllRuns
    <3>2. CASE r = SweepRuns
      BY <1>0, <1>2, <1>3, <1>6, <3>1, <3>2
    <3>3. CASE r # SweepRuns
      <4>1. ~ (sw.round < SweepRuns) /\ noisy = sw.noisy
        BY <1>0, <1>3, <1>6, <1>9, <3>3
      <4>2. QED
        BY <1>2, <3>1, <4>1
    <3>4. QED
      BY <3>2, <3>3
  <2>4. QED
    BY <1>0, <1>1, <2>1, <2>3 DEF SweepInv, Driving
<1>10. QED
  BY <1>4, <1>7, <1>8, <1>9

(* The end of a sweep, and what is made of its rows afterwards.            *)
LEMMA SweepEnds ==
    ASSUME SweepInv, sw' \in SweepStates', UNCHANGED rows, sw'.pc \in {"stopped", "merged"},
           sw'.pc = "stopped" => sw'.exit # 0
    PROVE  SweepInv'
  BY DEF SweepInv, Driving

LEMMA WriteSummaryStep == ASSUME SweepInv, WriteSummary PROVE SweepInv'
<1> DEFINE one == 1
           zero == 0
           summary == Summarize(rows)
<1>0. sw \in SweepStates /\ rows \in Seq(LogRows) /\ UNCHANGED rows /\ sw.pc = "summary" /\ one \in Int /\ zero \in Int
  BY DEF SweepInv, WriteSummary
<1>1. \/ sw' = [sw EXCEPT !.pc = "done", !.exit = one]
      \/ sw' = [sw EXCEPT !.pc = "done", !.exit = zero, !.summary = summary, !.merged = rows]
  BY DEF WriteSummary
<1> HIDE DEF one, zero, summary
<1>2. sw' \in SweepStates' /\ sw'.pc = "done" /\ sw'.settled = sw.settled /\ sw'.noisy = sw.noisy
  BY <1>0, <1>1 DEF SweepStates, Driving
<1>3. \A c \in SweepCells : AllRuns(c)' = AllRuns(c)
  BY <1>2 DEF AllRuns
<1>4. QED
  BY <1>0, <1>2, <1>3 DEF SweepInv, Driving

LEMMA StopSweepStep == ASSUME SweepInv, StopSweep PROVE SweepInv'
<1> DEFINE killed == Killed
<1>0. sw \in SweepStates /\ UNCHANGED rows /\ killed \in Int /\ killed # 0
  BY Codes DEF SweepInv, StopSweep
<1>1. sw' = [sw EXCEPT !.pc = "stopped", !.exit = killed]
  BY DEF StopSweep
<1> HIDE DEF killed
<1>2. sw' \in SweepStates' /\ sw'.pc = "stopped" /\ sw'.exit # 0
  BY <1>0, <1>1 DEF SweepStates, Driving
<1>3. QED
  BY <1>0, <1>2, SweepEnds

LEMMA SummarizeDirsStep == ASSUME SweepInv, SummarizeDirs PROVE SweepInv'
<1>0. sw \in SweepStates /\ UNCHANGED rows
  BY DEF SweepInv, SummarizeDirs
<1>1. PICK other \in OtherRows :
        LET log == rows \o other
        IN  sw' = IF Mixed(log) THEN [sw EXCEPT !.pc = "merged", !.exit = 2]
                  ELSE [sw EXCEPT !.pc = "merged", !.exit = 0, !.summary = Summarize(log), !.merged = log]
  BY Zenon DEF SummarizeDirs
<1> DEFINE two == 2
           zero == 0
           log == rows \o other
           summary == Summarize(log)
<1>2. \/ sw' = [sw EXCEPT !.pc = "merged", !.exit = two]
      \/ sw' = [sw EXCEPT !.pc = "merged", !.exit = zero, !.summary = summary, !.merged = log]
  BY <1>1
<1>3. two \in Int /\ zero \in Int
  OBVIOUS
<1> HIDE DEF two, zero, summary, log
<1>4. sw' \in SweepStates' /\ sw'.pc = "merged"
  BY <1>0, <1>2, <1>3 DEF SweepStates, Driving
<1>5. QED
  BY <1>0, <1>4, SweepEnds

LEMMA SweepStep == ASSUME SweepInv, SweepNext \/ UNCHANGED sweepVars PROVE SweepInv'
<1>1. ASSUME UNCHANGED sweepVars PROVE SweepInv'
  BY <1>1 DEF sweepVars, SweepInv, SweepStates, RunsSoFar, AllRuns
<1>2. ASSUME DriverEnds \/ KillDriver PROVE SweepInv'
  BY <1>2, LogRowStep DEF DriverEnds, KillDriver, Driving
<1>3. CASE SweepNext
  BY <1>1, <1>2, <1>3, StartSweepStep, NextRoundStep, WriteSummaryStep, StopSweepStep, SummarizeDirsStep, DriverSteps
     DEF SweepNext, DriverMoves
<1>4. QED
  BY <1>1, <1>3

(* The driver's group is dead whenever no driver is at work, unless a      *)
(* signal stopped the sweep over it.                                       *)
SweepGroup ==
    /\ ChildTypes
    /\ \A p \in Parts \ {1} : alive[p] = {}
    /\ sw.pc \notin {"stopped", "merged"} \cup Driving => alive[1] = {}

LEMMA SweepGroupStart == SweepInit /\ NoChildren => SweepGroup
  BY PartsAssumption DEF SweepGroup, NoChildren, ChildTypes, Members

LEMMA SweepIsClean == SweepGroup => SweepClean
  BY DEF SweepGroup, SweepClean, Quiet, Driving

LEMMA SweepGroupStep ==
    ASSUME SweepInv, SweepGroup, SweepNext \/ UNCHANGED <<sweepVars, childVars>> PROVE SweepGroup'
<1>0. sw \in SweepStates /\ ChildTypes /\ (\A p \in Parts \ {1} : alive[p] = {}) /\ 1 \in Parts
  BY PartsAssumption DEF SweepInv, SweepGroup
<1>1. ASSUME UNCHANGED childVars, alive[1] = {} PROVE SweepGroup'
  BY <1>0, <1>1 DEF SweepGroup, ChildTypes, childVars
<1>2. ASSUME UNCHANGED childVars, sw'.pc \in {"stopped", "merged"} \cup Driving PROVE SweepGroup'
  BY <1>0, <1>2 DEF SweepGroup, ChildTypes, childVars
<1>3. ASSUME NEW c \in SweepCells, StartDriver(c) PROVE SweepGroup'
  <2>1. alive' \in [Parts -> SUBSET Members] /\ \A p \in Parts \ {1} : alive'[p] = {}
    BY <1>0, <1>3 DEF StartDriver, Spawn, ChildTypes, Members
  <2>2. known' \in [Parts -> BOOLEAN]
    <3>1. known \in [Parts -> BOOLEAN] /\ known' = [known EXCEPT ![1] = FALSE]
      BY <1>0, <1>3 DEF StartDriver, Spawn, ChildTypes
    <3>2. QED
      BY <3>1, Zenon
  <2>3. sw'.pc = "drive"
    BY <1>0, <1>3 DEF StartDriver, SweepStates
  <2>4. QED
    BY <2>1, <2>2, <2>3 DEF SweepGroup, ChildTypes, Driving
<1>4. ASSUME DriverMoves PROVE SweepGroup'
  <2>1. (Fork(1) \/ Leave(1)) /\ UNCHANGED sw /\ sw.pc \in Driving
    BY <1>4 DEF DriverMoves, sweepVars, Driving
  <2>2. ChildTypes' /\ \A q \in Parts : alive[q] = {} => alive'[q] = {}
    BY <1>0, <2>1, MovesKeep
  <2>3. QED
    BY <1>0, <2>1, <2>2 DEF SweepGroup
<1>5. ASSUME TermDriver \/ KillDriver PROVE SweepGroup'
  <2>1. ChildTypes' /\ (\A p \in Parts \ {1} : alive'[p] = {}) /\ (KillDriver => alive'[1] = {})
    BY <1>0, <1>5, Signalled DEF TermDriver, KillDriver
  <2>2. TermDriver => sw'.pc = "kill"
    BY <1>0 DEF TermDriver, SweepStates
  <2>3. QED
    BY <1>5, <2>1, <2>2 DEF SweepGroup, Driving
<1>6. ASSUME StartSweep \/ NextRound \/ WriteSummary \/ DriverEnds PROVE SweepGroup'
  BY <1>1, <1>6 DEF StartSweep, NextRound, WriteSummary, DriverEnds, Drained, SweepGroup, Driving
<1>7. ASSUME DriverTimesOut \/ StopSweep PROVE SweepGroup'
  BY <1>0, <1>2, <1>7 DEF DriverTimesOut, StopSweep, SweepStates, Driving
<1>8. ASSUME SummarizeDirs PROVE SweepGroup'
  <2>1. \/ sw' = [sw EXCEPT !.pc = "merged", !.exit = 2]
        \/ \E summary, merged : sw' = [sw EXCEPT !.pc = "merged", !.exit = 0, !.summary = summary, !.merged = merged]
    BY <1>8 DEF SummarizeDirs
  <2>2. sw'.pc = "merged"
    BY <1>0, <2>1 DEF SweepStates
  <2>3. QED
    BY <1>2, <1>8, <2>2 DEF SummarizeDirs
<1>9. ASSUME UNCHANGED <<sweepVars, childVars>> PROVE SweepGroup'
  BY <1>9 DEF SweepGroup, sweepVars, childVars, ChildTypes
<1>10. QED
  BY <1>3, <1>4, <1>5, <1>6, <1>7, <1>8, <1>9 DEF SweepNext

-----------------------------------------------------------------------------
(* The tools together: those not run stand idle.                           *)

ToolsInv ==
    /\ GateInv /\ SweepInv
    /\ IF tool = "report" THEN ReportInv ELSE ReportIdle
    /\ IF tool = "split" THEN SplitInv ELSE sp = SplitIdle
    /\ tool = "sweep" => SweepGroup

LEMMA ToolsStart == ToolsInit => ToolsInv
<1>1. SUFFICES ASSUME ToolsInit PROVE ToolsInv
  OBVIOUS
<1>2. NoChildren /\ SweepInit /\ GateInit /\ SplitInit /\ (IF tool = "report" THEN ReportInit ELSE ReportIdle)
  BY <1>1 DEF ToolsInit
<1>3. QED
  BY <1>2, GateStart, SweepStart, SweepGroupStart, SplitStart, ReportStart DEF ToolsInv, SplitInit

(* A step of one tool leaves the others as they are.                       *)
LEMMA GateStays == ASSUME GateInv, UNCHANGED gt PROVE GateInv'
  BY GateStep

LEMMA SweepStays == ASSUME SweepInv, UNCHANGED sweepVars PROVE SweepInv'
  BY SweepStep

LEMMA ReportStays == ASSUME ReportIdle, UNCHANGED reportVars PROVE ReportIdle'
  BY DEF ReportIdle, reportVars

LEMMA ToolsStep == ASSUME ToolsInv, [ToolsNext]_toolVars PROVE ToolsInv'
<1>0. GateInv /\ SweepInv /\ (IF tool = "report" THEN ReportInv ELSE ReportIdle)
      /\ (IF tool = "split" THEN SplitInv ELSE sp = SplitIdle) /\ (tool = "sweep" => SweepGroup)
  BY DEF ToolsInv
<1>1. CASE StepReport
  <2>1. tool = "report" /\ tool' = tool /\ ReportNext /\ UNCHANGED sweepVars /\ UNCHANGED gt /\ UNCHANGED sp
    BY <1>1 DEF StepReport
  <2>2. QED
    BY <1>0, <2>1, GateStays, SweepStays, ReportStep DEF ToolsInv
<1>2. CASE StepSweep
  <2>1. tool = "sweep" /\ tool' = tool /\ SweepNext /\ UNCHANGED reportVars /\ UNCHANGED gt /\ UNCHANGED sp
    BY <1>2 DEF StepSweep
  <2>2. QED
    BY <1>0, <2>1, GateStays, SweepStep, SweepGroupStep, ReportStays DEF ToolsInv
<1>3. CASE StepGate
  <2>1. tool = "gate" /\ tool' = tool /\ GateNext /\ UNCHANGED reportVars /\ UNCHANGED sweepVars /\ UNCHANGED sp
    BY <1>3 DEF StepGate
  <2>2. QED
    BY <1>0, <2>1, GateStep, SweepStays, ReportStays DEF ToolsInv
<1>4. CASE StepSplit
  <2>1. tool = "split" /\ tool' = tool /\ SplitNext /\ UNCHANGED reportVars /\ UNCHANGED sweepVars /\ UNCHANGED gt
    BY <1>4 DEF StepSplit
  <2>2. QED
    BY <1>0, <2>1, GateStays, SweepStays, SplitStep, ReportStays DEF ToolsInv
<1>5. CASE UNCHANGED toolVars
  <2>1. tool' = tool /\ UNCHANGED reportVars /\ UNCHANGED sweepVars /\ UNCHANGED gt /\ UNCHANGED sp /\ UNCHANGED childVars
    BY <1>5 DEF toolVars
  <2>2. QED
    BY <1>0, <2>1, GateStays, SweepStays, SweepGroupStep, ReportStays, ReportStep, SplitStep DEF ToolsInv
<1>6. QED
  BY <1>1, <1>2, <1>3, <1>4, <1>5 DEF ToolsNext

LEMMA ToolsAlways == ToolsSpec => []ToolsInv
<1>1. QED
  BY ToolsStart, ToolsStep, PTL DEF ToolsSpec

LEMMA ReportEvidence == ASSUME ToolsInv PROVE RowsBound /\ ReportComplete
<1>1. CASE tool = "report"
  BY <1>1 DEF ToolsInv, ReportInv, Evidence, Progress
<1>2. CASE tool # "report"
  <2>1. inv = Idle /\ disk = Empty
    BY <1>2 DEF ToolsInv, ReportIdle
  <2>2. disk.summary = NoFile /\ inv.exit = Running
    BY <2>1 DEF Idle, Empty
  <2>3. QED
    BY <2>2, Codes DEF RowsBound, Readable, ReportComplete
<1>3. QED
  BY <1>1, <1>2

LEMMA SplitWhole == ASSUME ToolsInv PROVE SplitComplete
<1>1. CASE tool = "split"
  BY <1>1 DEF ToolsInv, SplitInv
<1>2. CASE tool # "split"
  <2>1. sp = SplitIdle
    BY <1>2 DEF ToolsInv
  <2>2. sp.exit = Running
    BY <2>1 DEF SplitIdle
  <2>3. QED
    BY <2>2, Codes DEF SplitComplete
<1>3. QED
  BY <1>1, <1>2

(* No sample of the report, the split or the sweep is measured beside a    *)
(* process of an earlier one, however many signals and timeouts came.  An  *)
(* invocation of the report that ended left its made-up processor tree     *)
(* only where NothingLeft says: cut off between the tree's last file and   *)
(* `created`, during its removal, or with the host.  A split that ended by *)
(* itself left no leader it knew of, the gate no worktree but those git    *)
(* refused or was adding.  kill_process_group and the finally clauses.     *)
THEOREM ToolsLeaveNothing == ToolsSpec => []NothingLeft
<1>1. ToolsInv => NothingLeft
  BY ReportIsClean, SplitIsClean, SweepIsClean DEF ToolsInv, NothingLeft, GateInv
<1>2. QED
  BY <1>1, ToolsAlways, PTL

(* The binary checked for each row of summary.json, and its sources, are   *)
(* those the manifest beside it names, and the samples of a cell run from  *)
(* a snapshot all ran that binary, through crashes, edits, rebuilds and    *)
(* any number of resumed invocations.  What the samples of a cell of the   *)
(* working tree ran is not claimed: frozen_cell checks before the first,   *)
(* Popen takes what it finds.                                              *)
THEOREM RowsAreOfTheManifest == ToolsSpec => []EvidenceBound
<1>1. ToolsInv => EvidenceBound
  BY ReportEvidence DEF EvidenceBound
<1>2. QED
  BY <1>1, ToolsAlways, PTL

(* What an exit status of 0 does mean.  Report and split: every cell has   *)
(* the samples it was asked for.  Gate: every mode was measured, and one   *)
(* short of its pairs is marked inconclusive, never classified.  Sweep:    *)
(* every round and top-up logged a row of every cell, ok or invalid, until *)
(* a skip settled it.                                                      *)
THEOREM ZeroIsHonest == ToolsSpec => []ExitHonest
<1>1. ToolsInv => ExitHonest
  BY ReportEvidence, SplitWhole, SweepIsComplete DEF ExitHonest, ToolsInv, GateInv
<1>2. QED
  BY <1>1, ToolsAlways, PTL

(* Of the pairs the gate keeps, as many begin with either revision, up to  *)
(* the odd one: perf_gate.py alternates the order of the kept pairs.       *)
THEOREM GateOrdersBalance == ToolsSpec => []OrderBalanced
<1>1. ASSUME GateInv, NEW i \in DOMAIN gt.items
      PROVE  LET order == gt.items[i].order
             IN  /\ order["base"] + order["candidate"] = gt.items[i].quiet
                 /\ order["base"] - order["candidate"] \in 0 .. 1
  <2>1. gt.items \in Seq(Items)
    BY <1>1 DEF GateInv, GateStates
  <2>2. gt.items[i] \in Items
    BY <1>1, <2>1
  <2>3. gt.items[i].quiet \in Nat
    BY <2>2 DEF Items
  <2>4. Alternates(gt.items[i].order, gt.items[i].quiet)
    BY <1>1 DEF GateInv, ItemSound
  <2>5. gt.items[i].quiet % 2 \in 0 .. 1
    BY <2>3
  <2>6. QED
    BY <2>4, <2>5 DEF Alternates
<1>2. ToolsInv => OrderBalanced
  BY <1>1 DEF ToolsInv, OrderBalanced
<1>3. QED
  BY <1>2, ToolsAlways, PTL
=============================================================================
