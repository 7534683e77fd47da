------------------------------ MODULE PerfGate ------------------------------
(***************************************************************************)
(* perf_gate.py: two revisions are built in scratch worktrees and measured *)
(* in matched pairs whose order alternates.                                *)
(***************************************************************************)
EXTENDS ExitCodes, Sequences, FiniteSets

CONSTANTS Modes,        \* the requested modes, in order
          CancelModes,  \* those whose dispatched work is compared too
          Repeats, MaxAttempts

ASSUME GateArgs ==
    /\ Modes \in Seq(STRING)
    /\ Repeats \in Nat \ {0} /\ MaxAttempts \in Nat /\ MaxAttempts >= Repeats

VARIABLE gt

Absent == -1   \* no gate.json

Versions == {"base", "candidate"}

GateIdle ==
    [pc |-> "off", own |-> FALSE, build |-> "base", tree |-> {}, stuck |-> FALSE, broken |-> FALSE,
     missing |-> {}, only |-> FALSE, mode |-> 1, kept |-> 0, tries |-> 0, ran |-> 0, clean |-> TRUE,
     first |-> [v \in Versions |-> 0], items |-> <<>>, gate |-> Absent, exit |-> Running]

GateInit == gt = GateIdle

(* gate.json and the exit status.                                          *)
Recorded(code) == [gt EXCEPT !.pc = "done", !.gate = code, !.exit = code]

(* The handler of an exception writes the gate when the directory is there. *)
Raised(dir) == [gt EXCEPT !.pc = "done", !.exit = 2, !.gate = IF dir THEN 2 ELSE @]

(* The arguments: refused by the parser, or by an exception before it is   *)
(* known whether the directory is new.                                     *)
GateArguments ==
    /\ gt.pc = "off"
    /\ \E exists \in BOOLEAN :
          \/ gt' = [gt EXCEPT !.pc = "done", !.exit = 2, !.gate = IF exists THEN 0 ELSE Absent]
          \/ gt' = Raised(exists)
          \/ ~ exists /\ gt' = [gt EXCEPT !.pc = "add", !.own = TRUE]

(* A detached worktree of the revision, its build, and its removal.        *)
AddWorktree ==
    /\ gt.pc = "add"
    /\ \/ gt' = [gt EXCEPT !.pc = "compile", !.tree = {gt.build}]
       \/ gt' = Raised(TRUE)

Compile ==
    /\ gt.pc = "compile"
    /\ \E ok \in BOOLEAN : gt' = [gt EXCEPT !.pc = "remove", !.broken = ~ ok]

Removed(tree) == {}

RemoveWorktree ==
    /\ gt.pc = "remove"
    /\ \/ LET left == Removed(gt.tree)
          IN  gt' = IF gt.broken THEN [Raised(TRUE) EXCEPT !.tree = left]
                    ELSE [gt EXCEPT !.tree = left, !.build = "candidate",
                                    !.pc = IF gt.build = "base" THEN "add" ELSE "checks"]
       \/ gt' = [Raised(TRUE) EXCEPT !.stuck = TRUE]        \* git could not remove it

(* Control binaries that differ, benchmarks that differ, no CPU to spare   *)
(* for the monitor; --build-only; the modes a revision does not know.      *)
GateChecks ==
    /\ gt.pc = "checks"
    /\ \/ gt' = Recorded(2)
       \/ gt' = [Recorded(0) EXCEPT !.only = TRUE]
       \/ \E missing \in SUBSET {Modes[i] : i \in DOMAIN Modes} :
             gt' = [gt EXCEPT !.pc = "measure", !.missing = missing]

(* The requested modes that both revisions know, in order.                 *)
ModesBut(missing) == IF missing = {} THEN Modes ELSE SelectSeq(Modes, LAMBDA m : m \notin missing)
ModesRun == ModesBut(gt.missing)

(* Mutant: the order alternates with the attempts, excluded ones too.      *)
FirstVersionOfTry == IF gt.tries % 2 = 0 THEN "base" ELSE "candidate"

(* The order of a pair alternates with the pairs kept, not with the tries. *)
FirstVersion == IF gt.kept % 2 = 0 THEN "base" ELSE "candidate"

(* A run that fails, prints no rate or times out is invalid and ends the   *)
(* gate; one that shared its CPUs excludes its pair.                       *)
RunVersion ==
    /\ gt.pc = "measure" /\ gt.mode <= Len(ModesRun) /\ gt.ran < 2
    /\ \/ gt' = Recorded(2)
       \/ \E clean \in BOOLEAN : gt' = [gt EXCEPT !.ran = @ + 1, !.clean = @ /\ clean]

Keeps(clean) == clean

(* Too few pairs are `insufficient`; but where cancellation may change the *)
(* work dispatched, "inconclusive_work" overwrites whatever was decided.   *)
Decisions(mode, kept) ==
    {IF kept < Repeats THEN "insufficient" ELSE "classified"}
    \cup (IF mode \in CancelModes /\ kept > 0 THEN {"inconclusive_work"} ELSE {})

EndPair ==
    /\ gt.pc = "measure" /\ gt.ran = 2
    /\ LET kept == gt.kept + (IF Keeps(gt.clean) THEN 1 ELSE 0)
           first == IF Keeps(gt.clean) THEN [gt.first EXCEPT ![FirstVersion] = @ + 1] ELSE gt.first
           next == [gt EXCEPT !.ran = 0, !.clean = TRUE]
           mode == ModesRun[gt.mode]
       IN  IF kept >= Repeats \/ gt.tries + 1 = MaxAttempts
           THEN \E decision \in Decisions(mode, kept) :
                    gt' = [next EXCEPT !.mode = @ + 1, !.kept = 0, !.tries = 0,
                                       !.first = [v \in Versions |-> 0],
                                       !.items = Append(@, [mode |-> mode, quiet |-> kept, order |-> first,
                                                            decision |-> decision])]
           ELSE gt' = [next EXCEPT !.kept = kept, !.tries = @ + 1, !.first = first]

Insufficient(item) == item.decision = "insufficient"

GateReport ==
    /\ gt.pc = "measure" /\ gt.mode > Len(ModesRun)
    /\ gt' = Recorded(IF gt.missing # {} \/ \E i \in DOMAIN gt.items : Insufficient(gt.items[i]) THEN 2 ELSE 0)

(* SIGINT is no Exception: only the finally clause of a build runs, and it *)
(* removes no tree that git added before `created` was set.                *)
InterruptGate ==
    /\ gt.pc \in {"add", "compile", "remove", "checks", "measure"}
    /\ \/ gt' = [gt EXCEPT !.pc = "done", !.exit = Killed, !.tree = {}]
       \/ gt.tree # {} /\ gt' = [gt EXCEPT !.pc = "done", !.exit = Killed, !.stuck = TRUE]
       \/ gt.pc = "add" /\ gt' = [gt EXCEPT !.pc = "done", !.exit = Killed, !.stuck = TRUE, !.tree = {gt.build}]

GateNext ==
    \/ GateArguments \/ AddWorktree \/ Compile \/ RemoveWorktree \/ GateChecks
    \/ RunVersion \/ EndPair \/ GateReport \/ InterruptGate

-----------------------------------------------------------------------------
(* Exit 0 of a measuring gate: every requested mode was measured, and a    *)
(* cell short of its pairs is not classified but flagged, as one whose     *)
(* dispatched work differs.  In a directory of its own, gate.json says the *)
(* exit status.                                                            *)
GateHonest ==
    /\ gt.exit = 0 /\ ~ gt.only =>
          /\ [i \in DOMAIN gt.items |-> gt.items[i].mode] = Modes
          /\ \A i \in DOMAIN gt.items :
                gt.items[i].quiet < Repeats => gt.items[i].decision = "inconclusive_work"
    /\ gt.pc = "done" /\ gt.own /\ gt.exit # Killed => gt.gate = gt.exit

(* "Exit 0: the report is complete (every requested cell has its matched   *)
(* pairs)", as the tool's text says of perf_gate.py: refuted, because      *)
(* "inconclusive_work" takes the place of "insufficient".                  *)
GateComplete ==
    gt.exit = 0 /\ ~ gt.only =>
        /\ [i \in DOMAIN gt.items |-> gt.items[i].mode] = Modes
        /\ \A i \in DOMAIN gt.items : gt.items[i].quiet >= Repeats

(* The pairs kept begin with either version equally often, to within one.  *)
OrderBalanced ==
    \A i \in DOMAIN gt.items :
        LET order == gt.items[i].order
        IN  /\ order["base"] + order["candidate"] = gt.items[i].quiet
            /\ order["base"] - order["candidate"] \in 0 .. 1

(* Scratch worktrees are gone when the gate ends, unless git failed to     *)
(* remove one or the signal fell as it was added.                          *)
WorktreesRemoved == gt.pc \in {"off", "checks", "measure", "done"} /\ ~ gt.stuck => gt.tree = {}
=============================================================================
