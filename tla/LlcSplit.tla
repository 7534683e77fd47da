------------------------------ MODULE LlcSplit ------------------------------
(***************************************************************************)
(* llc_split.py: every sample starts its parts together and collects them  *)
(* under one deadline; a sample counts when every part succeeded.          *)
(***************************************************************************)
EXTENDS ChildGroup, ExitCodes

CONSTANTS SplitCells,    \* the cells, in order
          PartsOf,       \* the number of parts of each
          SplitRuns

(* There are cells, each of as many parts as Parts has room for.  A split   *)
(* of no rounds, which --runs allows, measures nothing and is left out.    *)
ASSUME SplitArgs ==
    /\ Len(SplitCells) \in Nat \ {0} /\ DOMAIN SplitCells = 1 .. Len(SplitCells)
    /\ \A i \in DOMAIN SplitCells : PartsOf[SplitCells[i]] \in Nat \ {0}
                                    /\ 1 .. PartsOf[SplitCells[i]] \subseteq Parts
    /\ SplitRuns \in Nat \ {0}

VARIABLE sp

SplitIdle ==
    [pc |-> "off", round |-> 1, cell |-> 1, at |-> 1, late |-> FALSE, parsed |-> <<>>,
     samples |-> [i \in DOMAIN SplitCells |-> 0], tried |-> [i \in DOMAIN SplitCells |-> 0],
     exit |-> Running]

SplitInit == sp = SplitIdle

PartCount == PartsOf[SplitCells[sp.cell]]

(* The finally clause of run_parts: whoever it knows and still runs.       *)
Reaped == [p \in Parts |-> IF known[p] /\ "leader" \in alive[p] THEN {} ELSE alive[p]]

StartSplit ==
    /\ sp.pc = "off"
    /\ \E exists \in BOOLEAN :                  \* mkdir(exist_ok=False)
          sp' = IF exists THEN [sp EXCEPT !.pc = "done", !.exit = 1] ELSE [sp EXCEPT !.pc = "spawn"]
    /\ UNCHANGED childVars

(* The parts are started one after the other; a start may fail.            *)
StartPart ==
    /\ sp.pc = "spawn"
    /\ \/ Spawn(sp.at) /\ sp' = [sp EXCEPT !.pc = "listed"]
       \/ sp' = [sp EXCEPT !.pc = "reap", !.exit = 1] /\ UNCHANGED childVars

ListPart ==
    /\ sp.pc = "listed"
    /\ Register(sp.at)
    /\ sp' = IF sp.at < PartCount THEN [sp EXCEPT !.pc = "spawn", !.at = @ + 1]
             ELSE [sp EXCEPT !.pc = "collect", !.at = 1, !.late = FALSE]

(* A part ended in time, with a result that parses or not.                 *)
CollectPart ==
    /\ sp.pc = "collect" /\ sp.at <= PartCount /\ Drained(sp.at)
    /\ \E ok \in BOOLEAN : sp' = [sp EXCEPT !.parsed = Append(@, ok), !.at = @ + 1]
    /\ UNCHANGED childVars

(* The shared deadline passed: this part is killed, and so is every later  *)
(* one that has not ended.                                                 *)
PartTimedOut ==
    /\ sp.pc = "collect" /\ sp.at <= PartCount /\ ~ Drained(sp.at)
    /\ sp' = [sp EXCEPT !.pc = "term", !.late = TRUE]
    /\ UNCHANGED childVars

TermPart ==
    /\ sp.pc = "term"
    /\ TermGroup(sp.at)
    /\ sp' = [sp EXCEPT !.pc = "kill"]

KillPart ==
    /\ sp.pc = "kill"
    /\ KillGroup(sp.at)
    /\ sp' = [sp EXCEPT !.pc = "collect", !.parsed = Append(@, FALSE), !.at = @ + 1]

(* measure: the sample counts when every part parsed; rounds outermost.    *)
Counts(parsed) == \A i \in DOMAIN parsed : parsed[i]

EndSample ==
    /\ sp.pc = "collect" /\ sp.at > PartCount
    /\ LET next == [sp EXCEPT !.at = 1, !.parsed = <<>>, !.tried[sp.cell] = @ + 1,
                              !.samples[sp.cell] = IF Counts(sp.parsed) THEN @ + 1 ELSE @]
       IN  sp' = IF sp.cell < Len(SplitCells) THEN [next EXCEPT !.pc = "spawn", !.cell = @ + 1]
                 ELSE IF sp.round < SplitRuns THEN [next EXCEPT !.pc = "spawn", !.cell = 1, !.round = @ + 1]
                 ELSE [next EXCEPT !.pc = "report"]
    /\ UNCHANGED childVars

(* main: a failed row, one with a sample missing, is an error.             *)
FailedRow(i) == sp.samples[i] # SplitRuns

SplitReport ==
    /\ sp.pc = "report"
    /\ sp' = [sp EXCEPT !.pc = "done", !.exit = IF \E i \in DOMAIN SplitCells : FailedRow(i) THEN 1 ELSE 0]
    /\ UNCHANGED childVars

(* SIGINT is an exception wherever the tool is; the finally clause runs.   *)
InterruptSplit ==
    /\ sp.pc \notin {"off", "reap", "done", "stopped"}
    /\ sp' = [sp EXCEPT !.pc = "reap", !.exit = Killed]
    /\ UNCHANGED childVars

ReapParts ==
    /\ sp.pc = "reap"
    /\ alive' = Reaped
    /\ sp' = [sp EXCEPT !.pc = "done"]
    /\ UNCHANGED known

(* A second SIGINT, while the finally clause runs, or SIGTERM, for which   *)
(* the tool has no handler: it ends where it is.                           *)
StopSplit ==
    /\ sp.pc \notin {"off", "done", "stopped"}
    /\ sp' = [sp EXCEPT !.pc = "stopped", !.exit = Killed]
    /\ UNCHANGED childVars

PartMoves == sp.pc \notin {"off", "done", "stopped"} /\ (\E p \in Parts : Fork(p) \/ Leave(p)) /\ UNCHANGED sp

SplitNext ==
    \/ StartSplit \/ StartPart \/ ListPart \/ CollectPart \/ PartTimedOut \/ TermPart \/ KillPart
    \/ EndSample \/ SplitReport \/ InterruptSplit \/ ReapParts \/ StopSplit \/ PartMoves

-----------------------------------------------------------------------------
(* Exit 0: every cell was tried in every round and every part of every     *)
(* sample succeeded.                                                       *)
SplitComplete ==
    sp.exit = 0 => \A i \in DOMAIN SplitCells : sp.samples[i] = SplitRuns /\ sp.tried[i] = SplitRuns

(* A sample starts with no process of an earlier one alive, and the tool,  *)
(* when its finally clause has run, ends with no leader it knows running:  *)
(* an interrupt between Popen and the list it is appended to leaves one,   *)
(* and a child that outlives its leader is nobody's when the clause looks. *)
SplitClean ==
    /\ sp.pc = "spawn" /\ sp.at = 1 => Quiet
    /\ sp.pc = "report" => Quiet
    /\ sp.pc = "done" => \A p \in Parts : known[p] => "leader" \notin alive[p]
=============================================================================
