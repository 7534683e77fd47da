---------------------------- MODULE OffccdSweep ----------------------------
(***************************************************************************)
(* offccd_sweep.py: a sweep into a directory of its own, round by round,   *)
(* and the summaries made of its rows, with those of another directory     *)
(* when --summarize is given several.                                      *)
(*                                                                         *)
(* `rows` is runs.jsonl, flushed row by row.  A row is                     *)
(*   [cell, status, plan, rate, scope],                                    *)
(* plan, rate and scope being those of the driver's ok result.  Rates are  *)
(* small numbers: two different ones are further apart than the threshold. *)
(***************************************************************************)
EXTENDS ChildGroup, ExitCodes, FiniteSetsExt, SequencesExt

CONSTANTS SweepCells, MirrorCells, PerfCells,
          SweepRuns, TopupRuns,
          Results,       \* [plan, rate, scope] of an ok run of the driver
          OtherRows,     \* the rows a second directory may hold
          NoSummary

(* A sweep has a first round (--runs 0, which measures nothing, is left    *)
(* out), and finitely many cells need the host to have a second cache      *)
(* group or a counter of perf.                                             *)
ASSUME SweepAssumption ==
    /\ SweepRuns \in Nat \ {0} /\ TopupRuns \in Nat
    /\ IsFiniteSet(MirrorCells) /\ IsFiniteSet(PerfCells)

VARIABLES sw, rows

sweepVars == <<sw, rows>>

SweepIdle ==
    [pc |-> "off", todo |-> {}, cell |-> {}, round |-> 0, settled |-> {}, noisy |-> {}, exit |-> Running,
     summary |-> NoSummary, merged |-> <<>>]

SweepInit == sw = SweepIdle /\ rows = <<>>

Row(c, status, plan, rate, scope) ==
    [cell |-> c, status |-> status, plan |-> plan, rate |-> rate, scope |-> scope]

Without(c, status) == Row(c, status, "-", 0, "-")

(* The rows run_cell can log for a cell.                                   *)
RowsFor(c) ==
    {Row(c, "ok", r.plan, r.rate, r.scope) : r \in Results}
    \cup {Without(c, "skipped"), Without(c, "invalid")}

-----------------------------------------------------------------------------
(* check_mergeable: the scopes the results name; more than one is refused. *)
ScopesOf(log) == {log[i].scope : i \in DOMAIN log} \ {"-"}
Mixed(log) == Cardinality(ScopesOf(log)) > 1

IsOk(row) == row.status = "ok"

PlansOf(log, c) == {log[i].plan : i \in {j \in DOMAIN log : log[j].cell = c /\ IsOk(log[j])}}

(* Mutant: the plans known when the row is reached, in one pass.           *)
GroupKeySoFar(log, i) ==
    LET mine == PlansOf(SubSeq(log, 1, i), log[i].cell)
    IN  IF IsOk(log[i]) THEN <<log[i].cell, log[i].plan>>
        ELSE IF Cardinality(mine) = 1 THEN <<log[i].cell, CHOOSE p \in mine : TRUE>>
        ELSE <<log[i].cell, "">>

(* group_cells: a run that is not ok joins its cell's only plan, if there  *)
(* is exactly one in the whole log.                                        *)
GroupKey(log, i) ==
    LET mine == PlansOf(log, log[i].cell)
    IN  IF IsOk(log[i]) THEN <<log[i].cell, log[i].plan>>
        ELSE IF Cardinality(mine) = 1 THEN <<log[i].cell, CHOOSE p \in mine : TRUE>>
        ELSE <<log[i].cell, "">>

(* ok runs feed the statistics, invalid ones are counted, a skip shows in  *)
(* the status of a group without an ok run and nowhere else.               *)
Counted(log, key, status) ==
    {i \in DOMAIN log : GroupKey(log, i) = key /\ log[i].status = status}

Group(log, key) ==
    LET runs == Counted(log, key, "ok")
    IN  [n |-> Cardinality(runs), rates |-> {log[i].rate : i \in runs},
         invalid |-> Cardinality(Counted(log, key, "invalid")),
         status |-> IF runs # {} THEN "ok"
                    ELSE IF Counted(log, key, "skipped") # {} THEN "skipped" ELSE "invalid"]

GroupCells(log) ==
    [key \in {GroupKey(log, i) : i \in DOMAIN log} |-> Group(log, key)]

(* summarize: the groups, the invalid runs over all of them, the rows.     *)
Summarize(log) ==
    LET cells == GroupCells(log)
    IN  [cells |-> cells, runs |-> Len(log),
         invalid |-> MapThenSumSet(LAMBDA key : cells[key].invalid, DOMAIN cells)]

(* select_topup: two ok runs of one plan further apart than the threshold. *)
SelectTopup(log) ==
    {key[1] : key \in {k \in DOMAIN GroupCells(log) : Cardinality(GroupCells(log)[k].rates) > 1}}

-----------------------------------------------------------------------------
(* run_suites.  The plan of the first driver run says whether there is a   *)
(* second cache group, the probe whether perf counts its event: without    *)
(* them mirror and perf cells are settled before the first round.          *)
StartSweep ==
    /\ sw.pc = "off"
    /\ \E exists, mirror, perf \in BOOLEAN :
          LET settled == (IF mirror THEN {} ELSE MirrorCells) \cup (IF perf THEN {} ELSE PerfCells)
              log == SetToSeq({Without(c, "skipped") : c \in settled})
          IN  IF exists
              THEN sw' = [sw EXCEPT !.pc = "refused", !.exit = 1] /\ UNCHANGED rows
              ELSE /\ sw' = [sw EXCEPT !.pc = "round", !.settled = settled, !.todo = SweepCells \ settled]
                   /\ rows' = log
    /\ UNCHANGED childVars

(* One cell of a round, in the shuffled order: its driver is a session of  *)
(* its own.                                                                *)
StartDriver(c) ==
    /\ sw.pc = "round" /\ c \in sw.todo
    /\ Spawn(1)
    /\ sw' = [sw EXCEPT !.pc = "drive", !.cell = {c}]
    /\ UNCHANGED rows

DriverMoves == sw.pc \in {"drive", "kill"} /\ (Fork(1) \/ Leave(1)) /\ UNCHANGED sweepVars

(* Its last line of output is the row, a timed-out one's too; a skipped    *)
(* result settles the cell.                                                *)
LogRow ==
    \E c \in sw.cell : \E row \in RowsFor(c) :
        /\ rows' = Append(rows, row)
        /\ sw' = [sw EXCEPT !.pc = "round", !.cell = {}, !.todo = @ \ {c},
                            !.settled = IF row.status = "skipped" THEN @ \cup {c} ELSE @]

DriverEnds == sw.pc = "drive" /\ Drained(1) /\ LogRow /\ UNCHANGED childVars

DriverTimesOut ==
    /\ sw.pc = "drive" /\ ~ Drained(1)
    /\ sw' = [sw EXCEPT !.pc = "term"]
    /\ UNCHANGED <<rows, childVars>>

TermDriver == sw.pc = "term" /\ TermGroup(1) /\ sw' = [sw EXCEPT !.pc = "kill"] /\ UNCHANGED rows

KillDriver == sw.pc = "kill" /\ KillGroup(1) /\ LogRow

(* After a round: the next one, the top-up of the noisy cells, the summary. *)
NextRound ==
    /\ sw.pc = "round" /\ sw.todo = {}
    /\ LET r == sw.round + 1
           noisy == IF r = SweepRuns THEN SelectTopup(rows) ELSE sw.noisy
       IN  sw' = IF r < SweepRuns THEN [sw EXCEPT !.round = r, !.todo = SweepCells \ sw.settled]
                 ELSE IF r < SweepRuns + TopupRuns
                 THEN [sw EXCEPT !.round = r, !.noisy = noisy, !.todo = noisy \ sw.settled]
                 ELSE [sw EXCEPT !.pc = "summary", !.noisy = noisy]
    /\ UNCHANGED <<rows, childVars>>

(* MixedRunsError leaves run_suites uncaught.                              *)
WriteSummary ==
    /\ sw.pc = "summary"
    /\ sw' = IF Mixed(rows) THEN [sw EXCEPT !.pc = "done", !.exit = 1]
             ELSE [sw EXCEPT !.pc = "done", !.exit = 0, !.summary = Summarize(rows), !.merged = rows]
    /\ UNCHANGED <<rows, childVars>>

(* A signal, or an error of the runner: the log stays, and so does the     *)
(* driver, which nothing but a timeout kills.                              *)
StopSweep ==
    /\ sw.pc \in {"round", "drive", "term", "kill", "summary"}
    /\ sw' = [sw EXCEPT !.pc = "stopped", !.exit = Killed]
    /\ UNCHANGED <<rows, childVars>>

(* --summarize, of this directory alone or with another one.               *)
SummarizeDirs ==
    /\ sw.pc \in {"done", "stopped"}
    /\ \E other \in OtherRows :
          LET log == rows \o other
          IN  sw' = IF Mixed(log) THEN [sw EXCEPT !.pc = "merged", !.exit = 2]
                    ELSE [sw EXCEPT !.pc = "merged", !.exit = 0, !.summary = Summarize(log), !.merged = log]
    /\ UNCHANGED <<rows, childVars>>

SweepNext ==
    \/ StartSweep \/ NextRound \/ WriteSummary \/ StopSweep \/ SummarizeDirs
    \/ \E c \in SweepCells : StartDriver(c)
    \/ DriverMoves \/ DriverEnds \/ DriverTimesOut \/ TermDriver \/ KillDriver

-----------------------------------------------------------------------------
RowsWith(log, c, status) == {i \in DOMAIN log : log[i].cell = c /\ log[i].status = status}

(* A summary is of one scope.  Each cell and plan is summarized over the   *)
(* ok runs of that plan, every ok and every invalid row of the log is      *)
(* counted once, a cell all of whose ok runs had one plan is one entry,    *)
(* whatever came before them, and a cell with such runs is never shown as  *)
(* skipped.  A skip beside ok runs of one plan is not shown at all.        *)
SummaryExact ==
    sw.summary # NoSummary =>
        LET cells == sw.summary.cells
            log == sw.merged
            Entries(c) == {key \in DOMAIN cells : key[1] = c}
        IN  /\ Cardinality(ScopesOf(log)) <= 1
            /\ \A key \in DOMAIN cells :
                  LET ok == {i \in RowsWith(log, key[1], "ok") : log[i].plan = key[2]}
                  IN  cells[key].n = Cardinality(ok) /\ cells[key].rates = {log[i].rate : i \in ok}
            /\ \A c \in {log[i].cell : i \in DOMAIN log} :
                  /\ MapThenSumSet(LAMBDA key : cells[key].n, Entries(c)) = Cardinality(RowsWith(log, c, "ok"))
                  /\ MapThenSumSet(LAMBDA key : cells[key].invalid, Entries(c))
                        = Cardinality(RowsWith(log, c, "invalid"))
                  /\ Cardinality(PlansOf(log, c)) = 1 => Cardinality(Entries(c)) = 1
                  /\ (\E key \in Entries(c) : cells[key].status = "skipped") =>
                        RowsWith(log, c, "skipped") # {} /\ Cardinality(PlansOf(log, c)) # 1
            /\ sw.summary.invalid = Cardinality({i \in DOMAIN log : log[i].status = "invalid"})

(* A sweep that exits 0 logged a row of every cell in every round, ok or   *)
(* invalid, until the driver skipped it, the noisy ones in the top-up      *)
(* rounds too, and nothing after a skip.  It does not say that any of the  *)
(* rows is ok: a cell whose runs were all invalid leaves the exit at 0.    *)
SweepComplete ==
    sw.pc = "done" /\ sw.exit = 0 =>
        \A c \in SweepCells :
            LET n == Cardinality({i \in DOMAIN rows : rows[i].cell = c})
                skips == RowsWith(rows, c, "skipped")
            IN  IF skips = {} THEN n = SweepRuns + (IF c \in sw.noisy THEN TopupRuns ELSE 0)
                ELSE \A i \in DOMAIN rows, s \in skips : rows[i].cell = c => i <= s

(* A round starts its next driver with no process of an earlier one alive. *)
SweepClean == sw.pc \in {"off", "round", "summary", "done"} => Quiet
=============================================================================
