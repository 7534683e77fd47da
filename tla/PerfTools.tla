----------------------------- MODULE PerfTools ------------------------------
(***************************************************************************)
(* The Python measurement tools beside the libraries.  They share the      *)
(* planning of cells and the way a benchmark is started and killed, and    *)
(* never run against one directory together: `tool` says which of them     *)
(* this behaviour is of.                                                   *)
(***************************************************************************)
EXTENDS Plans, PerfReport, OffccdSweep, PerfGate, LlcSplit

VARIABLE tool

toolVars == <<tool, plan, reportVars, sweepVars, gt, sp, childVars>>

Tools == {"plans", "report", "sweep", "gate", "split"}

ToolsInit ==
    /\ tool \in Tools
    /\ IF tool = "plans" THEN plan \in AllPlans ELSE plan = NoPlan
    /\ IF tool = "report" THEN ReportInit ELSE ReportIdle
    /\ SweepInit /\ GateInit /\ SplitInit
    /\ NoChildren

StepReport == tool = "report" /\ ReportNext /\ UNCHANGED <<tool, plan, sweepVars, gt, sp>>
StepSweep == tool = "sweep" /\ SweepNext /\ UNCHANGED <<tool, plan, reportVars, gt, sp>>
StepGate == tool = "gate" /\ GateNext /\ UNCHANGED <<tool, plan, reportVars, sweepVars, sp, childVars>>
StepSplit == tool = "split" /\ SplitNext /\ UNCHANGED <<tool, plan, reportVars, sweepVars, gt>>

ToolsNext == StepReport \/ StepSweep \/ StepGate \/ StepSplit

ToolsSpec == ToolsInit /\ [][ToolsNext]_toolVars

-----------------------------------------------------------------------------
(* What kill_process_group of run_performance_md.py and offccd_sweep.py    *)
(* and the finally clauses of the tools leave behind.  No sample is        *)
(* measured beside a process of an earlier sample, whichever members of    *)
(* its group forked, resisted TERM or outlived their leader.  A tool that  *)
(* ends by itself, or after one signal that fell in none of the windows    *)
(* named below, has no benchmark it knows of, no made-up processor tree    *)
(* and no scratch worktree left.                                           *)
NothingLeft ==
    /\ tool = "report" => ReportClean
    /\ tool = "split" => SplitClean
    /\ tool = "sweep" => SweepClean
    /\ WorktreesRemoved

(* Through crashes, rebuilds, edits of the sources and resumed invocations *)
(* the binary checked for each row of summary.json, and its sources, are   *)
(* those the directory's manifest names, and the samples of a cell run     *)
(* from a snapshot all ran that binary.  prepare_manifest, frozen_cell and *)
(* run_cmd of run_performance_md.py.                                       *)
EvidenceBound == RowsBound

(* What an exit status of 0 means.  Report and split: every planned cell   *)
(* has its samples, those reused from an earlier invocation with other     *)
(* arguments included.  Gate: every mode was measured and none is          *)
(* classified on too few pairs.  Sweep: every round logged its rows.       *)
ExitHonest == ReportComplete /\ SplitComplete /\ GateHonest /\ SweepComplete

(* A sweep summary counts every ok and every invalid run once, under one   *)
(* scope and under its own plan, and the pairs the gate keeps begin with   *)
(* either revision equally often, whichever attempts were excluded.        *)
SummaryAccounts == SummaryExact /\ OrderBalanced
=============================================================================
