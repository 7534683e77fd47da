---------------------------- MODULE PerfReport -----------------------------
(***************************************************************************)
(* run_performance_md.py: invocations of the report over one output        *)
(* directory.  `disk` is what survives an invocation, `inv` the running    *)
(* one, `world` the working tree and the binaries others rebuild meanwhile.*)
(***************************************************************************)
EXTENDS ChildGroup, ExitCodes

CONSTANTS ReportCells,   \* the planned cells, in order
          Parser,          \* the parser of each cell
          Frozen,        \* cells run from a snapshot of a dub build
          SixConsumers,  \* cells of six consumers
          ReportArgs,    \* [runs, six, resume, fake]: command lines
          MultiThreaded, \* cells of the multithreaded fiber benchmark
          Printed,       \* by cell, the sets of lines its benchmark may print
          MaxLaunches, MaxEdits,
          NoFile, Torn   \* a file that is absent, one only partly written

VARIABLES inv, disk, world, sysTree

reportVars == <<inv, disk, world, sysTree>>

CellNames == {ReportCells[i] : i \in DOMAIN ReportCells}

(* What manifest.json and summary.json hold when they are whole.  A        *)
(* version counts the edits; NoFile is that of a build never made.         *)
Versioned == Nat \cup {NoFile}
Metrics == {"rate", "drain", "spawn_and_drain"}
Manifests == [src : Nat, bins : [CellNames -> Versioned]]
SummaryRows ==
    [cell : CellNames, values : Seq(Metrics), ok : BOOLEAN, src : Nat, bin : Versioned,
     ran : SUBSET Versioned]

(* An absent or partial file is no content, every cell has a parser, and   *)
(* the multithreaded fiber benchmark names its workers whatever it prints. *)
ASSUME ReportAssumption ==
    /\ DOMAIN ReportCells = 1 .. Len(ReportCells) /\ Len(ReportCells) \in Nat
    /\ Parser \in [CellNames -> {"dub_fiber", "tail", "actor_churn", "throughput", "dual",
                                 "actor_ready", "scaling"}]
    /\ ReportArgs \subseteq [runs : Nat, six : Nat, resume : BOOLEAN, fake : BOOLEAN]
    /\ NoFile # Torn
    /\ \A file \in {NoFile, Torn} : file \notin Manifests /\ file \notin Seq(SummaryRows)
    /\ \A c \in MultiThreaded \cap CellNames :
          Parser[c] = "dub_fiber" /\ \A out \in Printed[c] : <<FALSE, "workers">> \in out

Idle == [pc |-> "off", args |-> [runs |-> 1, six |-> 0, resume |-> TRUE, fake |-> FALSE],
         launches |-> 0, src |-> 0, man |-> NoFile, i |-> 1, done |-> 0, values |-> <<>>,
         checked |-> 0, ran |-> {}, results |-> <<>>, failed |-> FALSE, then |-> "none",
         made |-> FALSE, left |-> FALSE, exit |-> Running]

Empty == [manifest |-> NoFile, meta |-> FALSE, snap |-> NoFile, summary |-> NoFile, raw |-> FALSE]

(* `made` is the local `created`; `left`, over all invocations, that one    *)
(* was cut off with its tree in place where no clause removes it.          *)
(*                                                                         *)
(* A new directory, one with evidence from before manifests, and a host    *)
(* that has a processor tree of its own or has none.                       *)
ReportInit ==
    /\ inv = Idle
    /\ disk \in {Empty, [Empty EXCEPT !.meta = TRUE, !.summary = <<>>, !.raw = TRUE]}
    /\ world = [src |-> 0, bin |-> 0]
    /\ sysTree \in {"absent", "host"}

ReportIdle == inv = Idle /\ disk = Empty /\ world = [src |-> 0, bin |-> 0] /\ sysTree = "absent"

-----------------------------------------------------------------------------
(* What a parser makes of the lines printed: the kind of the metric,       *)
(* "none" for a row without one, "error" for ValueError.                   *)
BurstTotal(out, warm) ==
    LET L(line) == <<warm, line>> \in out
    IN  CASE L("malformed total") -> "error"
          [] L("rate-only total") /\ <<FALSE, "workers">> \in out -> "error"
          [] L("total") -> "timed"
          [] ~ L("total") /\ L("create") /\ L("run") -> "timed"
          [] OTHER -> "absent"

ParseFiber(out) ==
    LET cold == BurstTotal(out, FALSE)
        hot == BurstTotal(out, TRUE)
    IN  IF "error" \in {cold, hot} THEN "error"
        ELSE IF <<FALSE, "workers">> \in out
             THEN IF cold = "timed" /\ hot = "timed" THEN "spawn_and_drain" ELSE "error"
             ELSE IF <<FALSE, "run">> \in out THEN "drain" ELSE "error"

(* The first table row is the result; of tail's rows the primary scene's,  *)
(* whose p99 may be a dash.                                                *)
ParseTail(out) ==
    IF "scene" \notin out THEN "error" ELSE IF "p99" \in out THEN "rate" ELSE "none"

ParseChurn(out) ==
    IF "actor cycles" \in out \/ "selected callbacks" \in out THEN "rate" ELSE "error"

ParseRow(out) == IF "row" \in out THEN "rate" ELSE "error"

Parse(kind, out) ==
    CASE kind = "dub_fiber" -> ParseFiber(out)
      [] kind = "tail" -> ParseTail(out)
      [] kind = "actor_churn" -> ParseChurn(out)
      [] kind \in {"throughput", "dual", "actor_ready", "scaling"} -> ParseRow(out)

Sample(metric) == metric \notin {"none", "error"}

(* The six-consumer minimum.                                               *)
Requested(args, c) ==
    IF c \in SixConsumers /\ args.six > args.runs THEN args.six ELSE args.runs

-----------------------------------------------------------------------------
RowsOf(results, c) == {results[i] : i \in {j \in DOMAIN results : results[j].cell = c}}

(* Mutant: any cell that succeeded is reused.                              *)
CachedOnce(results, c, n) == \E row \in RowsOf(results, c) : row.ok

(* cell_is_cached: succeeded, with values enough for this command line.    *)
(* Command, directory and environment are part of the identity.            *)
Cached(results, c, n) ==
    \E row \in RowsOf(results, c) :
        /\ row.ok
        /\ Len(row.values) >= n
        /\ c \in MultiThreaded => row.values[Len(row.values)] = "spawn_and_drain"

(* A measured row takes the place of the cell's earlier one.               *)
Filed(results, row) ==
    IF RowsOf(results, row.cell) = {} THEN Append(results, row)
    ELSE [i \in DOMAIN results |-> IF results[i].cell = row.cell THEN row ELSE results[i]]

(* The binary a cell runs now, by version.                                 *)
Binary(c) == IF c \in Frozen THEN disk.snap ELSE world.bin

Hashes == [c \in CellNames |-> Binary(c)]

(* Evidence that must not be added to: a manifest that cannot be read or   *)
(* has no metadata, results without a manifest, another identity.          *)
Readable(file) == file # NoFile /\ file # Torn
Incomplete == disk.manifest = Torn \/ (disk.manifest # NoFile /\ ~ disk.meta)
Legacy == disk.manifest = NoFile /\ (disk.meta \/ disk.summary # NoFile \/ disk.raw)
SameIdentity(man) == man.src = world.src

Goto(pc) == inv' = [inv EXCEPT !.pc = pc]
Ended(code) == [inv EXCEPT !.pc = "off", !.exit = code]
End(code) == inv' = Ended(code)

-----------------------------------------------------------------------------
(* main: the arguments, and the tree --fake-topology must not replace.     *)
Launch(args) ==
    /\ inv.pc = "off" /\ inv.launches < MaxLaunches
    /\ inv' = [Idle EXCEPT !.launches = inv.launches + 1, !.left = inv.left, !.args = args,
                           !.pc = IF args.fake /\ sysTree # "absent" THEN "off" ELSE "prepare",
                           !.exit = IF args.fake /\ sysTree # "absent" THEN 2 ELSE Running]
    /\ UNCHANGED <<disk, world, sysTree, childVars>>

(* prepare_manifest refuses before it changes anything.                    *)
Prepare ==
    /\ inv.pc = "prepare"
    /\ inv' = IF Incomplete \/ Legacy \/ (Readable(disk.manifest) /\ ~ SameIdentity(disk.manifest))
              THEN Ended(2)
              ELSE [inv EXCEPT !.src = world.src,
                               !.pc = IF disk.manifest = NoFile THEN "build" ELSE "hash"]
    /\ UNCHANGED <<disk, world, sysTree, childVars>>

(* The dub builds, from the sources as they are by now; one may fail.      *)
BuildSnapshots ==
    /\ inv.pc = "build"
    /\ \/ Goto("hash") /\ disk' = [disk EXCEPT !.snap = world.src]
       \/ End(2) /\ UNCHANGED disk
    /\ UNCHANGED <<world, sysTree, childVars>>

HashBinaries ==
    /\ inv.pc = "hash"
    /\ LET man == [src |-> inv.src, bins |-> Hashes]
       IN  inv' = IF disk.manifest = NoFile THEN [inv EXCEPT !.man = man, !.pc = "create"]
                  ELSE IF disk.manifest = man THEN [inv EXCEPT !.man = man, !.pc = "load"]
                  ELSE Ended(2)
    /\ UNCHANGED <<disk, world, sysTree, childVars>>

(* Exclusive creation, then the text, then the metadata.                   *)
CreateManifest ==
    /\ inv.pc = "create"
    /\ disk' = [disk EXCEPT !.manifest = Torn]
    /\ Goto("fill")
    /\ UNCHANGED <<world, sysTree, childVars>>

FillManifest ==
    /\ inv.pc = "fill"
    /\ disk' = [disk EXCEPT !.manifest = inv.man]
    /\ Goto("describe")
    /\ UNCHANGED <<world, sysTree, childVars>>

WriteMetadata ==
    /\ inv.pc = "describe"
    /\ disk' = [disk EXCEPT !.meta = TRUE]
    /\ Goto("load")
    /\ UNCHANGED <<world, sysTree, childVars>>

(* An unreadable summary is ignored; the handlers are installed.           *)
LoadSummary ==
    /\ inv.pc = "load"
    /\ disk' = [disk EXCEPT !.raw = TRUE]
    /\ inv' = [inv EXCEPT !.results = IF Readable(disk.summary) THEN disk.summary ELSE <<>>,
                          !.pc = IF inv.args.fake THEN "install" ELSE "cell"]
    /\ UNCHANGED <<world, sysTree, childVars>>

-----------------------------------------------------------------------------
MadeUp == {"partial", "whole"}

(* install_fake_topology: refused when a tree has appeared, else written   *)
(* file by file; a failure removes what was written.                       *)
InstallTree ==
    /\ inv.pc = "install"
    /\ IF sysTree # "absent" THEN End(2) /\ UNCHANGED sysTree
       ELSE Goto("plant") /\ sysTree' = "partial"
    /\ UNCHANGED <<disk, world, childVars>>

WritePlan ==
    /\ inv.pc = "plant"
    /\ \/ Goto("planted") /\ sysTree' = "whole"
       \/ inv' = [inv EXCEPT !.pc = "unplant", !.exit = 1] /\ UNCHANGED sysTree
    /\ UNCHANGED <<disk, world, childVars>>

(* The removal inside install_fake_topology, on its way to the finally      *)
(* clause of main.                                                         *)
UnplantTree ==
    /\ inv.pc = "unplant"
    /\ Goto("cleanup")
    /\ sysTree' = "absent"
    /\ UNCHANGED <<disk, world, childVars>>

(* `created` is assigned: from here on main removes the tree.              *)
NoteTree ==
    /\ inv.pc = "planted"
    /\ inv' = [inv EXCEPT !.pc = "cell", !.made = TRUE]
    /\ UNCHANGED <<disk, world, sysTree, childVars>>

(* The finally clause: the tree, when this invocation made one.            *)
CleanUp ==
    /\ inv.pc = "cleanup"
    /\ sysTree' = IF inv.made THEN "absent" ELSE sysTree
    /\ inv' = IF inv.then = "sort" THEN [inv EXCEPT !.pc = "final"] ELSE Ended(inv.exit)
    /\ UNCHANGED <<disk, world, childVars>>

-----------------------------------------------------------------------------
(* Mutant: the hash of a binary is taken once, for the manifest.           *)
ChangedNever(c) == FALSE

(* The next cell: frozen_cell checks its binary, a cached one is skipped.  *)
(* What each sample runs is whatever Popen finds, later.                   *)
Changed(c) == Binary(c) # inv.man.bins[c]

NextCell ==
    /\ inv.pc = "cell" /\ inv.i <= Len(ReportCells)
    /\ LET c == ReportCells[inv.i]
       IN  inv' = IF Changed(c)
                  THEN [inv EXCEPT !.pc = "cleanup", !.exit = 1]
                  ELSE IF inv.args.resume /\ Cached(inv.results, c, Requested(inv.args, c))
                  THEN [inv EXCEPT !.i = @ + 1]
                  ELSE [inv EXCEPT !.pc = "run", !.done = 0, !.values = <<>>, !.checked = Binary(c),
                                   !.ran = {}]
    /\ UNCHANGED <<disk, world, sysTree, childVars>>

CellsDone ==
    /\ inv.pc = "cell" /\ inv.i > Len(ReportCells)
    /\ inv' = [inv EXCEPT !.pc = "cleanup", !.then = "sort"]
    /\ UNCHANGED <<disk, world, sysTree, childVars>>

(* run_cmd.                                                                *)
StartBenchmark ==
    /\ inv.pc = "run"
    /\ Spawn(1)
    /\ inv' = [inv EXCEPT !.pc = "started", !.ran = @ \cup {Binary(ReportCells[inv.i])}]
    /\ UNCHANGED <<disk, world, sysTree>>

NoteBenchmark ==
    /\ inv.pc = "started"
    /\ Register(1)
    /\ Goto("wait")
    /\ UNCHANGED <<disk, world, sysTree>>

(* measure_cell counts a sample when it parsed; the last one makes a row.  *)
Measured(metric) ==
    LET c == ReportCells[inv.i]
        want == Requested(inv.args, c)
        values == IF Sample(metric) THEN Append(inv.values, metric) ELSE inv.values
        row == [cell |-> c, values |-> values, ok |-> Len(values) >= want,
                src |-> inv.src, bin |-> inv.checked, ran |-> inv.ran]
    IN  IF inv.done + 1 < want
        THEN [inv EXCEPT !.pc = "run", !.done = @ + 1, !.values = values]
        ELSE [inv EXCEPT !.pc = "flush", !.results = Filed(@, row), !.failed = @ \/ ~ row.ok]

Finished ==
    /\ inv.pc = "wait" /\ Drained(1)
    /\ \/ \E out \in Printed[ReportCells[inv.i]] :
            inv' = Measured(Parse(Parser[ReportCells[inv.i]], out))
       \/ inv' = Measured("none")                 \* it exited with an error
    /\ UNCHANGED <<disk, world, sysTree, childVars>>

TimedOut ==
    /\ inv.pc = "wait" /\ ~ Drained(1)
    /\ inv' = [inv EXCEPT !.pc = "term", !.then = "measure"]
    /\ UNCHANGED <<disk, world, sysTree, childVars>>

TermBenchmark ==
    /\ inv.pc = "term"
    /\ TermGroup(1)
    /\ Goto("kill")
    /\ UNCHANGED <<disk, world, sysTree>>

(* KILL, the second communicate, and back to the cell or to the exception. *)
KillBenchmark ==
    /\ inv.pc = "kill"
    /\ KillGroup(1)
    /\ inv' = IF inv.then = "measure" THEN [Measured("none") EXCEPT !.then = "none"]
              ELSE [inv EXCEPT !.pc = "cleanup"]
    /\ UNCHANGED <<disk, world, sysTree>>

(* flush truncates the file before it writes.                              *)
OpenSummary ==
    /\ inv.pc \in {"flush", "final"}
    /\ disk' = [disk EXCEPT !.summary = Torn]
    /\ Goto(IF inv.pc = "flush" THEN "flushing" ELSE "closing")
    /\ UNCHANGED <<world, sysTree, childVars>>

FlushSummary ==
    /\ inv.pc = "flushing"
    /\ disk' = [disk EXCEPT !.summary = inv.results]
    /\ inv' = [inv EXCEPT !.pc = "cell", !.i = @ + 1]
    /\ UNCHANGED <<world, sysTree, childVars>>

(* The last flush, and the exit code: a failed row, of this invocation or  *)
(* an earlier one, is an error.                                            *)
CloseSummary ==
    /\ inv.pc = "closing"
    /\ disk' = [disk EXCEPT !.summary = inv.results]
    /\ End(IF inv.failed \/ \E i \in DOMAIN inv.results : ~ inv.results[i].ok THEN 1 ELSE 0)
    /\ UNCHANGED <<world, sysTree, childVars>>

-----------------------------------------------------------------------------
(* SIGINT or SIGTERM.  Before and after the handlers are installed the     *)
(* interpreter ends where it is.                                           *)
Unhandled == {"prepare", "build", "hash", "create", "fill", "describe", "load", "final", "closing"}

InterruptBare ==
    /\ inv.pc \in Unhandled
    /\ End(Killed)
    /\ UNCHANGED <<disk, world, sysTree, childVars>>

(* In between the handler kills the benchmark it knows of, and the finally *)
(* clause runs.                                                            *)
Raise(pc) == inv' = [inv EXCEPT !.pc = pc, !.then = "raise", !.exit = Killed]

InterruptBenchmark ==
    /\ inv.pc \in {"wait", "term", "kill"}
    /\ Raise("term")
    /\ UNCHANGED <<disk, world, sysTree, childVars>>

InterruptBetween ==
    /\ inv.pc \in {"install", "cell", "run", "started", "flush", "flushing"}
    /\ Raise("cleanup")
    /\ UNCHANGED <<disk, world, sysTree, childVars>>

(* While the tree is written the call removes it; once it is written, but  *)
(* not yet noted, nobody does.                                             *)
InterruptPlanting ==
    /\ \/ inv.pc = "plant" /\ Raise("unplant")
       \/ inv.pc = "planted" /\ inv' = [inv EXCEPT !.pc = "cleanup", !.then = "raise", !.exit = Killed,
                                                  !.left = TRUE]
    /\ UNCHANGED <<disk, world, sysTree, childVars>>

(* A signal while rmtree runs ends the removal half way: the handlers are  *)
(* still installed, and ignore_errors passes over no KeyboardInterrupt.     *)
Removing == inv.pc = "unplant" \/ inv.made

InterruptRemoval ==
    /\ inv.pc \in {"unplant", "cleanup"}
    /\ inv' = [Ended(Killed) EXCEPT !.left = @ \/ Removing]
    /\ sysTree' \in {sysTree} \cup (IF Removing THEN {"partial"} ELSE {})
    /\ UNCHANGED <<disk, world, childVars>>

Interrupt ==
    InterruptBare \/ InterruptBenchmark \/ InterruptBetween \/ InterruptPlanting \/ InterruptRemoval

(* The host goes down: only the disk is left, a made-up tree with it.      *)
Crash ==
    /\ inv.pc # "off"
    /\ inv' = [Ended(Crashed) EXCEPT !.left = @ \/ sysTree \in MadeUp]
    /\ alive' = [p \in Parts |-> {}]
    /\ known' = [p \in Parts |-> FALSE]
    /\ UNCHANGED <<disk, world, sysTree>>

(* Others edit a source and rebuild the benchmarks.                        *)
Edit ==
    /\ world.src < MaxEdits
    /\ world' = [world EXCEPT !.src = @ + 1]
    /\ UNCHANGED <<inv, disk, sysTree, childVars>>

Rebuild ==
    /\ world.bin # world.src
    /\ world' = [world EXCEPT !.bin = world.src]
    /\ UNCHANGED <<inv, disk, sysTree, childVars>>

BenchmarkMoves ==
    /\ inv.pc \in {"started", "wait", "kill"}
    /\ Fork(1) \/ Leave(1)
    /\ UNCHANGED reportVars

ReportNext ==
    \/ \E args \in ReportArgs : Launch(args)
    \/ Prepare \/ BuildSnapshots \/ HashBinaries \/ CreateManifest \/ FillManifest \/ WriteMetadata
    \/ LoadSummary \/ InstallTree \/ WritePlan \/ UnplantTree \/ NoteTree \/ CleanUp \/ NextCell \/ CellsDone
    \/ StartBenchmark \/ NoteBenchmark \/ Finished \/ TimedOut \/ TermBenchmark \/ KillBenchmark
    \/ OpenSummary \/ FlushSummary \/ CloseSummary
    \/ Interrupt \/ Crash \/ Edit \/ Rebuild \/ BenchmarkMoves

-----------------------------------------------------------------------------
(* Exit 0: the summary on disk holds, for every planned cell, as many      *)
(* samples as this command line asks for, whatever earlier invocations     *)
(* measured; those of a multithreaded fiber cell count the whole burst.    *)
ReportComplete ==
    inv.exit = 0 =>
        /\ Readable(disk.summary)
        /\ \A c \in CellNames : \E row \in RowsOf(disk.summary, c) :
              /\ Len(row.values) >= Requested(inv.args, c)
              /\ \A i \in DOMAIN row.values : c \in MultiThreaded => row.values[i] = "spawn_and_drain"

(* The binary checked for a row, and the identity it was measured under,   *)
(* are those the manifest names; and every sample of a cell run from a     *)
(* snapshot ran that very binary.  A cell run from the working tree is     *)
(* checked once, before its first sample: what its samples run may differ. *)
RowsBound ==
    Readable(disk.summary) => \A i \in DOMAIN disk.summary :
        LET row == disk.summary[i]
        IN  /\ Readable(disk.manifest)
            /\ row.src = disk.manifest.src
            /\ row.bin = disk.manifest.bins[row.cell]
            /\ row.cell \in Frozen => row.ran \subseteq {disk.manifest.bins[row.cell]}

(* An invocation that ended has put the processor tree back, unless the    *)
(* host went down or a signal fell as the tree was about to be noted or    *)
(* was being removed.  Between two benchmarks no process of an earlier one *)
(* lives, however many signals came, nor after the end unless one came     *)
(* before the leader was known.                                            *)
ReportClean ==
    /\ inv.pc = "off" /\ ~ inv.left => sysTree \notin MadeUp
    /\ inv.pc \in {"off", "cell", "run", "flush", "flushing", "cleanup", "final", "closing"} /\ known[1] => Quiet
=============================================================================
