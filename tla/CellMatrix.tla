----------------------------- MODULE CellMatrix -----------------------------
(***************************************************************************)
(* The cells the measurement tools plan: the cases of                      *)
(* run_performance_md.py by section, the cells of offccd_sweep.py by       *)
(* suite, and the cases of private_lifecycle_matrix.py.  A cell is the     *)
(* pair of the key its results are filed under and the command it runs.    *)
(* Names and ids, which the code formats, are the tuples of their parts;   *)
(* a command keeps the arguments that differ between cells.                *)
(***************************************************************************)
EXTENDS Integers, Sequences, FiniteSets

Case(name, cmd) == [name |-> name, cmd |-> cmd]

(* About one producer per two consumers.                                   *)
PayloadSplit(t) == LET p == IF t \div 3 > 1 THEN t \div 3 ELSE 1 IN <<p, t - p>>

(* pins_for: the number of CPUs pinned, 0 for "-" when oversubscribed.     *)
PinsFor(t, cpus) == IF t > cpus THEN 0 ELSE t

Churn(name, mode, consumers, more) == Case(name, <<"churn", mode, consumers, more>>)

PrivateModes == {<<"private">>, <<"private-remote">>, <<"private-tracked">>, <<"private-slab">>,
    <<"private-remote-slab">>, <<"tree">>, <<"tree-wait">>, <<"tree-cont">>, <<"tree-slab">>,
    <<"tree-wait-slab">>, <<"tree-cont-slab">>, <<"tree-refill">>, <<"tree-refill-slab">>,
    <<"tree-pipelined">>, <<"tree-cancel">>, <<"dtor">>, <<"subset", 1>>, <<"subset", 10>>,
    <<"subset", 100>>, <<"subset-whole">>, <<"subset-whole-unreserved">>}

(* Mutant: the percentage is left out of the name.                         *)
TagOfMode(mode) == <<mode[1]>>

(* The tag of a private case: its mode, and its percentage when it has one. *)
Tag(mode) == mode

(* The cases of one section; `a` holds the thread counts of the command    *)
(* line and the number of CPUs.                                            *)
Headline(a) ==
    {Case(<<"payload", t>>, <<"throughput", PayloadSplit(t)>>) : t \in a.threads}
    \cup {Churn(<<m[1], t>>, m[2], t - 1, PinsFor(t, a.cpus)) : t \in a.threads,
            m \in {<<"private", "private-slab">>, <<"tree", "tree-refill-slab">>,
                   <<"public", "actor">>, <<"wave", "wave">>}}
    \cup {Case(<<"fiber", t>>, <<"benchmark_mt", t>>) : t \in {u \in a.threads : u <= a.cpus}}

FarmCases(s, a) ==
    CASE s = "farm_consumers" -> {Case(<<"nc", nc>>, <<"throughput", nc>>) : nc \in {1, 2, 4, 6, 11}}
      [] s = "farm_chunk_batch" ->
            {Case(<<"ac", ac, "b", b>>, <<"throughput", 4, ac, b>>) :
                ac \in 0 .. 3, b \in {64, 128, 256, 512, 1024, 2048}}
      [] s = "farm_best" ->
            {Case(<<"headline">>, <<"throughput", 8, 4, 0>>),
             Case(<<"headline_default_chunk">>, <<"throughput", 8, 4, 3>>),
             Case(<<"single_producer">>, <<"throughput", 11, 1, 0>>),
             Case(<<"default_shape">>, <<"throughput", 4, 0, 3>>)}
      [] s = "huge" ->
            {Case(<<"headline_huge">>, <<"throughput", 8, 4, 0>>)}
            \cup {Churn(<<m, "c6_huge">>, m, 6, "huge") : m \in {"actor", "tree"}}
      [] s = "pinning" ->
            {Churn(<<m, "c6", p>>, m, 6, p) : m \in {"actor", "tree"}, p \in {"pinned", "unpinned"}}
      [] s = "dual" ->
            {Case(<<"nd", nd>>, <<"dual", nd, 256, 3>>) : nd \in a.dual}
            \cup (IF 6 \in a.dual
                  THEN {Case(<<"nd", 6, "b", x[1], "ac", x[2]>>, <<"dual", 6, x[1], x[2]>>) :
                            x \in {<<256, 0>>, <<2048, 0>>, <<256, 3>>}}
                  ELSE {})
      [] s = "tail" -> {Case(<<"tail", t>>, <<"tail", t - 1>>) : t \in a.tail}
      [] s = "fibers" -> {Case(<<"benchmark_st">>, <<"benchmark">>), Case(<<"benchmark_mt">>, <<"benchmark_mt">>)}
      [] s = "scaling" -> {Case(<<"create_16384">>, <<"scaling", "create">>),
                           Case(<<"lifecycle_16384_b32">>, <<"scaling", "lifecycle">>)}

ActorCases(s, a) ==
    CASE s = "public" ->
            {Churn(<<m, "c", c, h>>, m, c, h) : m \in {"actor", "wave", "inbox"}, c \in {0, 6},
                                                h \in {"default", "chunk32"}}
            \cup {Churn(<<"actor_curve", c>>, "actor", c, "default") : c \in {1, 2, 4, 6, 11}}
            \cup {Case(<<"actor_ready", h>>, <<"actor_ready", h>>) : h \in {"default", "chunk32"}}
      [] s = "private" ->
            {Churn(<<Tag(m), "c", c>>, m, c, "-") : m \in PrivateModes, c \in a.private}
      [] s = "private_tuning" ->
            {Churn(<<m, "b", b, h>>, m, 6, <<"b", b, h>>) : m \in {"tree", "private"}, b \in {256, 1024},
                                                      h \in {"auto", "h2", "h0"}}
            \cup {Churn(<<"private", "b", b>>, "private", 6, <<"b", b, "auto">>) : b \in {256, 1024, 2048}}
            \cup {Churn(<<m, "child", h>>, m, 6, <<"child", 256, h>>) : m \in {"tree", "tree-slab"},
                                                                  h \in {"default", "h0"}}
      [] s = "allocators" ->
            {Churn(<<m, al>>, m, 6, al) : m \in {"actor", "wave", "tree", "private-remote"},
                                          al \in {"mimalloc", "crt"}}
            \cup {Churn(<<"private", "emitter">>, "private", 6, "mimalloc"),
                  Churn(<<"private", "count">>, "private-remote", 6, "mimalloc-count"),
                  Churn(<<"private", "emitter_count">>, "private", 6, "mimalloc-count")}

ActorSections == {"public", "private", "private_tuning", "allocators"}
FarmSections == {"farm_consumers", "farm_chunk_batch", "farm_best", "huge", "pinning", "dual", "tail",
                 "fibers", "scaling"}
AllSections == {"headline"} \cup ActorSections \cup FarmSections

CasesFor(s, a) ==
    IF s = "headline" THEN Headline(a)
    ELSE IF s \in ActorSections THEN ActorCases(s, a) ELSE FarmCases(s, a)

-----------------------------------------------------------------------------
(* The cells of offccd_sweep.py.  `more` overrides the labels of `Plain`.  *)
Combos4 == {<<"touch", b, m>> : b \in {16, 1700}, m \in {"stream", "phased"}}
Combos8 == {<<c, b, m>> : c \in {"touch", "w100"}, b \in {16, 1700}, m \in {"stream", "phased"}}
Default == <<"touch", 1700, "stream">>

(* cell(): x = <<k, role, arm, kp>>; the id is the tuple of every label.    *)
Cell(suite, sweep, args, x, combo, layout) ==
    [id |-> <<suite, sweep, x, combo, layout>>, sweep |-> sweep, args |-> args,
     k |-> x[1], role |-> x[2], arm |-> x[3], combo |-> <<combo, layout>>]

(* mirror_group: only the plan's own remote group, never on one LLC.        *)
MirrorGroup(topo) == IF topo.single THEN "none" ELSE topo.remote

Axis(suite, sweep, flag, role, ks, combos, layout) ==
    {Cell(suite, sweep, <<flag, k>>, <<k, role, "-", 0>>, co, layout) : k \in ks, co \in combos}

(* The sweep label of the latency slice, which adds --lat-every to S_C.     *)
LatSweep == "lat"

Calib(s, mode, pairs) == Cell(s, "calib", <<"mode", mode, pairs>>, <<0, "-", mode, 0>>, Default, "uniform")

MainCells(s) ==
    CASE s = "calib" -> {Calib(s, "pingpong", "all"), Calib(s, "rmw", "-"), Calib(s, "pull", "-")}
      [] s = "main-c" -> Axis(s, "S_C", "off-c", "consumer", 0 .. 8, Combos8, "uniform")
      [] s = "main-p" -> Axis(s, "S_P", "off-p", "producer", 1 .. 8, Combos8, "uniform")
      [] s = "combined" ->
            {Cell(s, s, <<"off-p-c", k>>, <<k, "both", "-", k>>, co, "uniform") : k \in {1, 2, 4}, co \in Combos4}
      [] s = "smt" -> Axis(s, s, "smt-c", "consumer", {1, 3, 5}, {<<"touch", b, "stream">> : b \in {16, 1700}}, "uniform")
            \cup Axis(s, s, "smt-p", "producer", {1, 2}, {<<"touch", b, "stream">> : b \in {16, 1700}}, "uniform")
      [] s = "layouts" ->
            LET C2 == {<<"touch", 256, m>> : m \in {"stream", "phased"}}
            IN  Axis(s, "S_C", "off-c", "consumer", {0, 1, 4, 8}, C2, "compact")
                \cup Axis(s, "S_P", "off-p", "producer", {1, 4, 8}, C2, "compact")
      [] s = "perf" -> Axis(s, s, "off-c", "consumer", {0, 1, 4, 8}, {<<"touch", b, "stream">> : b \in {16, 1700}}, "uniform")
      [] s = "lat" -> Axis(s, LatSweep, "off-c lat-every", "consumer", {0, 1, 4, 8}, {Default}, "uniform")
      [] s = "smoke" ->
            LET C2 == {<<"touch", 1700, m>> : m \in {"stream", "phased"}}
            IN  Axis(s, "S_C", "off-c", "consumer", {0, 1, 8}, C2, "uniform")
                \cup Axis(s, "S_P", "off-p", "producer", {1, 8}, C2, "uniform")
                \cup {Cell(s, "equal", <<"home-extra-c", 1>>, <<1, "consumer", "on", 0>>, Default, "uniform"),
                      Calib(s, "pingpong", "classes")}

ControlCells(s, mirror) ==
    CASE s = "ctl-equal" ->
            {Cell(s, "equal", <<"home-extra-c", 1>>, <<1, "consumer", "on", 0>>, co, "uniform") : co \in Combos4}
      [] s = "ctl-small" ->
            LET C3 == Combos4 \ {<<"touch", 16, "phased">>}
            IN  {Cell(s, "small", <<"base", 0>>, <<0, "-", "base", 0>>, co, "uniform") : co \in C3}
                \cup {Cell(s, "small", <<arm, role, k>>, <<k, role, arm, 0>>, co, "uniform") :
                        arm \in {"on", "off"}, role \in {"consumer", "producer"}, k \in {1, 3, 5}, co \in C3}
      [] s = "ctl-pack" ->
            {Cell(s, "pack", <<"home-c", n>>, <<n, "consumer", "-", 0>>, <<"touch", b, "stream">>, "uniform") :
                n \in 1 .. 6, b \in {16, 1700}}
      [] s = "ctl-mirror" ->
            {Cell(s, "mirror", <<"mirror", mirror, x>>, <<x[1], x[2], "mirror", 0>>, co, "uniform") :
                x \in {<<0, "-">>} \cup ({1, 4, 8} \X {"consumer", "producer"}), co \in Combos4}
      [] s = "ctl-rolesplit" ->
            {Cell(s, "rolesplit", <<arm, IF arm = "mirror" THEN mirror ELSE "none">>, <<5, "consumer", arm, 0>>, co, "uniform") :
                arm \in {"main", "mirror"}, co \in Combos4}

ControlSuites == {"ctl-equal", "ctl-small", "ctl-pack", "ctl-mirror", "ctl-rolesplit"}
MainSuites == {"calib", "main-c", "main-p", "combined", "smt", "layouts", "perf", "lat", "smoke"}

SuiteCells(s, mirror) ==
    IF s \in ControlSuites THEN ControlCells(s, mirror) ELSE MainCells(s)

(* The sweeps derive() looks cells up in, and the labels it does that by:  *)
(* the suite is not one of them, nor is the role or the arm of an S cell.  *)
Searched == {"S_C", "S_P", "small", "rolesplit"}

LookedUp(c) == <<c.sweep, c.k, c.combo,
                 IF c.sweep \in {"small", "rolesplit"} THEN <<c.arm, c.role>> ELSE <<>>>>

-----------------------------------------------------------------------------
(* The cases of private_lifecycle_matrix.py as                              *)
(* <<allocator, consumers, mode, batch, tier, quota>>: the CPUs follow from *)
(* the consumers.                                                          *)
Tiers == {<<"small", 16384>>, <<"bulk", 131072>>}

MatrixCases(suite) ==
    CASE suite = "lifecycle" ->
            {<<x[1], x[2], m[1], m[2], "small", 16384>> :
                x \in ({"mimalloc"} \X {0, 1, 5, 11}) \cup {<<"crt", 5>>},
                m \in {<<"wave", 16384>>} \cup ({"actor", "wave", "private", "private-remote", "tree", "tree-wait"} \X {256})}
      [] suite = "batch" ->
            {<<"mimalloc", n, "private", b, t[1], t[2]>> : n \in {0, 1, 5, 11},
                t \in Tiers \cup {<<"small", 4096>>}, b \in {32, 64, 128, 256, 512, 1024, 4096}}
      [] suite = "child" ->
            {<<"mimalloc", n, m, b, t[1], t[2]>> : n \in {0, 5}, t \in Tiers,
                b \in {256, 1024, 4096}, m \in {"tree", "tree-wait"}}

(* The key results are grouped by: the full identity of the case.          *)
CaseKey(c) == c
=============================================================================
