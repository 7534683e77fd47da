---------------------------- MODULE MCPerfTools ----------------------------
(* Small instances of the measurement tools.                               *)
EXTENDS PerfTools

MCArguments ==
    [threads : {{2, 6, 16}, {2, 3, 4}}, dual : {{1, 6}, {2}}, tail : {{2, 6}}, private : {{0, 6}},
     cpus : {4, 16}]

MCHost(cpus, groups) ==
    [pkg : [cpus -> 0 .. 1], core : [cpus -> 0 .. 1], groups : groups]
MCHosts ==
    MCHost(0 .. 3, {{}, {0 .. 3}, {{0, 1}, {2, 3}}, {{0, 2}, {1, 3}}, {{0}, {1, 2, 3}}})
    \cup MCHost({0, 1, 3, 4}, {{{0, 3}, {1, 4}}})

MCReportCells == <<"tail", "st", "mt">>
MCParser == [tail |-> "tail", st |-> "dub_fiber", mt |-> "dub_fiber"]
MCReportArgs ==
    {[runs |-> 1, six |-> 0, resume |-> TRUE, fake |-> TRUE],
     [runs |-> 1, six |-> 2, resume |-> TRUE, fake |-> FALSE],
     [runs |-> 1, six |-> 0, resume |-> FALSE, fake |-> FALSE]}
MCPrinted ==
    [mt |-> {{<<FALSE, "total">>, <<TRUE, "total">>, <<FALSE, "workers">>},
             {<<FALSE, "total">>, <<FALSE, "workers">>}},
     st |-> {{<<FALSE, "run">>}},
     tail |-> {{"scene", "p99"}, {"scene"}}]

MCModes == <<"actor", "cancel">>
MCSplitCells == <<"headline", "split">>
MCPartsOf == [headline |-> 1, split |-> 2]
MCResults ==
    {[plan |-> "one", rate |-> 1, scope |-> "process"], [plan |-> "one", rate |-> 2, scope |-> "process"],
     [plan |-> "two", rate |-> 1, scope |-> "process"], [plan |-> "one", rate |-> 1, scope |-> "host"]}
MCOtherRows ==
    {<<>>, <<Row("counted", "ok", "one", 1, "process")>>,
     <<Without("counted", "invalid"), Row("counted", "ok", "two", 2, "host")>>}
=============================================================================
