------------------------------ MODULE CpuTree -------------------------------
(***************************************************************************)
(* Processor topology as the measurement tools see it: the sysfs tree that *)
(* run_performance_md.py derives from /proc/cpuinfo, the placement order   *)
(* read back from such a tree, and the split of threads over last-level    *)
(* cache groups of llc_split.py.  A host is a record                       *)
(*   [pkg, core: CPU -> Nat, groups: a partition of the CPUs or {}],       *)
(* `groups` being l3_groups, {} when the plan is given none.               *)
(***************************************************************************)
EXTENDS Integers, Sequences, FiniteSets, SequencesExt, FiniteSetsExt

Sorted(S) == SetToSortSeq(S, LAMBDA a, b : a < b)

(* A compact CPU list: the runs of consecutive CPUs as <<first, last>>.     *)
Extends(out, cpu) == out # <<>> /\ cpu = Last(out)[2] + 1

AddCpu(out, cpu) ==
    IF Extends(out, cpu) THEN Front(out) \o <<<<Last(out)[1], cpu>>>> ELSE out \o <<<<cpu, cpu>>>>

FormatCpuList(cpus) == FoldLeft(AddCpu, <<>>, Sorted(cpus))

(* The CPUs a list names, as online_cpus reads it.                         *)
OnlineCpus(list) == UNION {list[i][1] .. list[i][2] : i \in DOMAIN list}

CpusOf(host) == DOMAIN host.core

(* SMT siblings share the package and the core id.                         *)
Siblings(host, c) == {d \in CpusOf(host) : host.pkg[d] = host.pkg[c] /\ host.core[d] = host.core[c]}

(* The CPUs that share the L3 of `c`: its explicit group, or all.          *)
SharedL3(host, c) ==
    IF host.groups = {} THEN CpusOf(host) ELSE CHOOSE g \in host.groups : c \in g

(* The planned files that cpu_order and llc_groups read back.              *)
FakeTopologyPlan(host) ==
    [online |-> FormatCpuList(CpusOf(host)),
     cpu |-> [c \in CpusOf(host) |->
                [core |-> host.core[c],
                 siblings |-> FormatCpuList(Siblings(host, c)),
                 l3 |-> FormatCpuList(SharedL3(host, c))]]]

(* The text of a CPU's L3 list, "all" (here no text) without the file;     *)
(* os.cpu_count and the numbers the tools try.                             *)
L3(tree, c) == IF c \in DOMAIN tree.cpu THEN tree.cpu[c].l3 ELSE <<>>
CpuCount(tree) == Cardinality(DOMAIN tree.cpu)
Numbers(tree) == 0 .. CpuCount(tree) - 1
NumericOrder(tree) == Sorted(Numbers(tree))

(* CPUs by the text of their L3 list, groups by their lowest CPU.           *)
GroupOf(tree, c) == {d \in DOMAIN tree.cpu : L3(tree, d) = L3(tree, c)}
Groups(tree) == SetToSortSeq({GroupOf(tree, c) : c \in DOMAIN tree.cpu}, LAMBDA g, h : Min(g) < Min(h))

(* The lowest CPU of each core of a group.                                 *)
Primaries(tree, g) ==
    {c \in g : \A d \in g : tree.cpu[d].core = tree.cpu[c].core => c <= d}

(* Group by group, one CPU per core before the siblings.                   *)
GroupedOrder(tree) ==
    FlattenSeq([i \in DOMAIN Groups(tree) |->
        LET g == Groups(tree)[i]
            p == Primaries(tree, g)
        IN  Sorted(p) \o Sorted(g \ p)])

(* Placement order: numeric as soon as a number has no directory, which is *)
(* so on every host with a gap in its CPU numbers.                         *)
CpuOrder(tree) ==
    IF Numbers(tree) \subseteq DOMAIN tree.cpu /\ Len(GroupedOrder(tree)) = CpuCount(tree)
    THEN GroupedOrder(tree)
    ELSE NumericOrder(tree)

(* llc_groups: the order's CPUs by the text of their L3 list, in order of  *)
(* first appearance.                                                       *)
Join(tree, groups, c) ==
    LET same == {i \in DOMAIN groups : L3(tree, Head(groups[i])) = L3(tree, c)}
    IN  IF same = {} THEN Append(groups, <<c>>)
        ELSE [groups EXCEPT ![Min(same)] = Append(@, c)]

LlcGroups(tree) == FoldLeft(LAMBDA groups, c : Join(tree, groups, c), <<>>, CpuOrder(tree))

(* The shares of `threads` over the groups: one group when it holds them   *)
(* all, otherwise an even split over the fewest that do.                   *)
CeilDiv(a, b) == (a + b - 1) \div b
(* Mutant: rounded down, and one more.                                     *)
NeededAndOne(threads, groups) == Min({Len(groups), 1 + threads \div Len(groups[1])})

Needed(threads, groups) == Min({Len(groups), CeilDiv(threads, Len(groups[1]))})

Split(threads, groups) ==
    LET need == Needed(threads, groups)
        extra == threads % need
    IN  [i \in 1 .. need |->
            [share |-> (threads \div need) + (IF i - 1 < extra THEN 1 ELSE 0), cpus |-> groups[i]]]

(* The CPUs each part of a per-llc sample is confined to: its share's      *)
(* first CPUs when they fit, else the whole group.                         *)
PartsFor(layout, threads, groups) ==
    IF layout = "headline"
    THEN <<[threads |-> threads, cpus |-> {}]>>
    ELSE [i \in DOMAIN Split(threads, groups) |->
            LET p == Split(threads, groups)[i]
            IN  [threads |-> p.share,
                 cpus |-> IF p.share <= Len(p.cpus)
                          THEN {p.cpus[j] : j \in 1 .. p.share}
                          ELSE {p.cpus[j] : j \in 1 .. Len(p.cpus)}]]
=============================================================================
