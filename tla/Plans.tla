------------------------------- MODULE Plans --------------------------------
(***************************************************************************)
(* What the tools work out before they run anything, for one command line  *)
(* and one host: `plan` is chosen once and never changes.                  *)
(***************************************************************************)
EXTENDS CellMatrix, CpuTree

CONSTANTS Arguments,   \* thread counts and CPU counts of command lines
          Hosts,       \* processors
          ThreadCounts \* thread counts to split over cache groups

VARIABLE plan

NoPlan == [kind |-> "none"]

PlanCases == [kind : {"cases"}, section : AllSections, args : Arguments]
PlanSuites == [kind : {"suites"}, topo : [single : BOOLEAN, remote : {1, 2}]]
PlanMatrix == [kind : {"matrix"}, suite : {"lifecycle", "batch", "child"}]
PlanHost == [kind : {"host"}, host : Hosts, threads : ThreadCounts]

AllPlans == PlanCases \cup PlanSuites \cup PlanMatrix \cup PlanHost

-----------------------------------------------------------------------------
Distinct(S, Key(_)) == \A c, d \in S : Key(c) = Key(d) => c = d

CellsOfSuites(mirror) == UNION {SuiteCells(s, mirror) : s \in MainSuites \cup ControlSuites}

(* A result is filed under a key that stands for one command: two cases of *)
(* a report section never share a name, two cells of a sweep never share   *)
(* an id, cells of different suites that derive() may take for each other  *)
(* run the same driver arguments, and a case of the lifecycle matrix is    *)
(* grouped with nothing but its own repeats.                               *)
KeysDistinct ==
    CASE plan.kind = "cases" -> Distinct(CasesFor(plan.section, plan.args), LAMBDA c : c.name)
      [] plan.kind = "suites" ->
            LET cells == CellsOfSuites(MirrorGroup(plan.topo))
                found == {c \in cells : c.sweep \in Searched}
            IN  /\ Distinct(cells, LAMBDA c : c.id)
                /\ \A c, d \in found : LookedUp(c) = LookedUp(d) => c.args = d.args
      [] plan.kind = "matrix" -> Distinct(MatrixCases(plan.suite), LAMBDA c : CaseKey(c))
      [] OTHER -> TRUE

-----------------------------------------------------------------------------
(* Siblings of one core, in one package and one cache group; one cache     *)
(* group, or groups that no package spans.                                 *)
RealHost(h) ==
    /\ h.groups = {} => \A c, d \in CpusOf(h) : h.pkg[c] = h.pkg[d]
    /\ \A g \in h.groups : \A c \in g, d \in CpusOf(h) :
          /\ d \in g => h.pkg[c] = h.pkg[d]
          /\ d \in Siblings(h, c) => d \in g

(* A compact list names exactly its CPUs, in separate runs.                *)
ListExact(S) ==
    LET list == FormatCpuList(S)
    IN  /\ OnlineCpus(list) = S
        /\ \A i \in 1 .. Len(list) - 1 : list[i + 1][1] > list[i][2] + 1

(* The order names each of 0, 1, ... once.  On a host without a gap in its *)
(* CPU numbers it is one cache group after the other, and in a group no    *)
(* core is repeated before every core has been named once; on one with a   *)
(* gap it is numeric and may name a CPU the host does not have.            *)
OrderSound(tree, order) ==
    LET Same(i, j) == GroupOf(tree, order[i]) = GroupOf(tree, order[j])
        IsSibling(j) == \E i \in 1 .. j - 1 :
                        Same(i, j) /\ tree.cpu[order[i]].siblings = tree.cpu[order[j]].siblings
    IN  /\ Len(order) = CpuCount(tree)
        /\ {order[i] : i \in DOMAIN order} = Numbers(tree)
        /\ IF DOMAIN tree.cpu = Numbers(tree)
           THEN /\ \A i, j, k \in DOMAIN order : i < j /\ j < k /\ Same(i, k) => Same(i, j)
                /\ \A i, j \in DOMAIN order : i < j /\ Same(i, j) /\ IsSibling(i) => IsSibling(j)
           ELSE \A i \in DOMAIN order : order[i] = i - 1

(* The groups threads are split over part the order, each keeps it, and    *)
(* they are sorted by their lowest CPU.                                    *)
GroupsSound(order, groups) ==
    /\ UNION {ToSet(groups[i]) : i \in DOMAIN groups} = ToSet(order)
    /\ FoldLeft(LAMBDA n, g : n + Len(g), 0, groups) = Len(order)
    /\ \A i \in DOMAIN groups : groups[i] = SelectSeq(order, LAMBDA c : c \in ToSet(groups[i]))
    /\ \A i, j \in DOMAIN groups : i < j => Min(ToSet(groups[i])) < Min(ToSet(groups[j]))

(* Every thread is placed, over the fewest groups that hold them, evenly,  *)
(* and no CPU belongs to two parts.                                        *)
SplitSound(threads, groups) ==
    LET shares == Split(threads, groups)
        parts == PartsFor("per-llc", threads, groups)
        Fits(n) == n * Len(groups[1]) >= threads
    IN  /\ FoldLeft(LAMBDA n, p : n + p.share, 0, shares) = threads
        /\ \A i, j \in DOMAIN shares : shares[i].share <= shares[j].share + 1
        /\ Fits(Len(shares)) \/ Len(shares) = Len(groups)
        /\ ~ Fits(Len(shares) - 1)
        /\ \A i, j \in DOMAIN parts : i # j => parts[i].cpus \cap parts[j].cpus = {}
        /\ Fits(Len(groups)) => \A i \in DOMAIN parts : Cardinality(parts[i].cpus) = parts[i].threads

(* The tree made from /proc/cpuinfo describes the host, the placement      *)
(* order read from it is sound, and a split over equal groups neither      *)
(* loses nor overlaps.                                                     *)
PlacementSound ==
    plan.kind = "host" =>
        LET h == plan.host
            tree == FakeTopologyPlan(h)
            groups == LlcGroups(tree)
        IN  /\ ListExact(CpusOf(h))
            /\ \A c \in CpusOf(h) : ListExact(Siblings(h, c)) /\ ListExact(SharedL3(h, c))
            /\ RealHost(h) => OrderSound(tree, CpuOrder(tree)) /\ GroupsSound(CpuOrder(tree), groups)
            /\ (\A i, j \in DOMAIN groups : Len(groups[i]) = Len(groups[j])) =>
                    SplitSound(plan.threads, groups)

(* Whatever is asked for, results are filed under keys that stand for one  *)
(* command; on whatever host, commands are placed on as many CPU numbers   *)
(* as it has CPUs, each used once, and these are its CPUs, cache group by  *)
(* cache group and core by core, when the host numbers them without a gap. *)
(* cases_for, cell and cpu_order of the tools.                             *)
PlansSound == KeysDistinct /\ PlacementSound
=============================================================================
