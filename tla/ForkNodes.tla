------------------------------ MODULE ForkNodes ------------------------------
(***************************************************************************)
(* Nodes: fork, the trampoline, complete and the joins, as a participant   *)
(* runs them.  A frame is a number; the frames of a fork are freed by its  *)
(* join, those of a root by who submitted it.                              *)
(***************************************************************************)
EXTENDS StealDeque, SequencesExt

CONSTANTS
    MaxKids,    (* children of one fork                                     *)
    MaxWork,    (* bound on the roots and the forks of a behaviour          *)
    LeafFrees   (* a detached root that forks nothing frees its own frame   *)

ASSUME BoundsAssumption == MaxKids \in Nat \ {0} /\ MaxWork \in Nat /\ LeafFrees \in BOOLEAN

VARIABLES
    live,       (* allocated frames                                         *)
    parent, pending,   (* Node.parent and Node.pending                      *)
    kids,       (* the children a frame's join waits for                    *)
    sentinels,  (* frames that are a RootWait, a RootCompletion, a TaskGroup*)
    done,       (* sentinels whose join has run                             *)
    rootsLive,  (* g_rootsLive                                              *)
    stack,      (* what p runs inline after its present chain               *)
    ret,        (* where a wake or a publication returns to                 *)
    mode,       (* why the participant takes steps                          *)
    work        (* roots and forks so far                                   *)

nodeVars == <<live, parent, pending, kids, sentinels, done, rootsLive, work>>
chainVars == <<stack, ret, mode>>

(* Stack entry of forkSlow: wake somebody before the last child runs.      *)
Wake == MaxFrames + 1

NodeInit ==
    /\ live = {} /\ sentinels = {} /\ done = {}
    /\ parent = [f \in Frames |-> None]
    /\ pending = [f \in Frames |-> 0]
    /\ kids = [f \in Frames |-> {}]
    /\ rootsLive = 0 /\ work = 0
    /\ stack = [p \in Participants |-> <<>>]

(* The first n of the frames in fs, in the order they are handed out.      *)
Lowest(fs, n) == [i \in 1 .. n |-> CHOOSE f \in fs : Cardinality({g \in fs : g < f}) = i - 1]

(* Frames to allocate.                                                     *)
Fresh == Lowest(Frames \ live, Cardinality(Frames \ live))

(* freeFrame links the frames fs into a free list by their first word.     *)
Unlinked(fs) == [f \in Frames |-> IF f \notin fs THEN parent[f]
                                  ELSE IF Fresh = <<>> THEN None ELSE Fresh[1]]

-----------------------------------------------------------------------------
(* The trampoline goes on with what is left inline, s.                     *)
Onward(p, s) ==
    IF s = <<>>
    THEN Goto(p, "found") /\ stack' = Set(stack, p, s) /\ UNCHANGED <<cur, ret>>
    ELSE /\ stack' = Set(stack, p, Tail(s))
         /\ IF Head(s) = Wake
            THEN Goto(p, "scan") /\ ret' = Set(ret, p, "next") /\ UNCHANGED cur
            ELSE Goto(p, "run") /\ cur' = Set(cur, p, Head(s)) /\ UNCHANGED ret

(* After a wake.                                                           *)
AfterWake(p) ==
    /\ At(p, "next")
    /\ Onward(p, stack[p])
    /\ UNCHANGED <<memoryVars, reg, nodeVars, mode>>

(* fork: the last child goes on, the others to the deque, and what it      *)
(* refuses, or all with one participant, runs first.  A push onto an empty *)
(* deque wakes somebody.                                                   *)
Fork(p, n, xs) ==
    LET deferred == Front(xs)
        solo == Cardinality(Participants) = 1
        pushed == IF solo THEN 0 ELSE Fitting(p, deferred)
        wake == IF pushed > 0 /\ WasEmpty(p) THEN <<Wake>> ELSE <<>>
    IN  /\ pending' = Set(pending, n, Len(xs))
        /\ kids' = Set(kids, n, Range(xs))
        /\ IF solo THEN UNCHANGED <<own, buffer>> ELSE PushAll(p, deferred)
        /\ Onward(p, SubSeq(deferred, pushed + 1, Len(deferred))
                        \o wake \o <<Last(xs)>> \o stack[p])
        /\ work' = work + 1
        /\ UNCHANGED <<top, bottom, cell, farm, lock, reg, sentinels, done, rootsLive, mode>>

(* The node at hand forks k children, from its run or again from its join, *)
(* which has freed those it had.                                           *)
ForkOf(p, k) ==
    LET n == cur[p]
        kept == live \ kids[n]
        xs == Lowest(Frames \ kept, k)
    IN  /\ k <= Cardinality(Frames \ kept)
        /\ live' = kept \cup Range(xs)
        /\ parent' = [f \in Frames |-> IF f \in Range(xs) THEN n
                                       ELSE Unlinked(kids[n] \ Range(xs))[f]]
        /\ Fork(p, n, xs)

RunFork(p) ==
    /\ At(p, "run") \/ (At(p, "join") /\ cur[p] \notin sentinels)
    /\ work < MaxWork
    /\ \E k \in 1 .. MaxKids : ForkOf(p, k)

-----------------------------------------------------------------------------
(* complete: a leaf, or a node whose join has run, counts down its parent. *)

(* A detached root that forks nothing may release its frame in its run,    *)
(* before it calls complete, for its join is never called.                 *)
RunDetached(p) ==
    /\ At(p, "run") /\ parent[cur[p]] = None
    /\ LET gone == IF LeafFrees THEN {cur[p]} ELSE {} IN
        /\ live' = live \ gone
        /\ parent' = Unlinked(gone)
    /\ Goto(p, "complete")
    /\ UNCHANGED <<memoryVars, cur, reg, pending, kids, sentinels, done, rootsLive, work, chainVars>>

(* Who lowers pending to zero runs the join.                               *)
LastChild(f) == pending[f] = 1

Lower(p) ==
    /\ \/ At(p, "run") /\ parent[cur[p]] # None
       \/ pc[p] \in {"complete", "lower"}
    /\ Drained(p)
    /\ LET q == IF At(p, "lower") THEN cur[p] ELSE parent[cur[p]] IN
       IF q = None
       THEN rootsLive' = rootsLive - 1 /\ Onward(p, stack[p]) /\ UNCHANGED pending
       ELSE /\ pending' = [pending EXCEPT ![q] = @ - 1]
            /\ IF LastChild(q)
               THEN cur' = Set(cur, p, q) /\ Goto(p, "join") /\ UNCHANGED <<stack, ret>>
               ELSE Onward(p, stack[p])
            /\ UNCHANGED rootsLive
    /\ UNCHANGED <<memoryVars, reg, live, parent, kids, sentinels, done, work, mode>>

(* What the join of the frame f frees: a node its children, and a detached *)
(* root itself too.  A sentinel's belong to who waits.                     *)
Freed(f) == IF f \in sentinels THEN {}
            ELSE kids[f] \cup IF parent[f] = None THEN {f} ELSE {}

(* Variant of Grandparent: read after the join.                            *)
GrandparentAfter(p) == parent'[cur[p]]

(* Read before the join, which may be the end of the frame.                *)
Grandparent(p) == parent[cur[p]]

(* A join that forks nothing; that of a sentinel tells who waits.          *)
Join(p) ==
    /\ At(p, "join")
    /\ LET f == cur[p] IN
        /\ done' = IF f \in sentinels THEN done \cup {f} ELSE done
        /\ live' = live \ Freed(f)
        /\ parent' = Unlinked(Freed(f))
        /\ kids' = IF f \in sentinels THEN kids ELSE Set(kids, f, {})
    /\ cur' = Set(cur, p, Grandparent(p))
    /\ Goto(p, "lower")
    /\ UNCHANGED <<memoryVars, reg, pending, sentinels, rootsLive, work, chainVars>>

NodeNext(p) == AfterWake(p) \/ RunFork(p) \/ RunDetached(p) \/ Lower(p) \/ Join(p)
=============================================================================
