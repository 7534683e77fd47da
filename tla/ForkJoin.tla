------------------------------ MODULE ForkJoin ------------------------------
(***************************************************************************)
(* The fork-join dispatcher: participants with their deques, submitters,   *)
(* parked workers and stop, and what holds of the tasks meanwhile.         *)
(***************************************************************************)
EXTENDS ForkRoots

Init == MemoryInit /\ NodeInit /\ RootInit

Participates(p) ==
    \/ ((Pop(p) /\ Again(p)) \/ DequeNext(p)) /\ UNCHANGED <<nodeVars, chainVars, parkVars, group>>
    \/ NodeNext(p) /\ UNCHANGED <<parkVars, group>>
    \/ Popped(p) \/ PollFarm(p)

Flushes(t) == Drain(t) /\ UNCHANGED <<nodeVars, chainVars, parkVars, group>>

Next ==
    \/ \E t \in Threads : Flushes(t) \/ RootNext(t)
    \/ \E p \in Participants : Participates(p)
    \/ \E w \in Workers : WorkerNext(w)
    \/ \E u \in Submitters : SubmitterNext(u)
    \/ RunRoot \/ Stop \/ Leave

Spec == Init /\ [][Next]_vars

-----------------------------------------------------------------------------
(* Where a frame is.                                                       *)

(* The indices the deque of p holds; a pop under way holds the last one.   *)
Held(p) == top[p] .. own[p] - IF pc[p] \in {"popTop", "popLast"} THEN 0 ELSE 1

(* The node at index i, the owner's stores under way included.             *)
Item(p, i) ==
    LET late == {k \in DOMAIN buffer[p] : buffer[p][k].word = "cell" /\ buffer[p][k].at = i}
    IN  IF late = {} THEN cell[p][i % Cap] ELSE buffer[p][CHOOSE k \in late : TRUE].val

(* The places where the frame f waits to run, runs, or waits for children. *)
Places(f) ==
    UNION {{<<p, "deque", i>> : i \in {j \in Held(p) : Item(p, j) = f}} : p \in Participants}
    \cup UNION {{<<p, "stack", i>> : i \in {j \in DOMAIN stack[p] : stack[p][j] = f}} : p \in Participants}
    \cup UNION {{<<t, "farm", i>> : i \in {j \in DOMAIN buffer[t] :
                      buffer[t][j].word = "farm" /\ buffer[t][j].val = f}} : t \in Threads}
    \cup {<<t, "hand", 0>> : t \in {s \in Threads :
            cur[s] = f /\ pc[s] \in {"run", "popped", "lock", "write", "again", "wakeAgain"}}}
    \cup (IF f \in farm THEN {<<Caller, "published", 0>>} ELSE {})
    \cup (IF kids[f] # {} THEN {<<Caller, "forked", 0>>} ELSE {})

Tasks == live \ sentinels

(* Threads about to lower the pending count of f.                          *)
Lowering(f) ==
    {p \in Participants : At(p, "lower") /\ cur[p] = f}

(* The count an open TaskGroup holds itself.                               *)
Opened(f) ==
    {u \in Submitters : group[u] = f /\ ret[u] = "open"
        /\ pc[u] \in {"lock", "write", "again", "wakeAgain", "scan", "wake", "open"}}

-----------------------------------------------------------------------------
(* A task is in one place only, whoever pops, steals, polls, spills or     *)
(* runs it inline: nobody runs a node twice.  And stop, whose workers have *)
(* drained the deques, leaves it in none.                                  *)
TakenOnce ==
    /\ \A f \in Tasks : Cardinality(Places(f)) <= 1
    /\ At(Caller, "left") => \A f \in Frames : Places(f) = {}

(* A join's count is the children that are somewhere, and those just       *)
(* finished: no child is lost, and none is counted twice.                  *)
JoinsCounted ==
    \A f \in live : kids[f] # {} =>
        pending[f] = Cardinality({k \in kids[f] : Places(k) # {}})
                     + Cardinality(Lowering(f)) + Cardinality(Opened(f))

(* Nobody holds or reaches a frame that was freed: complete reads nothing  *)
(* of a parent after its join, and who waits releases no child at work.    *)
(* It holds where joins and waiters free frames; ForkFrees refutes it for  *)
(* a detached root that frees its own before complete, as submitDetached   *)
(* asks.                                                                   *)
FramesAlive ==
    /\ \A f \in Frames \ live : Places(f) = {} /\ Lowering(f) = {}
    /\ \A p \in Participants : At(p, "join") => cur[p] \in live
    /\ \A f \in Tasks : Places(f) # {} => parent[f] \in live \cup {None}

(* While a root waits in the Farm, not every worker sleeps, unless who     *)
(* published it, or who has a worker's bit, has yet to wake one.           *)
Asleep(w) == At(w, "asleep") /\ word[w]

RootSeen ==
    farm # {} => \/ \E w \in Workers : ~Asleep(w)
                 \/ \E u \in Submitters : At(u, "scan")
                 \/ \E t \in Threads : pc[t] \in {"wake", "wakeAgain"}
=============================================================================
