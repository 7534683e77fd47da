-------------------------- MODULE ForkJoin_proofs ---------------------------
(***************************************************************************)
(* For any number of workers and submitters, any deques and any frames,    *)
(* over the store buffers of x86.                                          *)
(*                                                                         *)
(* No published root is slept through: a worker arms its word and its bit  *)
(* before it looks at the Farm a last time, and who publishes drains its   *)
(* stores before it looks at the bits.                                     *)
(*                                                                         *)
(* Every node a deque holds is handed to one thread: the owner's pop       *)
(* exchanges bottom before it reads top, a thief reads top, then bottom,   *)
(* then the cell, and the last node is whose top moves first.              *)
(***************************************************************************)
EXTENDS ForkJoin, FiniteSetTheorems, SequenceTheorems, TLAPS

-----------------------------------------------------------------------------
(* The inductive invariant.                                                *)

Val == Frames \cup {None}
OwnStores == [word : {"cell", "bottom"}, at : Int, val : Val]
RootStores == [word : {"farm", "unlock"}, at : {0}, val : Val]

(* A participant's buffer holds stores to its deque, a submitter's a root  *)
(* and the unlock after it.                                                *)
MemoryInv ==
    /\ top \in [Participants -> Int]
    /\ own \in [Participants -> Int]
    /\ DOMAIN buffer = Threads
    /\ \A p \in Participants : buffer[p] \in Seq(OwnStores)
    /\ \A u \in Submitters : buffer[u] \in Seq(RootStores)

(* The variables that speak of threads do so of every thread.              *)
Shapes ==
    /\ DOMAIN pc = Threads /\ DOMAIN mode = Threads /\ DOMAIN ret = Threads
    /\ DOMAIN cur = Threads /\ DOMAIN reg = Threads
    /\ \A t \in Threads : "v" \in DOMAIN reg[t]
    /\ DOMAIN word = Workers /\ armed \subseteq Workers

(* A thread that has taken a bit holds a worker's.                         *)
Wakes == {"wake", "wakeAgain"}
Waking(t) == pc[t] \in Wakes

Control(t) ==
    /\ t \in Participants => ret[t] \in {"idle", "next"} /\ pc[t] # "waiting"
    /\ t \in Submitters => ret[t] \in {"idle", "open", "waiting"} /\ cur[t] \in Val
    /\ t \in Workers => mode[t] \in {"spin", "recheck"} /\ (At(t, "asleep") => mode[t] = "recheck")
    /\ Waking(t) => reg[t].v \in Workers

(* A root's write waits in its buffer only while who wrote it has yet to   *)
(* look at the bits: the fence of publishRoot.                             *)
RootsLate ==
    \A u \in Submitters : ~At(u, "scan") => \A k \in DOMAIN buffer[u] : buffer[u][k].word = "unlock"

(* A worker that looks once more, or sleeps, with its word armed has its   *)
(* bit set, unless a thread has taken the bit and is to clear the word.    *)
Armed(w) == word[w] /\ mode[w] = "recheck" /\ ~At(w, "disarm")
BitKept == \A w \in Workers : Armed(w) => w \in armed \/ \E t \in Threads : Waking(t) /\ reg[t].v = w

(* A worker that has looked at the Farm since it armed, and goes to sleep. *)
Looks == {"steal", "stealBottom", "stealCell", "stealTop", "missed", "asleep"}
Settled(w) == word[w] /\ mode[w] = "recheck" /\ pc[w] \in Looks

Watched ==
    \/ \E w \in Workers : ~Settled(w)
    \/ \E u \in Submitters : At(u, "scan")
    \/ \E t \in Threads : Waking(t)

SeenInv == Workers # {} /\ farm # {} => Watched

ThreadInv == Shapes /\ (\A t \in Threads : Control(t))
ParkInv == RootsLate /\ BitKept /\ SeenInv
Inv == MemoryInv /\ ThreadInv /\ ParkInv

LEMMA Basics ==
    /\ Caller \in Participants /\ Caller \in Threads /\ Caller \notin Workers
    /\ Workers \subseteq Participants /\ Workers \subseteq Threads
    /\ Participants \subseteq Threads /\ Submitters \subseteq Threads
    /\ Participants \cap Submitters = {}
    /\ Threads = Participants \cup Submitters
    /\ Participants = Workers \cup {Caller}
    /\ Cap \in Nat \ {0} /\ IsFiniteSet(Frames) /\ Frames \subseteq Int
  BY DequeAssumption, FS_Interval DEF Participants, Threads, Frames

-----------------------------------------------------------------------------
(* The frames an allocation hands out.                                     *)

(* The frames that Lowest hands out are different ones of the set.         *)
LEMMA LowestFrames ==
    ASSUME NEW fs \in SUBSET Frames, NEW n \in 0 .. Cardinality(fs)
    PROVE  /\ Lowest(fs, n) \in Seq(fs) /\ Len(Lowest(fs, n)) = n
           /\ \A i, j \in 1 .. n : Lowest(fs, n)[i] = Lowest(fs, n)[j] => i = j
<1> DEFINE N == Cardinality(fs)
           Below(f) == {g \in fs : g < f}
           rank == [f \in fs |-> Cardinality(Below(f))]
<1>1. IsFiniteSet(fs) /\ N \in Nat
  BY Basics, FS_Subset, FS_CardinalityType
<1>2. ASSUME NEW f \in fs PROVE IsFiniteSet(Below(f)) /\ rank[f] \in 0 .. N - 1
  <2>1. Below(f) \in SUBSET (fs \ {f})
    BY Basics
  <2>2. IsFiniteSet(fs \ {f}) /\ Cardinality(fs \ {f}) = N - 1
    BY <1>1, FS_RemoveElement
  <2>3. IsFiniteSet(Below(f)) /\ Cardinality(Below(f)) <= N - 1
    BY <2>1, <2>2, FS_Subset
  <2>4. QED
    BY <1>1, <2>3, FS_CardinalityType
<1>3. ASSUME NEW f \in fs, NEW h \in fs, f < h PROVE rank[f] # rank[h]
  <2>1. Below(f) \cup {f} \in SUBSET Below(h) /\ f \notin Below(f)
    <3>1. \A g \in fs : g \in Int
      BY Basics
    <3>2. \A g \in fs : g < f => g < h
      BY <3>1, <1>3
    <3>3. ~ (f < f)
      BY <3>1
    <3>4. QED
      BY <3>2, <3>3, <1>3
  <2>2. IsFiniteSet(Below(f)) /\ IsFiniteSet(Below(h))
    BY <1>2
  <2>3. Cardinality(Below(f) \cup {f}) = Cardinality(Below(f)) + 1
    BY <2>1, <2>2, FS_AddElement
  <2>4. Cardinality(Below(f)) + 1 <= Cardinality(Below(h))
    BY <2>1, <2>2, <2>3, FS_Subset
  <2>5. Cardinality(Below(f)) \in Nat /\ Cardinality(Below(h)) \in Nat
    BY <2>2, FS_CardinalityType
  <2>6. QED
    BY <2>4, <2>5
<1>4. rank \in Injection(fs, 0 .. N - 1)
  <2>1. rank \in [fs -> 0 .. N - 1]
    BY <1>2
  <2>2. \A f, h \in fs : rank[f] = rank[h] => f = h
    BY <1>3, Basics
  <2> HIDE DEF rank
  <2>3. QED
    BY <2>1, <2>2 DEF Injection, IsInjective
<1>5. IsFiniteSet(0 .. N - 1) /\ Cardinality(0 .. N - 1) = N
  <2> HIDE DEF N
  <2>1. 0 \in Int /\ N - 1 \in Int /\ (0 > N - 1 => N = 0)
    BY <1>1
  <2>2. QED
    BY <1>1, <2>1, FS_Interval
<1>6. rank \in Surjection(fs, 0 .. N - 1)
  <2> DEFINE T == 0 .. N - 1
  <2>1. rank \in Injection(fs, T) /\ IsFiniteSet(T) /\ Cardinality(fs) = Cardinality(T)
    BY <1>4, <1>5
  <2> HIDE DEF rank, T
  <2>2. rank \in Surjection(fs, T)
    BY <2>1, FS_Injection
  <2>3. QED
    BY <2>2 DEF T
<1>7. ASSUME NEW i \in 1 .. n
      PROVE  /\ Lowest(fs, n)[i] \in fs
             /\ Cardinality(Below(Lowest(fs, n)[i])) = i - 1
  <2>1. \E f \in fs : rank[f] = i - 1
    <3>1. i - 1 \in 0 .. N - 1
      BY <1>1
    <3> HIDE DEF rank
    <3>2. QED
      BY <3>1, <1>6 DEF Surjection
  <2>2. \E f \in fs : Cardinality(Below(f)) = i - 1
    BY <2>1
  <2>3. Lowest(fs, n)[i] = CHOOSE f \in fs : Cardinality(Below(f)) = i - 1
    BY DEF Lowest
  <2>4. QED
    BY <2>2, <2>3
<1>8. DOMAIN Lowest(fs, n) = 1 .. n /\ n \in Nat
  BY <1>1 DEF Lowest
<1>9. Lowest(fs, n) \in [1 .. n -> fs]
  <2> DEFINE pick(i) == CHOOSE f \in fs : Cardinality(Below(f)) = i - 1
  <2>1. \A i \in 1 .. n : pick(i) \in fs
    BY <1>7 DEF Lowest
  <2>2. Lowest(fs, n) = [i \in 1 .. n |-> pick(i)]
    BY DEF Lowest
  <2> HIDE DEF pick
  <2>3. QED
    BY <2>1, <2>2
<1>10. \A i, j \in 1 .. n : Lowest(fs, n)[i] = Lowest(fs, n)[j] => i = j
  <2>1. SUFFICES ASSUME NEW i \in 1 .. n, NEW j \in 1 .. n, Lowest(fs, n)[i] = Lowest(fs, n)[j]
                 PROVE  i = j
    OBVIOUS
  <2>2. i - 1 = j - 1
    BY <1>7, <2>1
  <2>3. QED
    BY <2>2, <1>8
<1>11. Lowest(fs, n) \in Seq(fs) /\ Len(Lowest(fs, n)) = n
  <2> DEFINE L == Lowest(fs, n)
  <2>2. L \in [1 .. n -> fs]
    BY <1>9
  <2> HIDE DEF L
  <2>3. L \in Seq(fs)
    BY <2>2, <1>8, SeqDef
  <2>4. Len(L) = n
    BY <2>3, <2>2, <1>8, LenProperties
  <2>5. QED
    BY <2>3, <2>4 DEF L
<1>12. QED
  BY <1>10, <1>11

(* The free frames.                                                        *)
LEMMA FreshFrames ==
    /\ Fresh \in Seq(Frames \ live)
    /\ \A i, j \in 1 .. Len(Fresh) : Fresh[i] = Fresh[j] => i = j
<1>1. Frames \ live \in SUBSET Frames /\ IsFiniteSet(Frames \ live)
  BY Basics, FS_Subset
<1>2. Cardinality(Frames \ live) \in 0 .. Cardinality(Frames \ live)
  BY <1>1, FS_CardinalityType
<1>3. QED
  BY <1>1, <1>2, LowestFrames DEF Fresh

-----------------------------------------------------------------------------
(* Steps that park and wake nobody.                                        *)

(* Nothing of the other threads changes, nor what parks; a worker comes to *)
(* the end of its looking only when the Farm is empty.                     *)
Private(t) ==
    /\ t \in Threads
    /\ Shapes'
    /\ \A s \in Threads \ {t} : /\ pc'[s] = pc[s] /\ mode'[s] = mode[s] /\ ret'[s] = ret[s]
                                /\ reg'[s] = reg[s] /\ cur'[s] = cur[s] /\ buffer'[s] = buffer[s]
    /\ pc[t] \notin Wakes \cup {"scan", "disarm"} /\ pc'[t] \notin Wakes
    /\ t \in Participants => pc'[t] # "waiting" /\ ret'[t] \in {ret[t], "next"}
                             /\ pc'[t] # "asleep"
    /\ t \in Submitters =>
          /\ ret'[t] \in {"idle", "open", "waiting"} /\ cur'[t] \in Val
          /\ buffer'[t] = buffer[t] \/ At(t, "scan")'
    /\ t \in Workers => /\ mode'[t] = mode[t]
                        /\ pc'[t] \in Looks => pc[t] \in Looks \/ farm = {}
    /\ UNCHANGED <<word, armed>>
    /\ farm' \subseteq farm

LEMMA QuietStep ==
    ASSUME Inv, NEW t, Private(t)
    PROVE  ThreadInv' /\ ParkInv'
<1> USE Basics
<1>1. ThreadInv'
  <2>1. \A s \in Threads \ {t} : Control(s)'
    BY DEF Private, Inv, ThreadInv, Control, Waking, At
  <2>2. Control(t)'
    BY DEF Private, Inv, ThreadInv, Control, Waking, At, Looks
  <2>3. QED
    BY <2>1, <2>2 DEF ThreadInv, Private
<1>2. RootsLate'
  BY DEF Private, Inv, ParkInv, RootsLate, At
<1>3. BitKept'
  <2>1. SUFFICES ASSUME NEW w \in Workers, Armed(w)'
                 PROVE  w \in armed' \/ \E s \in Threads : Waking(s)' /\ reg'[s].v = w
    BY DEF BitKept
  <2>2. Armed(w)
    BY <2>1 DEF Private, Armed, At
  <2>3. w \in armed \/ \E s \in Threads : Waking(s) /\ reg[s].v = w
    BY <2>2 DEF Inv, ParkInv, BitKept
  <2>4. \A s \in Threads : Waking(s) => Waking(s)' /\ reg'[s].v = reg[s].v
    BY DEF Private, Waking
  <2>5. QED
    BY <2>3, <2>4 DEF Private
<1>4. SeenInv'
  <2>1. SUFFICES ASSUME Workers # {}, farm # {} PROVE Watched'
    BY DEF Private, SeenInv
  <2>2. Watched
    BY <2>1 DEF Inv, ParkInv, SeenInv
  <2>3. ASSUME NEW w \in Workers, ~Settled(w) PROVE ~Settled(w)'
    BY <2>1, <2>3 DEF Private, Settled
  <2>4. ASSUME NEW u \in Submitters, At(u, "scan") PROVE At(u, "scan")'
    BY <2>4 DEF Private, At
  <2>5. ASSUME NEW s \in Threads, Waking(s) PROVE Waking(s)'
    BY <2>5 DEF Private, Waking
  <2>6. QED
    BY <2>2, <2>3, <2>4, <2>5 DEF Watched
<1>5. QED
  BY <1>1, <1>2, <1>3, <1>4 DEF ParkInv

-----------------------------------------------------------------------------
(* The deque.                                                              *)

(* A participant with at most one store more in its buffer.                *)
LEMMA OwnBuffer ==
    ASSUME MemoryInv, NEW p \in Participants, NEW b \in Int,
           buffer' = [buffer EXCEPT ![p] = Append(@, Stored("bottom", b, None))],
           top' \in [Participants -> Int], own' \in [Participants -> Int]
    PROVE  MemoryInv'
<1> USE Basics
<1>1. Stored("bottom", b, None) \in OwnStores
  BY DEF Stored, OwnStores, Val
<1>2. buffer'[p] \in Seq(OwnStores)
  <2>1. buffer[p] \in Seq(OwnStores) /\ buffer'[p] = Append(buffer[p], Stored("bottom", b, None))
    BY DEF MemoryInv
  <2>2. QED
    BY <1>1, <2>1, AppendProperties
<1>3. QED
  BY <1>2 DEF MemoryInv

LEMMA MemoryKept ==
    ASSUME MemoryInv, top' \in [Participants -> Int], own' \in [Participants -> Int], buffer' = buffer
    PROVE  MemoryInv'
  BY DEF MemoryInv

LEMMA QuietDeque ==
    ASSUME Inv, NEW p \in Participants, Pop(p) \/ DequeNext(p),
           UNCHANGED <<nodeVars, chainVars, parkVars, group>>
    PROVE  Inv'
<1> USE Basics DEF memoryVars, chainVars, parkVars
<1>0. MemoryInv /\ Shapes /\ top[p] \in Int /\ own[p] \in Int
  BY DEF Inv, ThreadInv, MemoryInv
<1>1. MemoryInv' /\ Private(p)
  <2> USE <1>0 DEF Private, Shapes, Goto, Set, Wakes, Looks, At
  <2>1. CASE Pop(p)
    <3>1. MemoryInv'
      BY <2>1, MemoryKept DEF Pop, Exchange, MemoryInv
    <3>2. Private(p)
      BY <2>1 DEF Pop, Exchange
    <3>3. QED
      BY <3>1, <3>2
  <2>2. CASE PopTop(p)
    <3>1. MemoryInv'
      <4>1. CASE Restore(p)
        <5>1. buffer' = [buffer EXCEPT ![p] = Append(@, Stored("bottom", own[p] + 1, None))]
          BY <4>1 DEF Restore
        <5>2. own[p] + 1 \in Int /\ own' \in [Participants -> Int] /\ top' \in [Participants -> Int]
          BY <2>2, <4>1 DEF PopTop, Restore, MemoryInv
        <5>3. QED
          BY <5>1, <5>2, OwnBuffer
      <4>2. CASE UNCHANGED <<own, buffer>>
        BY <2>2, <4>2, MemoryKept DEF PopTop, MemoryInv
      <4>3. QED
        BY <2>2, <4>1, <4>2 DEF PopTop
    <3>2. /\ \E l \in {"empty", "popped", "popLast"} : pc' = [pc EXCEPT ![p] = l]
          /\ buffer' = buffer \/ \E q : buffer' = [buffer EXCEPT ![p] = q]
          /\ cur' = cur \/ \E c : cur' = [cur EXCEPT ![p] = c]
          /\ At(p, "popTop") /\ farm' = farm
      BY <2>2 DEF PopTop, Restore
    <3>3. /\ DOMAIN reg' = Threads /\ "v" \in DOMAIN reg'[p]
          /\ \A t \in Threads \ {p} : reg'[t] = reg[t]
      <4>1. CASE reg' = reg
        BY <4>1
      <4>2. CASE reg' # reg
        <5>1. reg' = [reg EXCEPT ![p].t = top[p], ![p].x = cell[p][own[p] % Cap]]
          BY <2>2, <4>2 DEF PopTop
        <5>2. QED
          BY <5>1
      <4>3. QED
        BY <4>1, <4>2
    <3>4. Private(p)
      <4>1. /\ DOMAIN pc' = Threads /\ pc'[p] \in {"empty", "popped", "popLast"}
            /\ \A t \in Threads \ {p} : pc'[t] = pc[t]
        BY <3>2
      <4>2. \A t \in Threads \ {p} : buffer'[t] = buffer[t]
        BY <3>2 DEF MemoryInv
      <4>3. DOMAIN cur' = Threads /\ \A t \in Threads \ {p} : cur'[t] = cur[t]
        BY <3>2
      <4>4. QED
        BY <3>2, <3>3, <4>1, <4>2, <4>3
    <3>5. QED
      BY <3>1, <3>4
  <2>3. CASE PopLast(p)
    <3>1. MemoryInv'
      <4>1. buffer' = [buffer EXCEPT ![p] = Append(@, Stored("bottom", own[p] + 1, None))]
        BY <2>3 DEF PopLast, Restore
      <4>2. own[p] + 1 \in Int /\ own' \in [Participants -> Int] /\ top' \in [Participants -> Int]
        BY <2>3 DEF PopLast, Restore, MemoryInv
      <4>3. QED
        BY <4>1, <4>2, OwnBuffer
    <3>2. Private(p)
      BY <2>3 DEF PopLast, Restore, NoReg
    <3>3. QED
      BY <3>1, <3>2
  <2>4. CASE Steal(p)
    BY <2>4, MemoryKept DEF Steal, NoReg, MemoryInv
  <2>5. CASE StealBottom(p)
    <3>1. MemoryInv'
      BY <2>5, MemoryKept DEF StealBottom, MemoryInv
    <3>2. Private(p)
      BY <2>5 DEF StealBottom, NoReg
    <3>3. QED
      BY <3>1, <3>2
  <2>6. CASE StealCell(p)
    BY <2>6, MemoryKept DEF StealCell, MemoryInv
  <2>7. CASE StealTop(p)
    <3>1. MemoryInv'
      BY <2>7, MemoryKept DEF StealTop, MemoryInv
    <3>2. Private(p)
      BY <2>7 DEF StealTop, NoReg
    <3>3. QED
      BY <3>1, <3>2
  <2>8. QED
    BY <2>1, <2>2, <2>3, <2>4, <2>5, <2>6, <2>7 DEF DequeNext
<1>2. QED
  BY <1>1, QuietStep DEF Inv

-----------------------------------------------------------------------------
(* The Farm and the nodes.                                                 *)

LEMMA QuietFarm ==
    ASSUME Inv, NEW p \in Participants, Popped(p) \/ PollFarm(p)
    PROVE  Inv'
<1> USE Basics DEF memoryVars, chainVars, parkVars
<1>1. MemoryInv'
  BY DEF Inv, MemoryInv, Popped, PollFarm
<1>2. Private(p)
  <2> USE DEF Inv, ThreadInv, Private, Shapes, Goto, Set, Wakes, Looks, At
  <2>1. CASE Popped(p)
    BY <2>1 DEF Popped
  <2>2. CASE PollFarm(p)
    <3>1. \E l \in {"run", "missed", "steal"} : pc' = [pc EXCEPT ![p] = l]
      BY <2>2 DEF PollFarm
    <3>2. cur' = cur \/ \E c : cur' = [cur EXCEPT ![p] = c]
      BY <2>2 DEF PollFarm
    <3>3. farm' \subseteq farm /\ (p \in Workers => pc'[p] = "run" \/ farm = {})
      BY <2>2 DEF PollFarm
    <3>4. QED
      BY <2>2, <3>1, <3>2, <3>3 DEF PollFarm
  <2>3. QED
    BY <2>1, <2>2
<1>3. QED
  BY <1>1, <1>2, QuietStep DEF Inv

(* The trampoline.                                                         *)
LEMMA OnwardMoves ==
    ASSUME Shapes, NEW p \in Participants, NEW s, Onward(p, s)
    PROVE  /\ DOMAIN pc' = Threads /\ DOMAIN ret' = Threads /\ DOMAIN cur' = Threads
           /\ \A t \in Threads \ {p} : pc'[t] = pc[t] /\ ret'[t] = ret[t] /\ cur'[t] = cur[t]
           /\ pc'[p] \in {"found", "scan", "run"} /\ ret'[p] \in {ret[p], "next"}
  BY Basics DEF Onward, Goto, Set, Shapes

LEMMA QuietChain ==
    ASSUME Inv, NEW p \in Participants, AfterWake(p) \/ RunDetached(p) \/ Lower(p) \/ Join(p),
           UNCHANGED <<parkVars, group>>
    PROVE  Inv'
<1> USE Basics DEF memoryVars, chainVars, parkVars
<1>1. MemoryInv'
  BY DEF Inv, MemoryInv, AfterWake, RunDetached, Lower, Join
<1>2. Private(p)
  <2>0. Shapes
    BY DEF Inv, ThreadInv
  <2> USE <2>0 DEF Private, Wakes, Looks, At
  <2>1. CASE AfterWake(p)
    BY <2>1, OnwardMoves DEF AfterWake, Shapes
  <2>2. CASE RunDetached(p)
    BY <2>2 DEF RunDetached, Goto, Set, Shapes
  <2>3. CASE Lower(p)
    <3>1. CASE Onward(p, stack[p])
      BY <2>3, <3>1, OnwardMoves DEF Lower, Shapes
    <3>2. CASE ~Onward(p, stack[p])
      <4>1. /\ \E q : cur' = [cur EXCEPT ![p] = q]
            /\ pc' = [pc EXCEPT ![p] = "join"] /\ ret' = ret
        BY <2>3, <3>2 DEF Lower, Goto, Set
      <4>2. QED
        BY <2>3, <4>1 DEF Lower, Shapes
    <3>3. QED
      BY <3>1, <3>2
  <2>4. CASE Join(p)
    BY <2>4 DEF Join, Goto, Set, Shapes
  <2>5. QED
    BY <2>1, <2>2, <2>3, <2>4
<1>3. QED
  BY <1>1, <1>2, QuietStep DEF Inv

(* What a fork pushes are stores of its deque.                             *)
LEMMA PushTyped ==
    ASSUME MemoryInv, NEW p \in Participants, NEW xs \in Seq(Frames), PushAll(p, xs), top' = top
    PROVE  MemoryInv' /\ \A t \in Threads \ {p} : buffer'[t] = buffer[t]
<1> DEFINE n == Fitting(p, xs)
           cells == [i \in 1 .. n |-> Stored("cell", own[p] + i - 1, xs[i])]
           last == <<Stored("bottom", own[p] + n, None)>>
<1> USE Basics
<1>1. top[p] \in Int /\ own[p] \in Int /\ Len(xs) \in Nat /\ buffer[p] \in Seq(OwnStores)
  BY LenProperties DEF MemoryInv
<1>2. n \in Int /\ n <= Len(xs)
  <2>1. Room(p) \in Int
    BY <1>1 DEF Room
  <2>2. QED
    BY <1>1, <2>1 DEF Fitting
<1>3. last \in Seq(OwnStores)
  <2>1. own[p] + n \in Int
    BY <1>1, <1>2
  <2> HIDE DEF n
  <2>2. Stored("bottom", own[p] + n, None) \in OwnStores
    BY <2>1 DEF Stored, OwnStores, Val
  <2>3. QED
    BY <2>2
<1>4. n > 0 => cells \in Seq(OwnStores)
  <2> HIDE DEF n
  <2>1. ASSUME NEW i \in 1 .. n PROVE Stored("cell", own[p] + i - 1, xs[i]) \in OwnStores
    <3>1. xs[i] \in Val /\ own[p] + i - 1 \in Int
      BY <1>1, <1>2, ElementOfSeq DEF Val
    <3>2. QED
      BY <3>1 DEF Stored, OwnStores
  <2>2. QED
    BY <1>2, <2>1, SeqDef
<1> HIDE DEF n, cells, last
<1>5. /\ own' = [own EXCEPT ![p] = @ + n]
      /\ buffer' = [buffer EXCEPT ![p] = IF n = 0 THEN @ ELSE @ \o cells \o last]
  BY DEF PushAll, n, cells, last
<1>6. own' \in [Participants -> Int] /\ top' \in [Participants -> Int]
  BY <1>1, <1>2, <1>5 DEF MemoryInv
<1>7. buffer'[p] \in Seq(OwnStores)
  <2>1. CASE n = 0
    BY <1>1, <1>5, <2>1 DEF MemoryInv
  <2>2. CASE n > 0
    <3>1. buffer[p] \o cells \in Seq(OwnStores)
      BY <1>1, <1>4, <2>2, ConcatProperties
    <3>2. (buffer[p] \o cells) \o last \in Seq(OwnStores)
      BY <1>3, <3>1, ConcatProperties
    <3>3. buffer'[p] = (buffer[p] \o cells) \o last
      BY <1>2, <1>5, <2>2 DEF MemoryInv
    <3>4. QED
      BY <3>2, <3>3
  <2>3. CASE n < 0
    <3>1. cells = <<>>
      BY <2>3, <1>2 DEF cells
    <3>2. buffer[p] \o cells \in Seq(OwnStores)
      BY <1>1, <3>1, ConcatProperties
    <3>3. (buffer[p] \o cells) \o last \in Seq(OwnStores)
      BY <1>3, <3>2, ConcatProperties
    <3>4. buffer'[p] = (buffer[p] \o cells) \o last
      BY <1>2, <1>5, <2>3 DEF MemoryInv
    <3>5. QED
      BY <3>3, <3>4
  <2>4. QED
    BY <1>2, <2>1, <2>2, <2>3
<1>8. QED
  BY <1>5, <1>6, <1>7 DEF MemoryInv

LEMMA ForkPushes ==
    ASSUME NEW p \in Participants, RunFork(p)
    PROVE  /\ UNCHANGED <<own, buffer>> \/ \E xs \in Seq(Frames) : PushAll(p, xs)
           /\ \E s : Onward(p, s)
           /\ UNCHANGED <<top, bottom, cell, farm, reg, mode>>
<1> USE Basics
<1>1. PICK k \in 1 .. MaxKids : ForkOf(p, k)
  BY DEF RunFork
<1> DEFINE n == cur[p]
           fs == Frames \ (live \ kids[n])
           xs == Lowest(fs, k)
<1>2. xs \in Seq(Frames) /\ Len(xs) = k /\ k \in Nat /\ k > 0
  <2>1. fs \in SUBSET Frames /\ IsFiniteSet(fs) /\ Cardinality(fs) \in Nat
    BY FS_Subset, FS_CardinalityType
  <2>2. k \in 0 .. Cardinality(fs) /\ k \in Nat /\ k > 0
    BY <1>1, <2>1, BoundsAssumption DEF ForkOf
  <2> HIDE DEF fs
  <2>3. Lowest(fs, k) \in Seq(fs) /\ Len(Lowest(fs, k)) = k
    BY <2>1, <2>2, LowestFrames
  <2>4. QED
    BY <2>1, <2>2, <2>3, SeqMonotonic
<1>3. Fork(p, n, xs)
  BY <1>1 DEF ForkOf
<1> HIDE DEF n, fs, xs
<1>4. Front(xs) \in Seq(Frames)
  <2>1. \A i \in 1 .. Len(xs) - 1 : xs[i] \in Frames
    BY <1>2, ElementOfSeq
  <2>2. SubSeq(xs, 1, Len(xs) - 1) \in Seq(Frames)
    BY <1>2, <2>1, SubSeqProperties
  <2>3. QED
    BY <2>2 DEF Front
<1>5. UNCHANGED <<own, buffer>> \/ PushAll(p, Front(xs))
  BY <1>3 DEF Fork
<1>6. (\E s : Onward(p, s)) /\ UNCHANGED <<top, bottom, cell, farm, reg, mode>>
  BY <1>3 DEF Fork
<1>7. QED
  BY <1>4, <1>5, <1>6

LEMMA QuietFork ==
    ASSUME Inv, NEW p \in Participants, RunFork(p), UNCHANGED <<parkVars, group>>
    PROVE  Inv'
<1> USE Basics
<1>0. MemoryInv /\ Shapes /\ UNCHANGED <<top, farm, reg, mode>>
  BY ForkPushes DEF Inv, ThreadInv
<1>1. MemoryInv' /\ \A t \in Threads \ {p} : buffer'[t] = buffer[t]
  <2>1. CASE UNCHANGED <<own, buffer>>
    BY <1>0, <2>1 DEF MemoryInv
  <2>2. ASSUME NEW xs \in Seq(Frames), PushAll(p, xs)
        PROVE  MemoryInv' /\ \A t \in Threads \ {p} : buffer'[t] = buffer[t]
    BY <1>0, <2>2, PushTyped
  <2>3. QED
    BY <2>1, <2>2, ForkPushes
<1>2. /\ DOMAIN pc' = Threads /\ DOMAIN ret' = Threads /\ DOMAIN cur' = Threads
      /\ \A t \in Threads \ {p} : pc'[t] = pc[t] /\ ret'[t] = ret[t] /\ cur'[t] = cur[t]
      /\ pc'[p] \in {"found", "scan", "run"} /\ ret'[p] \in {ret[p], "next"}
  BY <1>0, ForkPushes, OnwardMoves
<1>3. Private(p)
  BY <1>0, <1>1, <1>2 DEF Private, Shapes, RunFork, At, Wakes, Looks, parkVars
<1>4. QED
  BY <1>1, <1>3, QuietStep DEF Inv

-----------------------------------------------------------------------------
(* Roots and who submits them.                                             *)

LEMMA RootMoves ==
    ASSUME Inv, NEW t \in Threads, NEW c, Root(t, c)
    PROVE  /\ pc[t] = "idle" /\ DOMAIN cur' = Threads /\ cur'[t] \in Frames
           /\ \A s \in Threads \ {t} : cur'[s] = cur[s]
<1>1. Fresh[2] \in Frames
  <2>1. Len(Fresh) >= 2
    BY DEF Root
  <2>2. Fresh \in Seq(Frames \ live)
    BY FreshFrames
  <2>3. QED
    BY <2>1, <2>2, ElementOfSeq, LenProperties
<1>2. cur' = [cur EXCEPT ![t] = Fresh[2]] /\ pc[t] = "idle"
  BY DEF Root, Set, At
<1>3. QED
  BY <1>1, <1>2 DEF Inv, ThreadInv, Shapes

LEMMA FreshTyped == Fresh # <<>> => Fresh[1] \in Frames
<1>1. Fresh \in Seq(Frames \ live)
  BY FreshFrames
<1>2. QED
  BY <1>1, ElementOfSeq, EmptySeq, LenProperties

LEMMA WriteTyped ==
    ASSUME Inv, NEW u \in Submitters, WriteRoot(u)
    PROVE  MemoryInv'
<1> USE Basics
<1> DEFINE late == <<Stored("farm", 0, cur[u]), Stored("unlock", 0, None)>>
<1>1. late \in Seq(RootStores)
  <2>1. cur[u] \in Val /\ None \in Val
    BY DEF Inv, ThreadInv, Control, Val
  <2>2. Stored("farm", 0, cur[u]) \in RootStores /\ Stored("unlock", 0, None) \in RootStores
    BY <2>1 DEF Stored, RootStores
  <2>3. QED
    BY <2>2
<1> HIDE DEF late
<1>2. buffer[u] \in Seq(RootStores) /\ buffer' = [buffer EXCEPT ![u] = @ \o late]
  BY DEF WriteRoot, late, Inv, MemoryInv
<1>3. buffer[u] \o late \in Seq(RootStores)
  BY <1>1, <1>2, ConcatProperties
<1>4. QED
  BY <1>2, <1>3 DEF Inv, MemoryInv, WriteRoot

LEMMA QuietSubmitter ==
    ASSUME Inv, NEW u \in Submitters,
           \/ SubmitRoot(u) \/ OpenGroup(u) \/ Add(u) \/ SubmitDetached(u)
           \/ Lock(u) \/ WriteRoot(u) \/ Refused(u) \/ WaitGroup(u)
    PROVE  Inv'
<1> USE Basics DEF memoryVars, chainVars, parkVars
<1>1. MemoryInv'
  <2>1. CASE WriteRoot(u)
    BY <2>1, WriteTyped
  <2>2. CASE ~WriteRoot(u)
    BY <2>2 DEF Inv, MemoryInv, SubmitRoot, OpenGroup, Add, SubmitDetached, Lock, Refused, WaitGroup
  <2>3. QED
    BY <2>1, <2>2
<1>2. Private(u)
  <2>0. Shapes /\ Control(u) /\ DOMAIN buffer = Threads
    BY DEF Inv, ThreadInv, MemoryInv
  <2> USE <2>0 DEF Private, Goto, Set, Shapes, Control, Wakes, Val, At
  <2>1. CASE SubmitRoot(u)
    BY <2>1, RootMoves DEF SubmitRoot
  <2>2. CASE OpenGroup(u)
    BY <2>2, RootMoves DEF OpenGroup
  <2>3. CASE Add(u)
    BY <2>3, FreshTyped DEF Add
  <2>4. CASE SubmitDetached(u)
    BY <2>4, FreshTyped DEF SubmitDetached
  <2>5. CASE Lock(u)
    BY <2>5 DEF Lock
  <2>6. CASE WriteRoot(u)
    BY <2>6 DEF WriteRoot
  <2>7. CASE Refused(u)
    BY <2>7 DEF Refused
  <2>8. CASE WaitGroup(u)
    <3>1. /\ \E l \in {"idle", "waiting"} : pc' = [pc EXCEPT ![u] = l]
          /\ mode' = mode \/ mode' = [mode EXCEPT ![u] = "none"]
      BY <2>8 DEF WaitGroup, Release
    <3>2. QED
      BY <2>8, <3>1 DEF WaitGroup
  <2>9. QED
    BY <2>1, <2>2, <2>3, <2>4, <2>5, <2>6, <2>7, <2>8
<1>3. QED
  BY <1>1, <1>2, QuietStep DEF Inv

(* runRoot, stop, and who returns from a wait.                             *)
LEMMA QuietCaller ==
    ASSUME Inv, RunRoot \/ Stop \/ Leave
    PROVE  Inv'
<1> USE Basics DEF memoryVars, chainVars, parkVars
<1>1. MemoryInv'
  BY DEF Inv, MemoryInv, RunRoot, Stop, Leave
<1>2. Private(Caller)
  <2>0. Shapes
    BY DEF Inv, ThreadInv
  <2> USE <2>0 DEF Private, Goto, Set, Shapes, Wakes, At
  <2>1. CASE RunRoot
    BY <2>1, RootMoves DEF RunRoot
  <2>2. CASE Stop
    BY <2>2 DEF Stop
  <2>3. CASE Leave
    BY <2>3 DEF Leave
  <2>4. QED
    BY <2>1, <2>2, <2>3
<1>3. QED
  BY <1>1, <1>2, QuietStep DEF Inv

LEMMA QuietFinish ==
    ASSUME Inv, NEW t \in Threads, Finish(t)
    PROVE  Inv'
<1> USE Basics DEF memoryVars, chainVars, parkVars
<1>1. MemoryInv'
  BY DEF Inv, MemoryInv, Finish
<1>2. t \notin Workers /\ pc[t] \in {"waiting", "found", "missed"}
  BY DEF Inv, ThreadInv, Control, Finish, At
<1>3. Private(t)
  <2>0. Shapes /\ Control(t)
    BY DEF Inv, ThreadInv
  <2>1. pc' = [pc EXCEPT ![t] = "idle"] /\ mode' = [mode EXCEPT ![t] = "none"]
    BY DEF Finish, Release, Goto, Set
  <2>2. QED
    BY <1>2, <2>0, <2>1 DEF Finish, Private, Shapes, Control, Wakes
<1>4. QED
  BY <1>1, <1>3, QuietStep DEF Inv

-----------------------------------------------------------------------------
(* Parking and waking.                                                     *)

(* A worker's own steps: it changes its word and its bit.                  *)
LEMMA WorkerStep ==
    ASSUME Inv, NEW w \in Workers, WorkerNext(w)
    PROVE  Inv'
<1> USE Basics DEF memoryVars, chainVars, parkVars
<1>0. Shapes /\ (\A t \in Threads : Control(t)) /\ MemoryInv /\ RootsLate /\ BitKept /\ SeenInv
  BY DEF Inv, ThreadInv, ParkInv
<1>1. MemoryInv'
  BY <1>0 DEF MemoryInv, WorkerNext, Arm, ArmBit, Park, DisarmBit, Disarm
<1>2. /\ \E l \in {"armBit", "step", "asleep", "disarm"} :
            pc' = [pc EXCEPT ![w] = l] /\ (l = "asleep" => mode[w] = "recheck" /\ mode' = mode)
      /\ mode' = mode \/ \E m \in {"spin", "recheck"} : mode' = [mode EXCEPT ![w] = m]
      /\ word' = word \/ \E b : word' = [word EXCEPT ![w] = b]
      /\ armed' = armed \/ armed' = armed \cup {w} \/ armed' = armed \ {w}
      /\ pc[w] \notin Wakes /\ UNCHANGED <<cur, reg, ret, farm, buffer>>
  BY DEF WorkerNext, Arm, ArmBit, Park, DisarmBit, Disarm, Goto, Set, At, Wakes
<1>3. Shapes'
  BY <1>0, <1>2 DEF Shapes
<1>4. /\ \A t \in Threads \ {w} : pc'[t] = pc[t] /\ mode'[t] = mode[t]
      /\ \A v \in Workers \ {w} : word'[v] = word[v] /\ (v \in armed' <=> v \in armed)
      /\ pc'[w] \notin Wakes /\ pc'[w] # "waiting" /\ mode'[w] \in {mode[w], "spin", "recheck"}
      /\ pc'[w] = "asleep" => mode'[w] = "recheck"
  BY <1>0, <1>2 DEF Shapes, Wakes
<1>5. ThreadInv'
  <2>1. \A t \in Threads : Control(t)'
    BY <1>0, <1>2, <1>4 DEF Control, Waking, At
  <2>2. QED
    BY <1>3, <2>1 DEF ThreadInv
<1>6. RootsLate'
  BY <1>0, <1>2, <1>4 DEF RootsLate, At
<1>7. \A t \in Threads : (Waking(t) <=> Waking(t)') /\ reg'[t] = reg[t]
  BY <1>2, <1>4 DEF Waking
<1>8. BitKept'
  <2>1. \A v \in Workers \ {w} : Armed(v)' => Armed(v)
    BY <1>4 DEF Armed, At
  <2>2. Armed(w)' => w \in armed' \/ (Armed(w) /\ armed' = armed)
    <3> USE <1>0 DEF Armed, Shapes, Goto, Set, At
    <3>1. CASE Arm(w)
      BY <3>1 DEF Arm
    <3>2. CASE ArmBit(w)
      BY <3>2 DEF ArmBit
    <3>3. CASE Park(w)
      BY <3>3 DEF Park
    <3>4. CASE DisarmBit(w)
      BY <3>4 DEF DisarmBit
    <3>5. CASE Disarm(w)
      BY <3>5 DEF Disarm
    <3>6. QED
      BY <3>1, <3>2, <3>3, <3>4, <3>5 DEF WorkerNext
  <2>3. QED
    BY <1>0, <1>4, <1>7, <2>1, <2>2 DEF BitKept
<1>9. SeenInv'
  <2>1. \A v \in Workers : Settled(v)' => Settled(v)
    <3>1. \A v \in Workers \ {w} : Settled(v)' => Settled(v)
      BY <1>4 DEF Settled
    <3>2. Settled(w)' => Settled(w)
      BY <1>0 DEF Settled, Looks, Shapes, Goto, Set, At, WorkerNext, Arm, ArmBit, Park, DisarmBit, Disarm
    <3>3. QED
      BY <3>1, <3>2
  <2>2. \A u \in Submitters : At(u, "scan") => At(u, "scan")'
    BY <1>4 DEF At
  <2>3. QED
    BY <1>0, <1>2, <1>7, <2>1, <2>2 DEF SeenInv, Watched
<1>10. QED
  BY <1>1, <1>5, <1>6, <1>8, <1>9 DEF Inv, ParkInv

(* A thread takes an armed bit, and is then to clear the worker's word.    *)
LEMMA TakeStep ==
    ASSUME Inv, NEW t \in Threads, TakeBit(t), NEW l \in Wakes, pc' = [pc EXCEPT ![t] = l],
           pc[t] \in {"scan", "again"}, t \in Submitters /\ At(t, "scan") => Drained(t),
           UNCHANGED <<memoryVars, cur, chainVars, word>>
    PROVE  Inv'
<1> USE Basics DEF memoryVars, chainVars
<1>0. Shapes /\ (\A s \in Threads : Control(s)) /\ MemoryInv /\ RootsLate /\ BitKept /\ SeenInv
  BY DEF Inv, ThreadInv, ParkInv
<1>1. PICK w \in armed : armed' = armed \ {w} /\ reg' = [reg EXCEPT ![t].v = w]
  BY DEF TakeBit
<1>2. /\ \A s \in Threads \ {t} : pc'[s] = pc[s] /\ reg'[s] = reg[s]
      /\ reg'[t].v = w /\ "v" \in DOMAIN reg'[t] /\ pc'[t] = l /\ w \in Workers
      /\ DOMAIN reg' = Threads /\ DOMAIN pc' = Threads
  BY <1>0, <1>1 DEF Shapes
<1>3. Waking(t)'
  BY <1>2 DEF Waking
<1>4. MemoryInv'
  BY <1>0 DEF MemoryInv
<1>5. ThreadInv'
  <2>1. Shapes'
    BY <1>0, <1>1, <1>2 DEF Shapes
  <2>2. \A s \in Threads \ {t} : Control(s)'
    BY <1>0, <1>2 DEF Control, Waking, At
  <2>3. Control(t)'
    BY <1>0, <1>2 DEF Control, Waking, At, Wakes
  <2>4. QED
    BY <2>1, <2>2, <2>3 DEF ThreadInv
<1>6. RootsLate'
  <2>1. t \in Submitters => \A k \in DOMAIN buffer[t] : buffer[t][k].word = "unlock"
    BY <1>0 DEF RootsLate, Drained
  <2>2. QED
    BY <1>0, <1>2, <2>1 DEF RootsLate, At
<1>7. BitKept'
  <2>1. SUFFICES ASSUME NEW v \in Workers, Armed(v)'
                 PROVE  v \in armed' \/ \E s \in Threads : Waking(s)' /\ reg'[s].v = v
    BY DEF BitKept
  <2>2. CASE v = w
    BY <1>2, <1>3, <2>2
  <2>3. CASE v # w
    <3>1. Armed(v)
      <4>1. word[v] /\ mode[v] = "recheck"
        BY <2>1 DEF Armed
      <4>2. CASE v = t
        BY <4>1, <4>2 DEF Armed, At
      <4>3. CASE v # t
        BY <1>2, <2>1, <4>3 DEF Armed, At
      <4>4. QED
        BY <4>2, <4>3
    <3>2. \A s \in Threads : Waking(s) => Waking(s)' /\ reg'[s] = reg[s]
      BY <1>2 DEF Waking, Wakes
    <3>3. QED
      BY <1>0, <1>1, <2>3, <3>1, <3>2 DEF BitKept
  <2>4. QED
    BY <2>2, <2>3
<1>8. SeenInv'
  BY <1>3 DEF SeenInv, Watched
<1>9. QED
  BY <1>4, <1>5, <1>6, <1>7, <1>8 DEF Inv, ParkInv

(* A look at the bits that finds none: no worker sleeps unseen.            *)
LEMMA LookStep ==
    ASSUME Inv, NEW t \in Threads, armed = {}, pc[t] \in {"scan", "again"},
           NEW l, pc' = [pc EXCEPT ![t] = l],
           At(t, "scan") => l = ret[t] /\ (t \in Submitters => Drained(t)),
           At(t, "again") => l = "write",
           UNCHANGED <<memoryVars, cur, reg, chainVars, word, armed>>
    PROVE  Inv'
<1> USE Basics DEF memoryVars, chainVars
<1>0. Shapes /\ (\A s \in Threads : Control(s)) /\ MemoryInv /\ RootsLate /\ BitKept /\ SeenInv
  BY DEF Inv, ThreadInv, ParkInv
<1>1. /\ \A s \in Threads \ {t} : pc'[s] = pc[s]
      /\ pc'[t] = l /\ DOMAIN pc' = Threads
  BY <1>0 DEF Shapes
<1>2. /\ l \in {"idle", "next", "open", "waiting", "write"}
      /\ t \in Participants => l # "waiting"
  BY <1>0 DEF Control, At
<1>3. MemoryInv'
  BY <1>0 DEF MemoryInv
<1>4. ThreadInv'
  <2>1. Shapes'
    BY <1>0, <1>1 DEF Shapes
  <2>2. \A s \in Threads : Control(s)'
    BY <1>0, <1>1, <1>2 DEF Control, Waking, At, Wakes
  <2>3. QED
    BY <2>1, <2>2 DEF ThreadInv
<1>5. RootsLate'
  <2>1. t \in Submitters => \A k \in DOMAIN buffer[t] : buffer[t][k].word = "unlock"
    BY <1>0 DEF RootsLate, Drained, At
  <2>2. QED
    BY <1>0, <1>1, <2>1 DEF RootsLate, At
<1>6. \A s \in Threads : (Waking(s) <=> Waking(s)') /\ reg'[s] = reg[s]
  BY <1>1, <1>2 DEF Waking, Wakes
<1>7. \A w \in Workers : Armed(w)' => Armed(w)
  BY <1>1, <1>2 DEF Armed, At
<1>8. BitKept'
  BY <1>0, <1>6, <1>7 DEF BitKept
<1>9. SeenInv'
  <2>1. SUFFICES ASSUME NEW w \in Workers PROVE SeenInv'
    BY DEF SeenInv
  <2>2. CASE Settled(w)'
    <3>1. Armed(w)'
      BY <2>2 DEF Settled, Armed, Looks, At
    <3>2. QED
      BY <1>8, <3>1 DEF BitKept, SeenInv, Watched
  <2>3. QED
    BY <2>1, <2>2 DEF SeenInv, Watched
<1>10. QED
  BY <1>3, <1>4, <1>5, <1>8, <1>9 DEF Inv, ParkInv

(* The bit's taker clears the word: that worker looks again.               *)
LEMMA WakeStep ==
    ASSUME Inv, NEW t \in Threads, WakeWorker(t)
    PROVE  Inv'
<1> USE Basics DEF memoryVars, chainVars
<1>0. Shapes /\ (\A s \in Threads : Control(s)) /\ MemoryInv /\ RootsLate /\ BitKept /\ SeenInv
  BY DEF Inv, ThreadInv, ParkInv
<1> DEFINE w == reg[t].v
           l == IF At(t, "wake") THEN ret[t] ELSE "write"
<1>1. /\ \A s \in Threads \ {t} : pc'[s] = pc[s] /\ reg'[s] = reg[s]
      /\ pc'[t] = l /\ DOMAIN pc' = Threads /\ DOMAIN reg' = Threads
      /\ reg'[t] = NoReg
  BY <1>0 DEF Shapes, WakeWorker, Goto, Set
<1>2. /\ Waking(t) /\ ~At(t, "scan") /\ l \in {"idle", "next", "open", "waiting", "write"}
      /\ t \in Participants => l # "waiting"
  BY <1>0 DEF Control, WakeWorker, At, Waking, Wakes
<1>3. w \in Workers /\ word' = [word EXCEPT ![w] = FALSE] /\ armed' = armed
      /\ UNCHANGED <<memoryVars, cur, chainVars>>
  BY <1>0, <1>2 DEF Control, WakeWorker, Set
<1> HIDE DEF w, l
<1>4. /\ ~word'[w] /\ \A v \in Workers \ {w} : word'[v] = word[v]
      /\ DOMAIN word' = Workers
  BY <1>0, <1>3 DEF Shapes
<1>5. MemoryInv'
  BY <1>0, <1>3 DEF MemoryInv
<1>6. ThreadInv'
  <2>1. Shapes'
    BY <1>0, <1>1, <1>3, <1>4 DEF Shapes, NoReg
  <2>2. \A s \in Threads : Control(s)'
    BY <1>0, <1>1, <1>2, <1>3 DEF Control, Waking, At, Wakes
  <2>3. QED
    BY <2>1, <2>2 DEF ThreadInv
<1>7. RootsLate'
  BY <1>0, <1>1, <1>2, <1>3 DEF RootsLate, At
<1>8. BitKept'
  <2>1. SUFFICES ASSUME NEW v \in Workers, Armed(v)'
                 PROVE  v \in armed' \/ \E s \in Threads : Waking(s)' /\ reg'[s].v = v
    BY DEF BitKept
  <2>2. v # w
    BY <1>4, <2>1 DEF Armed
  <2>3. Armed(v)
    BY <1>1, <1>2, <1>3, <1>4, <2>1, <2>2 DEF Armed, At, Waking, Wakes
  <2>4. CASE v \in armed
    BY <1>3, <2>4
  <2>5. ASSUME NEW s \in Threads, Waking(s), reg[s].v = v PROVE Waking(s)' /\ reg'[s].v = v
    <3>1. s # t
      BY <2>2, <2>5 DEF w
    <3>2. QED
      BY <1>1, <2>5, <3>1 DEF Waking
  <2>6. QED
    BY <1>0, <2>3, <2>4, <2>5 DEF BitKept
<1>9. SeenInv'
  BY <1>3, <1>4 DEF SeenInv, Watched, Settled
<1>10. QED
  BY <1>5, <1>6, <1>7, <1>8, <1>9 DEF Inv, ParkInv

LEMMA ScanStep ==
    ASSUME Inv, NEW t \in Threads,
           Scan(t) \/ (t \in Submitters /\ WakeAgain(t))
    PROVE  Inv'
<1> USE Basics DEF chainVars, Goto, Set
<1>1. CASE Scan(t)
  <2>1. CASE armed = {}
    BY <1>1, <2>1, LookStep DEF Scan, At, Fenced
  <2>2. CASE armed # {}
    BY <1>1, <2>2, TakeStep DEF Scan, At, Fenced, Wakes
  <2>3. QED
    BY <2>1, <2>2
<1>2. CASE t \in Submitters /\ WakeAgain(t)
  <2>1. CASE armed = {}
    BY <1>2, <2>1, LookStep DEF WakeAgain, At
  <2>2. CASE armed # {}
    BY <1>2, <2>2, TakeStep DEF WakeAgain, At, Wakes
  <2>3. QED
    BY <2>1, <2>2
<1>3. QED
  BY <1>1, <1>2

(* A store reaches memory: a root's, while who wrote it has yet to look.   *)
LEMMA DrainStep ==
    ASSUME Inv, NEW t \in Threads, Flushes(t)
    PROVE  Inv'
<1> USE Basics DEF chainVars, parkVars
<1>0. Shapes /\ (\A s \in Threads : Control(s)) /\ MemoryInv /\ RootsLate /\ BitKept /\ SeenInv
  BY DEF Inv, ThreadInv, ParkInv
<1>1. /\ UNCHANGED <<top, own, pc, cur, reg, ret, mode, word, armed>>
      /\ buffer' = [buffer EXCEPT ![t] = Tail(@)]
      /\ buffer[t] # <<>>
      /\ Head(buffer[t]).word # "farm" => farm' = farm
  BY DEF Flushes, Drain, Drained, Set
<1>2. ASSUME NEW S, buffer[t] \in Seq(S)
      PROVE  /\ Tail(buffer[t]) \in Seq(S) /\ Head(buffer[t]) = buffer[t][1] /\ 1 \in DOMAIN buffer[t]
             /\ \A k \in DOMAIN Tail(buffer[t]) : k + 1 \in DOMAIN buffer[t]
                                                  /\ Tail(buffer[t])[k] = buffer[t][k + 1]
  BY <1>1, <1>2, HeadTailProperties, LenProperties, EmptySeq
<1>3. MemoryInv'
  <2>1. \A s \in Threads \ {t} : buffer'[s] = buffer[s]
    BY <1>0, <1>1 DEF MemoryInv
  <2>2. buffer'[t] = Tail(buffer[t]) /\ DOMAIN buffer' = Threads
    BY <1>0, <1>1 DEF MemoryInv
  <2>3. t \in Participants => buffer'[t] \in Seq(OwnStores)
    BY <1>0, <1>2, <2>2 DEF MemoryInv
  <2>4. t \in Submitters => buffer'[t] \in Seq(RootStores)
    BY <1>0, <1>2, <2>2 DEF MemoryInv
  <2>5. QED
    BY <1>0, <1>1, <2>1, <2>2, <2>3, <2>4 DEF MemoryInv
<1>4. ThreadInv'
  BY <1>0, <1>1 DEF ThreadInv, Shapes, Control, Waking, At
<1>5. RootsLate'
  <2>1. SUFFICES ASSUME NEW u \in Submitters, ~At(u, "scan"), NEW k \in DOMAIN buffer'[u]
                 PROVE  buffer'[u][k].word = "unlock"
    BY <1>1 DEF RootsLate, At
  <2>2. \A j \in DOMAIN buffer[u] : buffer[u][j].word = "unlock"
    BY <1>0, <2>1 DEF RootsLate
  <2>3. CASE u # t
    BY <1>0, <1>1, <2>1, <2>2, <2>3 DEF MemoryInv
  <2>4. CASE u = t
    <3>1. buffer[t] \in Seq(RootStores) /\ buffer'[t] = Tail(buffer[t])
      BY <1>0, <1>1, <2>4 DEF MemoryInv
    <3>2. QED
      BY <1>2, <2>1, <2>2, <2>4, <3>1
  <2>5. QED
    BY <2>3, <2>4
<1>6. BitKept'
  BY <1>0, <1>1 DEF BitKept, Armed, Waking, At
<1>7. SeenInv'
  <2>1. CASE t \in Participants
    <3>1. buffer[t][1] \in OwnStores /\ Head(buffer[t]) = buffer[t][1]
      BY <1>0, <1>2, <2>1, ElementOfSeq, LenProperties DEF MemoryInv
    <3>2. farm' = farm
      BY <1>1, <3>1 DEF OwnStores
    <3>3. QED
      BY <1>0, <1>1, <3>2 DEF SeenInv, Watched, Settled, Waking, At
  <2>2. CASE t \in Submitters /\ At(t, "scan")
    BY <1>1, <2>2 DEF SeenInv, Watched, At
  <2>3. CASE t \in Submitters /\ ~At(t, "scan")
    <3>1. Head(buffer[t]).word = "unlock"
      BY <1>0, <1>2, <2>3 DEF RootsLate, MemoryInv
    <3>2. farm' = farm
      BY <1>1, <3>1
    <3>3. QED
      BY <1>0, <1>1, <3>2 DEF SeenInv, Watched, Settled, Waking, At
  <2>4. QED
    BY <2>1, <2>2, <2>3
<1>8. QED
  BY <1>3, <1>4, <1>5, <1>6, <1>7 DEF Inv, ParkInv

-----------------------------------------------------------------------------
LEMMA InitInv == Init => Inv
<1> SUFFICES ASSUME Init PROVE Inv
  OBVIOUS
<1> USE Basics DEF Init, MemoryInit, NodeInit, RootInit
<1>1. MemoryInv
  BY DEF MemoryInv
<1>2. ThreadInv
  BY DEF ThreadInv, Shapes, Control, NoReg, At, Waking, Wakes, Val
<1>3. RootsLate /\ BitKept /\ SeenInv
  BY DEF RootsLate, BitKept, Armed, SeenInv
<1>4. QED
  BY <1>1, <1>2, <1>3 DEF Inv, ParkInv

LEMMA NextInv ==
    ASSUME Inv, [Next]_vars
    PROVE  Inv'
<1> USE Basics
<1>1. CASE Next
  <2>1. ASSUME NEW t \in Threads, Flushes(t) PROVE Inv'
    BY <2>1, DrainStep
  <2>2. ASSUME NEW t \in Threads, RootNext(t) PROVE Inv'
    BY <2>2, ScanStep, WakeStep, QuietFinish DEF RootNext
  <2>3. ASSUME NEW p \in Participants, Participates(p) PROVE Inv'
    <3>1. CASE (Pop(p) \/ DequeNext(p)) /\ UNCHANGED <<nodeVars, chainVars, parkVars, group>>
      BY <3>1, QuietDeque
    <3>2. CASE NodeNext(p) /\ UNCHANGED <<parkVars, group>>
      BY <3>2, QuietChain, QuietFork DEF NodeNext
    <3>3. CASE Popped(p) \/ PollFarm(p)
      BY <3>3, QuietFarm
    <3>4. QED
      BY <2>3, <3>1, <3>2, <3>3 DEF Participates
  <2>4. ASSUME NEW w \in Workers, WorkerNext(w) PROVE Inv'
    BY <2>4, WorkerStep
  <2>5. ASSUME NEW u \in Submitters, SubmitterNext(u) PROVE Inv'
    BY <2>5, QuietSubmitter, ScanStep DEF SubmitterNext
  <2>6. QED
    BY <1>1, <2>1, <2>2, <2>3, <2>4, <2>5, QuietCaller DEF Next
<1>2. CASE UNCHANGED vars
  <2> USE <1>2 DEF vars, memoryVars, nodeVars, chainVars, parkVars
  <2>1. MemoryInv' /\ ThreadInv'
    BY DEF Inv, MemoryInv, ThreadInv, Shapes, Control, Waking, At
  <2>2. ParkInv'
    BY DEF Inv, ParkInv, RootsLate, BitKept, Armed, SeenInv, Watched, Settled, Waking, At
  <2>3. QED
    BY <2>1, <2>2 DEF Inv
<1>3. QED
  BY <1>1, <1>2

(* While a root waits in the Farm not every worker sleeps with its word    *)
(* armed, unless a thread that published, or that took a worker's bit, has *)
(* yet to wake one.  A dispatcher without workers has the caller consume   *)
(* the Farm, which ForkRoots does not model.                               *)
THEOREM RootsAreSeen ==
    ASSUME Workers # {}
    PROVE  Spec => []RootSeen
<1>1. Inv => RootSeen
  <2>1. SUFFICES ASSUME Inv, farm # {} PROVE RootSeen
    BY DEF RootSeen
  <2>2. Watched /\ \A t \in Threads : Control(t)
    BY <2>1 DEF Inv, ParkInv, SeenInv, ThreadInv
  <2>3. \A w \in Workers : Asleep(w) => Settled(w)
    BY <2>2, Basics DEF Asleep, Settled, Control, Looks, At
  <2>4. QED
    BY <2>2, <2>3 DEF RootSeen, Watched, Waking, Wakes
<1>2. QED
  BY <1>1, InitInv, NextInv, PTL DEF Spec

-----------------------------------------------------------------------------
(* The deques: every node that is pushed is handed to one thread.          *)

Regs == [t : Nat, b : {0}, x : Val, v : Participants]

DequeTypes ==
    /\ top \in [Participants -> Nat]
    /\ bottom \in [Participants -> Int]
    /\ cell \in [Participants -> [0 .. Cap - 1 -> Val]]
    /\ reg \in [Threads -> Regs]

(* A pop under way has lowered bottom and not decided yet.                 *)
Popping(p) == pc[p] \in {"popTop", "popLast"}
Stealing(p) == pc[p] \in {"stealBottom", "stealCell", "stealTop"}
End(p) == own[p] + IF Popping(p) THEN 1 ELSE 0

Sizes(p) ==
    /\ top[p] <= End(p) /\ End(p) <= top[p] + Cap
    /\ bottom[p] <= own[p]
    /\ Popping(p) => buffer[p] = <<>>

(* The cells of a push reach memory in order, and before bottom does; the  *)
(* bottom in memory passes none that still waits.                          *)
LateStore(p, k) ==
    /\ buffer[p][k].word = "bottom" => buffer[p][k].at <= own[p]
    /\ buffer[p][k].word = "cell" =>
         /\ top[p] <= buffer[p][k].at /\ bottom[p] <= buffer[p][k].at
         /\ buffer[p][k].at < own[p]
         /\ \A j \in 1 .. k - 1 :
               /\ buffer[p][j].word = "bottom" => buffer[p][j].at <= buffer[p][k].at
               /\ buffer[p][j].word = "cell" => buffer[p][j].at < buffer[p][k].at

LateStores(p) == \A k \in DOMAIN buffer[p] : LateStore(p, k)

LateAt(p, i) == \E k \in DOMAIN buffer[p] : buffer[p][k].word = "cell" /\ buffer[p][k].at = i

(* What the owner and the thieves have read of a node still to be decided: *)
(* while top has not moved, its slot was not written again.                *)
OwnerRead(p) ==
    pc[p] = "popLast" =>
        /\ reg[p].t = own[p] /\ reg[p].t <= top[p]
        /\ top[p] = reg[p].t => reg[p].x = cell[p][reg[p].t % Cap]

ThiefRead(q) ==
    Stealing(q) =>
        LET v == reg[q].v  t == reg[q].t IN
        /\ v # q /\ t <= top[v]
        /\ t = top[v] /\ pc[q] # "stealBottom" =>
              /\ t < End(v) /\ ~LateAt(v, t)
              /\ pc[q] = "stealTop" => reg[q].x = cell[v][t % Cap]

DequeSound ==
    \A p \in Participants : Sizes(p) /\ LateStores(p) /\ OwnerRead(p) /\ ThiefRead(p)

DequeInv == DequeTypes /\ DequeSound

(* The thread t is given a node of a deque by this step.                   *)
Takes(t) ==
    \/ Popping(t) /\ pc'[t] = "popped"
    \/ pc[t] = "stealTop" /\ pc'[t] = "run"
Source(t) == IF Popping(t) THEN t ELSE reg[t].v

(* The deque of p loses one index at most, to a thread that is given its   *)
(* node; it keeps the nodes of the others; and what it gains is pushed     *)
(* above them, by a fork of its owner.                                     *)
HandsOut ==
    /\ \A t \in Participants : Takes(t) =>
          \E p \in Participants : \E i \in Held(p) :
              p = Source(t) /\ i \notin Held(p)' /\ cur'[t] = Item(p, i)
    /\ \A p \in Participants :
          /\ \A i \in Held(p) : i \notin Held(p)' => \E t \in Participants : Takes(t) /\ Source(t) = p
          /\ \A i, j \in Held(p) : i \notin Held(p)' /\ j \notin Held(p)' => i = j
          /\ \A i \in Held(p) : i \in Held(p)' => Item(p, i)' = Item(p, i)
          /\ \A i \in Held(p)' : i \notin Held(p) => own[p] <= i /\ pc[p] \in {"run", "join"}

LEMMA HeldIs ==
    ASSUME MemoryInv, DequeTypes, NEW p \in Participants
    PROVE  /\ Held(p) = top[p] .. End(p) - 1
           /\ top[p] \in Nat /\ own[p] \in Int /\ bottom[p] \in Int /\ End(p) \in Int
           /\ End(p) = IF Popping(p) THEN own[p] + 1 ELSE own[p]
<1>1. top[p] \in Nat /\ own[p] \in Int /\ bottom[p] \in Int
  BY DEF MemoryInv, DequeTypes
<1>2. End(p) = IF Popping(p) THEN own[p] + 1 ELSE own[p]
  BY <1>1 DEF End
<1>3. own[p] - (IF Popping(p) THEN 0 ELSE 1) = End(p) - 1
  BY <1>1, <1>2
<1>4. QED
  BY <1>1, <1>2, <1>3 DEF Held, Popping

(* A buffer's stores.                                                      *)
LEMMA StoreTyped ==
    ASSUME MemoryInv, NEW p \in Participants
    PROVE  /\ buffer[p] \in Seq(OwnStores) /\ Len(buffer[p]) \in Nat
           /\ DOMAIN buffer[p] = 1 .. Len(buffer[p])
           /\ \A k \in DOMAIN buffer[p] :
                 /\ k \in Nat \ {0} /\ buffer[p][k].word \in {"cell", "bottom"}
                 /\ buffer[p][k].at \in Int /\ buffer[p][k].val \in Val
<1>1. buffer[p] \in Seq(OwnStores)
  BY DEF MemoryInv
<1>2. Len(buffer[p]) \in Nat /\ DOMAIN buffer[p] = 1 .. Len(buffer[p])
  BY <1>1, LenProperties
<1>3. \A k \in DOMAIN buffer[p] : buffer[p][k] \in OwnStores
  BY <1>1, <1>2, ElementOfSeq
<1>4. QED
  BY <1>1, <1>2, <1>3 DEF OwnStores

LEMMA CellStored ==
    ASSUME NEW p, NEW k, buffer'[p][k].word = "cell", top'[p] <= buffer'[p][k].at,
           bottom'[p] <= buffer'[p][k].at, buffer'[p][k].at < own'[p],
           \A j \in 1 .. k - 1 :
               /\ buffer'[p][j].word = "bottom" => buffer'[p][j].at <= buffer'[p][k].at
               /\ buffer'[p][j].word = "cell" => buffer'[p][j].at < buffer'[p][k].at
    PROVE  LateStore(p, k)'
  BY DEF LateStore

(* The node at an index: that of its store in the buffer b, while it       *)
(* waits, and later c, that of its slot.                                   *)
NodeAt(b, c, i) ==
    LET late == {k \in DOMAIN b : b[k].word = "cell" /\ b[k].at = i}
    IN  IF late = {} THEN c ELSE b[CHOOSE k \in late : TRUE].val

LEMMA ItemIs ==
    ASSUME NEW p, NEW i
    PROVE  /\ Item(p, i) = NodeAt(buffer[p], cell[p][i % Cap], i)
           /\ Item(p, i)' = NodeAt(buffer'[p], cell'[p][i % Cap], i)
  BY DEF Item, NodeAt

LEMMA NodeLate ==
    ASSUME NEW b, NEW c, NEW i, NEW k \in DOMAIN b, b[k].word = "cell", b[k].at = i,
           \A j \in DOMAIN b : b[j].word = "cell" /\ b[j].at = i => j = k
    PROVE  NodeAt(b, c, i) = b[k].val
<1> DEFINE late == {j \in DOMAIN b : b[j].word = "cell" /\ b[j].at = i}
<1>1. k \in late /\ \A j \in late : j = k
  OBVIOUS
<1>2. NodeAt(b, c, i) = b[CHOOSE j \in late : TRUE].val
  BY <1>1 DEF NodeAt
<1> HIDE DEF late
<1>3. (CHOOSE j \in late : TRUE) = k
  BY <1>1
<1>4. QED
  BY <1>2, <1>3

LEMMA ItemLate ==
    ASSUME NEW p, NEW i, NEW k \in DOMAIN buffer[p], buffer[p][k].word = "cell", buffer[p][k].at = i,
           \A j \in DOMAIN buffer[p] : buffer[p][j].word = "cell" /\ buffer[p][j].at = i => j = k
    PROVE  Item(p, i) = buffer[p][k].val
<1> DEFINE b == buffer[p]
<1>1. Item(p, i) = NodeAt(b, cell[p][i % Cap], i)
  BY ItemIs
<1>2. /\ k \in DOMAIN b /\ b[k].word = "cell" /\ b[k].at = i
      /\ \A j \in DOMAIN b : b[j].word = "cell" /\ b[j].at = i => j = k
  OBVIOUS
<1> HIDE DEF b
<1>3. NodeAt(b, cell[p][i % Cap], i) = b[k].val
  BY <1>2, NodeLate
<1>4. QED
  BY <1>1, <1>3 DEF b

(* The same of the next state.                                             *)
LEMMA NextLate ==
    ASSUME NEW p, NEW i, NEW k \in DOMAIN buffer'[p], buffer'[p][k].word = "cell", buffer'[p][k].at = i,
           \A j \in DOMAIN buffer'[p] : buffer'[p][j].word = "cell" /\ buffer'[p][j].at = i => j = k
    PROVE  Item(p, i)' = buffer'[p][k].val
<1> DEFINE b == buffer'[p]
<1>1. Item(p, i)' = NodeAt(b, cell'[p][i % Cap], i)
  BY ItemIs
<1>2. /\ k \in DOMAIN b /\ b[k].word = "cell" /\ b[k].at = i
      /\ \A j \in DOMAIN b : b[j].word = "cell" /\ b[j].at = i => j = k
  OBVIOUS
<1> HIDE DEF b
<1>3. NodeAt(b, cell'[p][i % Cap], i) = b[k].val
  BY <1>2, NodeLate
<1>4. QED
  BY <1>1, <1>3 DEF b

LEMMA NodeInSlot ==
    ASSUME NEW b, NEW c, NEW i, \A k \in DOMAIN b : ~ (b[k].word = "cell" /\ b[k].at = i)
    PROVE  NodeAt(b, c, i) = c
  BY DEF NodeAt

(* No two cells of a buffer are for one index.                             *)
LEMMA StoresApart ==
    ASSUME MemoryInv, NEW p \in Participants, LateStores(p),
           NEW j \in DOMAIN buffer[p], NEW k \in DOMAIN buffer[p],
           buffer[p][j].word = "cell", buffer[p][k].word = "cell",
           buffer[p][j].at = buffer[p][k].at
    PROVE  j = k
<1>1. \A l \in DOMAIN buffer[p] : l \in Nat \ {0} /\ buffer[p][l].at \in Int
  BY StoreTyped
<1>2. ~ (j < k) /\ ~ (k < j)
  BY <1>1 DEF LateStores, LateStore
<1>3. QED
  BY <1>1, <1>2

LEMMA ItemSlot ==
    ASSUME NEW p, NEW i, ~LateAt(p, i)
    PROVE  Item(p, i) = cell[p][i % Cap]
  BY ItemIs, NodeInSlot DEF LateAt

LEMMA ItemKept ==
    ASSUME NEW p, NEW i, buffer'[p] = buffer[p], cell'[p][i % Cap] = cell[p][i % Cap]
    PROVE  Item(p, i)' = Item(p, i) /\ (LateAt(p, i)' <=> LateAt(p, i))
  BY ItemIs DEF LateAt

(* Indices of one deque that are less than its capacity apart have         *)
(* different slots.                                                        *)
LEMMA SlotsApart ==
    ASSUME NEW a \in Nat, NEW b \in Nat, a < b, b < a + Cap
    PROVE  a % Cap # b % Cap
<1>0. Cap \in Nat \ {0}
  BY Basics
<1>1. \A s \in Nat : s \div Cap \in Nat /\ s % Cap \in 0 .. Cap - 1 /\ s = Cap * (s \div Cap) + (s % Cap)
  BY <1>0
<1> DEFINE d == a \div Cap
           f == b \div Cap
           r == a % Cap
<1>2. d \in Nat /\ f \in Nat /\ r \in 0 .. Cap - 1 /\ a = Cap * d + r /\ b = Cap * f + (b % Cap)
  BY <1>1
<1>3. SUFFICES ASSUME r = b % Cap PROVE FALSE
  OBVIOUS
<1> HIDE DEF d, f, r
<1>4. f > d
  <2>1. SUFFICES ASSUME f <= d PROVE FALSE
    BY <1>2
  <2>2. Cap * f <= Cap * d
    BY <2>1, <1>0, <1>2
  <2>3. QED
    BY <2>2, <1>0, <1>2, <1>3
<1>5. Cap * f >= Cap * (d + 1)
  BY <1>0, <1>2, <1>4
<1>6. QED
  BY <1>0, <1>2, <1>3, <1>5

-----------------------------------------------------------------------------
(* Steps that leave the deques alone.                                      *)

DequePCs == {"popTop", "popLast", "stealBottom", "stealCell", "stealTop"}

LEMMA Elsewhere ==
    ASSUME DequeInv, NEW t \in Threads,
           UNCHANGED <<top, bottom, cell, own>>, reg' \in [Threads -> Regs],
           \A p \in Participants : buffer'[p] = buffer[p],
           \A s \in Participants \ {t} : pc'[s] = pc[s] /\ reg'[s] = reg[s],
           t \in Participants => pc[t] \notin DequePCs /\ pc'[t] \notin DequePCs
    PROVE  DequeInv' /\ HandsOut
<1> USE Basics
<1>1. \A p \in Participants : (Popping(p)' <=> Popping(p)) /\ (Stealing(p)' <=> Stealing(p))
  BY DEF Popping, Stealing, DequePCs
<1>2. \A p \in Participants : Popping(p) \/ Stealing(p) => pc'[p] = pc[p] /\ reg'[p] = reg[p]
  BY DEF Popping, Stealing, DequePCs
<1>3. \A p \in Participants : End(p)' = End(p) /\ Held(p)' = Held(p)
  BY <1>1 DEF End, Held, Popping
<1>4. \A p \in Participants : \A i : Item(p, i)' = Item(p, i) /\ (LateAt(p, i)' <=> LateAt(p, i))
  BY ItemKept
<1>5. DequeTypes'
  BY DEF DequeInv, DequeTypes
<1>6. ASSUME NEW p \in Participants
      PROVE  (Sizes(p) /\ LateStores(p) /\ OwnerRead(p) /\ ThiefRead(p))'
  <2>0. Sizes(p) /\ LateStores(p) /\ OwnerRead(p) /\ ThiefRead(p)
    BY DEF DequeInv, DequeSound
  <2>1. Sizes(p)'
    BY <1>1, <1>3, <2>0 DEF Sizes
  <2>2. LateStores(p)'
    BY <2>0 DEF LateStores, LateStore
  <2>3. OwnerRead(p)'
    BY <1>1, <1>2, <2>0 DEF OwnerRead, Popping, DequePCs
  <2>4. ThiefRead(p)'
    <3>1. SUFFICES ASSUME Stealing(p) PROVE ThiefRead(p)'
      BY <1>1 DEF ThiefRead
    <3>2. reg[p].v \in Participants
      BY DEF DequeInv, DequeTypes, Regs
    <3>3. QED
      BY <1>1, <1>2, <1>3, <1>4, <2>0, <3>1, <3>2 DEF ThiefRead
  <2>5. QED
    BY <2>1, <2>2, <2>3, <2>4
<1>7. \A p \in Participants : ~Takes(p)
  BY <1>2 DEF Takes, Popping, Stealing
<1>8. HandsOut
  BY <1>3, <1>4, <1>7 DEF HandsOut
<1>9. QED
  BY <1>5, <1>6, <1>8 DEF DequeInv, DequeSound

-----------------------------------------------------------------------------
(* Steps of a deque's owner, and of its buffer.                            *)

(* Only the deque of p changes, and what p has read of others stays right. *)
Alone(p) ==
    /\ \A q \in Participants \ {p} :
          /\ pc'[q] = pc[q] /\ reg'[q] = reg[q] /\ buffer'[q] = buffer[q] /\ own'[q] = own[q]
          /\ top'[q] = top[q] /\ bottom'[q] = bottom[q] /\ cell'[q] = cell[q]
    /\ Stealing(p)' => ThiefRead(p)'

(* What a thief of p has read stays right.                                 *)
ThievesKept(p) ==
    /\ top[p] <= top'[p]
    /\ top'[p] = top[p] /\ top[p] < End(p) /\ ~LateAt(p, top[p]) =>
          /\ top[p] < End(p)' /\ ~LateAt(p, top[p])'
          /\ cell'[p][top[p] % Cap] = cell[p][top[p] % Cap]

OthersKept(p) ==
    \A q \in Participants \ {p} :
        ~Takes(q) /\ Held(q)' = Held(q) /\ \A i : Item(q, i)' = Item(q, i)

LEMMA OwnerStep ==
    ASSUME DequeInv, NEW p \in Participants, Alone(p), DequeTypes', Sizes(p)', LateStores(p)',
           OwnerRead(p)', ThievesKept(p)
    PROVE  DequeInv' /\ OthersKept(p)
<1> USE Basics
<1>1. ASSUME NEW q \in Participants \ {p}
      PROVE  /\ (Popping(q)' <=> Popping(q)) /\ (Stealing(q)' <=> Stealing(q))
             /\ End(q)' = End(q) /\ Held(q)' = Held(q) /\ ~Takes(q)
             /\ \A i : Item(q, i)' = Item(q, i) /\ (LateAt(q, i)' <=> LateAt(q, i))
  <2>1. pc'[q] = pc[q] /\ own'[q] = own[q] /\ top'[q] = top[q] /\ buffer'[q] = buffer[q] /\ cell'[q] = cell[q]
    BY DEF Alone
  <2>2. \A i : Item(q, i)' = Item(q, i) /\ (LateAt(q, i)' <=> LateAt(q, i))
    BY <2>1, ItemKept
  <2>3. QED
    BY <2>1, <2>2 DEF Popping, Stealing, End, Held, Takes
<1>2. ASSUME NEW q \in Participants \ {p}
      PROVE  (Sizes(q) /\ LateStores(q) /\ OwnerRead(q))'
  <2>1. Sizes(q) /\ LateStores(q) /\ OwnerRead(q)
    BY DEF DequeInv, DequeSound
  <2>2. pc'[q] = pc[q] /\ reg'[q] = reg[q] /\ buffer'[q] = buffer[q] /\ own'[q] = own[q]
        /\ top'[q] = top[q] /\ bottom'[q] = bottom[q] /\ cell'[q] = cell[q]
    BY DEF Alone
  <2>3. Sizes(q)'
    BY <1>1, <2>1, <2>2 DEF Sizes
  <2>4. LateStores(q)'
    BY <2>1, <2>2 DEF LateStores, LateStore
  <2>5. OwnerRead(q)'
    BY <2>1, <2>2 DEF OwnerRead
  <2>6. QED
    BY <2>3, <2>4, <2>5
<1>3. ASSUME NEW q \in Participants PROVE ThiefRead(q)'
  <2>1. SUFFICES ASSUME Stealing(q)', q # p PROVE ThiefRead(q)'
    BY DEF ThiefRead, Alone
  <2>2. q # p /\ Stealing(q) /\ ThiefRead(q) /\ pc'[q] = pc[q] /\ reg'[q] = reg[q]
    BY <1>1, <2>1 DEF Alone, DequeInv, DequeSound
  <2>3. reg[q].v \in Participants /\ reg[q].t \in Nat /\ top[p] \in Nat /\ top'[p] \in Nat
    BY DEF DequeInv, DequeTypes, Regs
  <2>4. CASE reg[q].v = p
    <3>1. reg[q].t <= top[p] /\ top[p] <= top'[p] /\ reg[q].t <= top'[p]
      BY <2>2, <2>3, <2>4 DEF ThiefRead, ThievesKept
    <3>2. CASE reg[q].t = top'[p] /\ pc[q] # "stealBottom"
      <4>1. reg[q].t = top[p] /\ top'[p] = top[p]
        BY <2>3, <3>1, <3>2
      <4>2. top[p] < End(p) /\ ~LateAt(p, top[p])
            /\ (pc[q] = "stealTop" => reg[q].x = cell[p][top[p] % Cap])
        BY <2>2, <2>4, <3>2, <4>1 DEF ThiefRead
      <4>3. top[p] < End(p)' /\ ~LateAt(p, top[p])' /\ cell'[p][top[p] % Cap] = cell[p][top[p] % Cap]
        BY <4>1, <4>2 DEF ThievesKept
      <4>4. ~LateAt(p, reg[q].t)'
        <5>1. LateAt(p, reg[q].t)' <=> \E k \in DOMAIN buffer'[p] : buffer'[p][k].word = "cell" /\ buffer'[p][k].at = reg'[q].t
          BY DEF LateAt
        <5>2. LateAt(p, top[p])' <=> \E k \in DOMAIN buffer'[p] : buffer'[p][k].word = "cell" /\ buffer'[p][k].at = top'[p]
          BY DEF LateAt
        <5>3. QED
          BY <2>2, <4>1, <4>3, <5>1, <5>2
      <4>5. QED
        BY <2>2, <2>4, <3>1, <4>1, <4>2, <4>3, <4>4 DEF ThiefRead
    <3>3. QED
      BY <2>2, <2>4, <3>1, <3>2 DEF ThiefRead
  <2>5. CASE reg[q].v # p
    <3>1. /\ top'[reg[q].v] = top[reg[q].v] /\ End(reg[q].v)' = End(reg[q].v)
          /\ cell'[reg[q].v] = cell[reg[q].v]
      <4>1. /\ top'[reg[q].v] = top[reg[q].v] /\ own'[reg[q].v] = own[reg[q].v]
            /\ cell'[reg[q].v] = cell[reg[q].v] /\ pc'[reg[q].v] = pc[reg[q].v]
        BY <2>3, <2>5 DEF Alone
      <4>2. QED
        BY <2>2, <4>1 DEF End, Popping
    <3>2. LateAt(reg[q].v, reg[q].t)' <=> LateAt(reg[q].v, reg[q].t)
      BY <2>2, <2>3, <2>5 DEF LateAt, Alone
    <3>3. QED
      BY <2>2, <3>1, <3>2 DEF ThiefRead
  <2>6. QED
    BY <2>4, <2>5
<1>4. QED
  BY <1>1, <1>2, <1>3 DEF DequeInv, DequeSound, OthersKept

(* Then what is handed out is a matter of p alone.                         *)
LEMMA OwnerHands ==
    ASSUME NEW p \in Participants, OthersKept(p),
           Takes(p) => Source(p) = p /\ \E i \in Held(p) : i \notin Held(p)' /\ cur'[p] = Item(p, i),
           \A i \in Held(p) : i \notin Held(p)' => Takes(p) /\ Source(p) = p,
           \A i, j \in Held(p) : i \notin Held(p)' /\ j \notin Held(p)' => i = j,
           \A i \in Held(p) : i \in Held(p)' => Item(p, i)' = Item(p, i),
           \A i \in Held(p)' : i \notin Held(p) => own[p] <= i /\ pc[p] \in {"run", "join"}
    PROVE  HandsOut
<1>1. \A t \in Participants : Takes(t) => t = p
  BY DEF OthersKept
<1>2. \A q \in Participants \ {p} : Held(q)' = Held(q) /\ \A i : Item(q, i)' = Item(q, i)
  BY DEF OthersKept
<1>3. ASSUME NEW t \in Participants, Takes(t)
      PROVE  \E q \in Participants : \E i \in Held(q) :
                 q = Source(t) /\ i \notin Held(q)' /\ cur'[t] = Item(q, i)
  BY <1>1, <1>3
<1>4. ASSUME NEW q \in Participants
      PROVE  /\ \A i \in Held(q) : i \notin Held(q)' => \E t \in Participants : Takes(t) /\ Source(t) = q
             /\ \A i, j \in Held(q) : i \notin Held(q)' /\ j \notin Held(q)' => i = j
             /\ \A i \in Held(q) : i \in Held(q)' => Item(q, i)' = Item(q, i)
             /\ \A i \in Held(q)' : i \notin Held(q) => own[q] <= i /\ pc[q] \in {"run", "join"}
  <2>1. CASE q = p
    BY <2>1
  <2>2. CASE q # p
    BY <1>2, <2>2
  <2>3. QED
    BY <2>1, <2>2
<1>5. QED
  BY <1>3, <1>4 DEF HandsOut

Handed == DequeInv' /\ HandsOut

LEMMA PopHands ==
    ASSUME Inv, DequeInv, NEW p \in Participants, Pop(p)
    PROVE  Handed
<1> USE Basics
<1>0. MemoryInv /\ DequeTypes /\ Shapes /\ Sizes(p) /\ LateStores(p)
  BY DEF Inv, ThreadInv, DequeInv, DequeSound
<1>1. top[p] \in Nat /\ own[p] \in Int /\ bottom[p] \in Int
  BY <1>0, HeldIs
<1>2. /\ pc[p] \in {"step", "found", "missed"} /\ buffer[p] = <<>>
      /\ own' = [own EXCEPT ![p] = @ - 1] /\ bottom' = [bottom EXCEPT ![p] = own[p] - 1]
      /\ pc' = [pc EXCEPT ![p] = "popTop"] /\ UNCHANGED <<top, cell, reg, buffer>>
  BY DEF Pop, Exchange, Drained, Goto, Set
<1>3. own'[p] = own[p] - 1 /\ bottom'[p] = own[p] - 1 /\ pc'[p] = "popTop"
  BY <1>0, <1>1, <1>2 DEF MemoryInv, DequeTypes, Shapes
<1>4. DequeTypes'
  BY <1>0, <1>1, <1>2 DEF DequeTypes
<1>5. End(p)' = End(p) /\ End(p) = own[p]
  BY <1>1, <1>2, <1>3 DEF End, Popping
<1>6. Alone(p)
  BY <1>0, <1>2 DEF Alone, Stealing, MemoryInv, DequeTypes, Shapes
<1>7. Sizes(p)'
  BY <1>0, <1>1, <1>2, <1>3, <1>5 DEF Sizes
<1>8. LateStores(p)' /\ OwnerRead(p)'
  BY <1>2, <1>3 DEF LateStores, OwnerRead
<1>9. \A i : Item(p, i)' = Item(p, i) /\ (LateAt(p, i)' <=> LateAt(p, i))
  BY <1>2, ItemKept
<1>10. ThievesKept(p)
  BY <1>1, <1>2, <1>5, <1>9 DEF ThievesKept, LateAt
<1>11. DequeInv' /\ OthersKept(p)
  BY <1>0, <1>4, <1>6, <1>7, <1>8, <1>10, OwnerStep
<1>12. Held(p)' = Held(p)
  BY <1>1, <1>2, <1>3 DEF Held
<1>13. ~Takes(p)
  BY <1>3 DEF Takes
<1>14. QED
  BY <1>9, <1>11, <1>12, <1>13, OwnerHands DEF Handed

(* bottom is taken back to where it was.                                   *)
LEMMA RestoreKeeps ==
    ASSUME MemoryInv, DequeTypes, NEW p \in Participants, Restore(p), Sizes(p), buffer[p] = <<>>,
           Popping(p), ~Popping(p)', bottom' = bottom,
           top'[p] \in Nat, top[p] <= top'[p], top'[p] <= own[p] + 1
    PROVE  /\ own'[p] = own[p] + 1 /\ End(p)' = End(p) /\ \A i : ~LateAt(p, i)'
           /\ Sizes(p)' /\ LateStores(p)' /\ OwnerRead(p)'
           /\ \A q \in Participants \ {p} : own'[q] = own[q] /\ buffer'[q] = buffer[q]
<1> USE Basics
<1>0. top[p] \in Nat /\ own[p] \in Int /\ bottom[p] \in Int /\ End(p) = own[p] + 1
  BY HeldIs
<1>1. own'[p] = own[p] + 1 /\ buffer'[p] = <<Stored("bottom", own[p] + 1, None)>>
      /\ \A q \in Participants \ {p} : own'[q] = own[q] /\ buffer'[q] = buffer[q]
  BY DEF Restore, MemoryInv
<1>2. End(p)' = own[p] + 1
  BY <1>0, <1>1 DEF End
<1>3. /\ DOMAIN buffer'[p] = {1} /\ buffer'[p][1].word = "bottom" /\ buffer'[p][1].at = own[p] + 1
  BY <1>1 DEF Stored
<1>4. \A i : ~LateAt(p, i)'
  BY <1>3 DEF LateAt
<1>5. Sizes(p)'
  BY <1>0, <1>1, <1>2 DEF Sizes
<1>6. LateStores(p)'
  BY <1>0, <1>1, <1>3 DEF LateStores, LateStore
<1>7. OwnerRead(p)'
  BY DEF OwnerRead, Popping
<1>8. QED
  BY <1>0, <1>1, <1>2, <1>4, <1>5, <1>6, <1>7

(* The rest of a pop that gives the index i to its owner, or none.         *)
LEMMA PopTopHands ==
    ASSUME Inv, DequeInv, NEW p \in Participants, PopTop(p), Inv'
    PROVE  Handed
<1> USE Basics
<1>0. MemoryInv /\ DequeTypes /\ Shapes /\ Sizes(p) /\ LateStores(p)
  BY DEF Inv, ThreadInv, DequeInv, DequeSound
<1>1. top[p] \in Nat /\ own[p] \in Int /\ bottom[p] \in Int /\ End(p) \in Int /\ Held(p) = top[p] .. End(p) - 1
  BY <1>0, HeldIs
<1>2. pc[p] = "popTop" /\ UNCHANGED <<top, bottom, cell>> /\ Popping(p) /\ buffer[p] = <<>>
  BY <1>0 DEF PopTop, At, Popping, Sizes
<1>3. End(p) = own[p] + 1 /\ top[p] <= own[p] + 1 /\ own[p] + 1 <= top[p] + Cap /\ bottom[p] <= own[p]
  BY <1>0, <1>1, <1>2 DEF End, Sizes
<1>4. \A i : ~LateAt(p, i)
  BY <1>2 DEF LateAt
<1>5. CASE top[p] > own[p]
  <2>1. Restore(p) /\ pc' = [pc EXCEPT ![p] = "empty"] /\ reg' = reg
    BY <1>5 DEF PopTop, Goto, Set
  <2>2. pc'[p] = "empty" /\ ~Popping(p)'
    BY <1>0, <2>1 DEF Shapes, Popping
  <2>3. /\ own'[p] = own[p] + 1 /\ End(p)' = End(p) /\ \A i : ~LateAt(p, i)'
        /\ Sizes(p)' /\ LateStores(p)' /\ OwnerRead(p)'
        /\ \A q \in Participants \ {p} : own'[q] = own[q] /\ buffer'[q] = buffer[q]
    BY <1>0, <1>1, <1>2, <1>3, <2>1, <2>2, RestoreKeeps
  <2>4. Alone(p) /\ DequeTypes'
    BY <1>0, <1>2, <2>1, <2>2, <2>3 DEF Alone, Stealing, Shapes, DequeTypes
  <2>5. ThievesKept(p)
    BY <1>1, <1>2, <2>3 DEF ThievesKept
  <2>6. DequeInv' /\ OthersKept(p)
    BY <2>3, <2>4, <2>5, OwnerStep
  <2>7. Held(p) = {} /\ Held(p)' = {}
    <3>1. Held(p)' = top[p] .. own'[p] - 1
      BY <1>2, <2>2, <2>3 DEF Held, Popping
    <3>2. QED
      BY <1>1, <1>3, <1>5, <2>3, <3>1
  <2>8. ~Takes(p)
    BY <2>2, <1>2 DEF Takes
  <2>9. QED
    BY <2>6, <2>7, <2>8, OwnerHands DEF Handed
<1>6. CASE top[p] < own[p]
  <2>1. /\ cur' = [cur EXCEPT ![p] = cell[p][own[p] % Cap]] /\ pc' = [pc EXCEPT ![p] = "popped"]
        /\ UNCHANGED <<own, buffer, reg>>
    BY <1>1, <1>6 DEF PopTop, Goto, Set, Contended
  <2>2. pc'[p] = "popped" /\ ~Popping(p)' /\ cur'[p] = cell[p][own[p] % Cap]
    BY <1>0, <2>1 DEF Shapes, Popping
  <2>3. End(p)' = own[p]
    BY <1>1, <2>1, <2>2 DEF End
  <2>4. Alone(p) /\ DequeTypes'
    BY <1>0, <1>2, <2>1, <2>2 DEF Alone, Stealing, Shapes, DequeTypes
  <2>5. \A i : Item(p, i)' = Item(p, i) /\ (LateAt(p, i)' <=> LateAt(p, i))
    BY <1>2, <2>1, ItemKept
  <2>6. Sizes(p)' /\ LateStores(p)' /\ OwnerRead(p)'
    BY <1>0, <1>1, <1>2, <1>3, <1>6, <2>1, <2>2, <2>3 DEF Sizes, LateStores, OwnerRead
  <2>7. ThievesKept(p)
    BY <1>1, <1>2, <1>6, <2>1, <2>3, <2>5 DEF ThievesKept, LateAt
  <2>8. DequeInv' /\ OthersKept(p)
    BY <2>4, <2>6, <2>7, OwnerStep
  <2>9. Held(p)' = top[p] .. own[p] - 1 /\ Held(p) = top[p] .. own[p]
    BY <1>1, <1>2, <1>3, <2>1, <2>2 DEF Held, Popping
  <2>10. own[p] \in Held(p) /\ own[p] \notin Held(p)' /\ cur'[p] = Item(p, own[p])
    BY <1>1, <1>4, <1>6, <2>2, <2>9, ItemSlot
  <2>11. Takes(p) /\ Source(p) = p
    BY <1>2, <2>2 DEF Takes, Source
  <2>12. \A i \in Held(p) : i \notin Held(p)' => i = own[p]
    BY <1>1, <2>9
  <2>13. \A i \in Held(p)' : i \in Held(p)
    BY <1>1, <2>9
  <2>14. QED
    BY <2>5, <2>8, <2>10, <2>11, <2>12, <2>13, OwnerHands DEF Handed
<1>7. CASE top[p] = own[p]
  <2>1. /\ reg' = [reg EXCEPT ![p].t = top[p], ![p].x = cell[p][own[p] % Cap]]
        /\ pc' = [pc EXCEPT ![p] = "popLast"] /\ UNCHANGED <<own, buffer, cur>>
    BY <1>1, <1>7 DEF PopTop, Goto, Set, Contended
  <2>2. pc'[p] = "popLast" /\ Popping(p)' /\ End(p)' = End(p)
    BY <1>0, <1>2, <2>1 DEF Shapes, Popping, End
  <2>3. /\ reg' \in [Threads -> Regs] /\ reg'[p].t = own[p] /\ reg'[p].x = cell[p][own[p] % Cap]
        /\ \A q \in Threads \ {p} : reg'[q] = reg[q]
    <3>1. cell[p][own[p] % Cap] \in Val /\ top[p] \in Nat /\ reg \in [Threads -> Regs]
      <4>1. own[p] % Cap \in 0 .. Cap - 1
        BY <1>1
      <4>2. QED
        BY <1>0, <1>1, <4>1 DEF DequeTypes
    <3>2. reg' = [reg EXCEPT ![p] = [[reg[p] EXCEPT !.t = top[p]] EXCEPT !.x = cell[p][own[p] % Cap]]]
      BY <2>1, <3>1
    <3>3. [reg[p] EXCEPT !.t = top[p]] \in Regs /\ [reg[p] EXCEPT !.t = top[p]].t = top[p]
      BY <3>1 DEF Regs
    <3> DEFINE r == [reg[p] EXCEPT !.t = top[p]]
    <3>4. r \in Regs /\ r.t = top[p]
      BY <3>3
    <3> HIDE DEF r
    <3>5. /\ [r EXCEPT !.x = cell[p][own[p] % Cap]] \in Regs
          /\ [r EXCEPT !.x = cell[p][own[p] % Cap]].t = top[p]
          /\ [r EXCEPT !.x = cell[p][own[p] % Cap]].x = cell[p][own[p] % Cap]
      BY <3>1, <3>4 DEF Regs
    <3>6. QED
      BY <1>7, <3>1, <3>2, <3>5 DEF r
  <2>4. Alone(p) /\ DequeTypes'
    BY <1>0, <1>2, <2>1, <2>2, <2>3 DEF Alone, Stealing, Shapes, DequeTypes
  <2>5. \A i : Item(p, i)' = Item(p, i) /\ (LateAt(p, i)' <=> LateAt(p, i))
    BY <1>2, <2>1, ItemKept
  <2>6. Sizes(p)' /\ LateStores(p)' /\ OwnerRead(p)'
    BY <1>0, <1>1, <1>2, <1>7, <2>1, <2>2, <2>3 DEF Sizes, LateStores, OwnerRead
  <2>7. ThievesKept(p)
    BY <1>1, <1>2, <2>1, <2>2, <2>5 DEF ThievesKept, LateAt
  <2>8. DequeInv' /\ OthersKept(p)
    BY <2>4, <2>6, <2>7, OwnerStep
  <2>9. Held(p)' = Held(p)
    BY <1>2, <2>1, <2>2 DEF Held
  <2>10. ~Takes(p)
    BY <1>2, <2>2 DEF Takes
  <2>11. QED
    BY <2>5, <2>8, <2>9, <2>10, OwnerHands DEF Handed
<1>8. QED
  BY <1>1, <1>5, <1>6, <1>7

LEMMA PopLastHands ==
    ASSUME Inv, DequeInv, NEW p \in Participants, PopLast(p), Inv'
    PROVE  Handed
<1> USE Basics
<1>0. MemoryInv /\ DequeTypes /\ Shapes /\ Sizes(p) /\ LateStores(p) /\ OwnerRead(p) /\ MemoryInv'
  BY DEF Inv, ThreadInv, DequeInv, DequeSound
<1>1. top[p] \in Nat /\ own[p] \in Int /\ bottom[p] \in Int /\ End(p) \in Int /\ Held(p) = top[p] .. End(p) - 1
  BY <1>0, HeldIs
<1>2. pc[p] = "popLast" /\ UNCHANGED <<bottom, cell>> /\ Popping(p) /\ buffer[p] = <<>> /\ Restore(p)
  BY <1>0 DEF PopLast, At, Popping, Sizes
<1>3. /\ End(p) = own[p] + 1 /\ top[p] <= own[p] + 1 /\ reg[p].t = own[p] /\ own[p] <= top[p]
      /\ top[p] = own[p] => reg[p].x = cell[p][own[p] % Cap]
  BY <1>0, <1>1, <1>2 DEF End, Sizes, OwnerRead
<1>4. \A i : ~LateAt(p, i)
  BY <1>2 DEF LateAt
<1>5. /\ reg' = [reg EXCEPT ![p] = NoReg] /\ reg' \in [Threads -> Regs]
      /\ \E l \in {"popped", "empty"} : pc' = [pc EXCEPT ![p] = l]
      /\ top' = top \/ top' = [top EXCEPT ![p] = @ + 1]
  <2>1. NoReg \in Regs
    BY DEF NoReg, Regs, Val
  <2>2. QED
    BY <1>0, <2>1 DEF PopLast, Goto, Set, DequeTypes
<1>6. pc'[p] \in {"popped", "empty"} /\ ~Popping(p)' /\ ~Stealing(p)'
  BY <1>0, <1>5 DEF Shapes, Popping, Stealing
<1>7. top'[p] \in Nat /\ top' \in [Participants -> Nat] /\ top[p] <= top'[p] /\ top'[p] <= own[p] + 1
  <2>1. CASE top' = top
    BY <1>0, <1>1, <1>3, <2>1 DEF DequeTypes
  <2>2. CASE top' # top
    <3>1. top[p] = own[p] /\ top' = [top EXCEPT ![p] = @ + 1]
      BY <1>3, <1>5, <2>2 DEF PopLast
    <3>2. top'[p] = own[p] + 1
      BY <1>0, <1>1, <3>1 DEF DequeTypes
    <3>3. QED
      BY <1>0, <1>1, <3>1, <3>2 DEF DequeTypes
  <2>3. QED
    BY <2>1, <2>2
<1>8. /\ own'[p] = own[p] + 1 /\ End(p)' = End(p) /\ \A i : ~LateAt(p, i)'
      /\ Sizes(p)' /\ LateStores(p)' /\ OwnerRead(p)'
      /\ \A q \in Participants \ {p} : own'[q] = own[q] /\ buffer'[q] = buffer[q]
  BY <1>0, <1>2, <1>6, <1>7, RestoreKeeps
<1>9. Alone(p) /\ DequeTypes'
  BY <1>0, <1>2, <1>5, <1>6, <1>7, <1>8 DEF Alone, Stealing, Shapes, DequeTypes
<1>10. ThievesKept(p)
  BY <1>2, <1>7, <1>8 DEF ThievesKept
<1>11. DequeInv' /\ OthersKept(p)
  BY <1>8, <1>9, <1>10, OwnerStep
<1>12. Held(p)' = top'[p] .. own[p] /\ Held(p) = top[p] .. own[p]
  <2>1. Held(p)' = top'[p] .. own'[p] - 1
    BY <1>6 DEF Held, Popping
  <2>2. QED
    BY <1>1, <1>3, <1>8, <2>1
<1>13. CASE top[p] = reg[p].t
  <2>1. top'[p] = own[p] + 1 /\ cur'[p] = cell[p][own[p] % Cap] /\ pc'[p] = "popped"
    BY <1>0, <1>1, <1>3, <1>13 DEF PopLast, Goto, Set, Shapes, DequeTypes
  <2>2. Held(p)' = {} /\ Held(p) = {own[p]}
    BY <1>1, <1>3, <1>12, <1>13, <2>1
  <2>3. Takes(p) /\ Source(p) = p /\ cur'[p] = Item(p, own[p])
    BY <1>2, <1>4, <2>1, ItemSlot DEF Takes, Source
  <2>4. QED
    BY <1>11, <2>2, <2>3, OwnerHands DEF Handed
<1>14. CASE top[p] # reg[p].t
  <2>1. top'[p] = top[p] /\ pc'[p] = "empty" /\ top[p] = own[p] + 1
    BY <1>0, <1>1, <1>3, <1>14 DEF PopLast, Goto, Shapes, Set
  <2>2. Held(p)' = {} /\ Held(p) = {}
    BY <1>1, <1>12, <2>1
  <2>3. ~Takes(p)
    BY <1>2, <2>1 DEF Takes
  <2>4. QED
    BY <1>11, <2>2, <2>3, OwnerHands DEF Handed
<1>15. QED
  BY <1>13, <1>14

(* The oldest store of p reaches memory: no index changes its node.        *)
LEMMA DrainHands ==
    ASSUME Inv, DequeInv, NEW p \in Participants, Drain(p), Inv'
    PROVE  Handed
<1> USE Basics
<1>0. MemoryInv /\ DequeTypes /\ Shapes /\ Sizes(p) /\ LateStores(p) /\ OwnerRead(p) /\ MemoryInv'
  BY DEF Inv, ThreadInv, DequeInv, DequeSound
<1>1. top[p] \in Nat /\ own[p] \in Int /\ bottom[p] \in Int /\ End(p) \in Int /\ Held(p) = top[p] .. End(p) - 1
  BY <1>0, HeldIs
<1> DEFINE b == buffer[p]
           s == b[1]
<1>2. /\ b \in Seq(OwnStores) /\ Len(b) \in Nat /\ DOMAIN b = 1 .. Len(b) /\ b # <<>>
      /\ \A k \in DOMAIN b : /\ k \in Nat \ {0} /\ b[k].word \in {"cell", "bottom"}
                             /\ b[k].at \in Int /\ b[k].val \in Val
  BY <1>0, StoreTyped DEF Drain, Drained
<1>3. 1 \in DOMAIN b /\ Head(b) = s
  BY <1>2, EmptySeq
<1>4. DOMAIN Tail(b) = 1 .. Len(b) - 1 /\ \A k \in 1 .. Len(b) - 1 : Tail(b)[k] = b[k + 1] /\ k + 1 \in DOMAIN b
  <2>1. Tail(b) \in Seq(OwnStores) /\ Len(Tail(b)) = Len(b) - 1 /\ \A k \in 1 .. Len(Tail(b)) : Tail(b)[k] = b[k + 1]
    BY <1>2, HeadTailProperties
  <2>2. QED
    BY <1>2, <2>1, LenProperties
<1>5. /\ buffer' = [buffer EXCEPT ![p] = Tail(b)] /\ UNCHANGED <<top, own, pc, cur, reg>>
      /\ bottom' = IF s.word = "bottom" THEN [bottom EXCEPT ![p] = s.at] ELSE bottom
      /\ cell' = IF s.word = "cell" THEN [cell EXCEPT ![p][s.at % Cap] = s.val] ELSE cell
  BY <1>3 DEF Drain, Set
<1>6. buffer'[p] = Tail(b) /\ \A q \in Participants \ {p} : buffer'[q] = buffer[q]
  BY <1>0, <1>5 DEF MemoryInv
<1>7. ~Popping(p) /\ End(p) = own[p] /\ End(p)' = End(p) /\ Held(p)' = Held(p) /\ ~Popping(p)'
  BY <1>0, <1>1, <1>2, <1>5 DEF Sizes, End, Held, Popping
<1>8. LateStore(p, 1) /\ s.at \in Int /\ s.val \in Val /\ s.word \in {"cell", "bottom"}
  BY <1>0, <1>2, <1>3 DEF LateStores
<1>9. s.word = "cell" => s.at \in Nat /\ top[p] <= s.at /\ s.at < own[p] /\ bottom[p] <= s.at
                         /\ s.at % Cap \in 0 .. Cap - 1
  BY <1>1, <1>8 DEF LateStore
<1>10. DequeTypes'
  <2>1. bottom' \in [Participants -> Int]
    BY <1>0, <1>5, <1>8 DEF DequeTypes
  <2>2. cell' \in [Participants -> [0 .. Cap - 1 -> Val]]
    <3>1. CASE s.word = "cell"
      <4>1. cell' = [cell EXCEPT ![p] = [cell[p] EXCEPT ![s.at % Cap] = s.val]]
        BY <1>0, <1>5, <3>1 DEF DequeTypes
      <4>2. [cell[p] EXCEPT ![s.at % Cap] = s.val] \in [0 .. Cap - 1 -> Val]
        BY <1>0, <1>8, <1>9, <3>1 DEF DequeTypes
      <4>3. QED
        BY <1>0, <4>1, <4>2 DEF DequeTypes
    <3>2. CASE s.word # "cell"
      BY <1>0, <1>5, <3>2 DEF DequeTypes
    <3>3. QED
      BY <3>1, <3>2
  <2>3. QED
    BY <1>0, <1>5, <2>1, <2>2 DEF DequeTypes
<1>11. \A q \in Participants : Stealing(q) => ThiefRead(q) /\ reg[q].v \in Participants
  BY DEF DequeInv, DequeSound, DequeTypes, Regs
<1>12. Alone(p)
  <2>1. \A q \in Participants \ {p} : bottom'[q] = bottom[q] /\ cell'[q] = cell[q]
    BY <1>0, <1>5 DEF DequeTypes
  <2>2. Stealing(p)' => ThiefRead(p)'
    <3>1. SUFFICES ASSUME Stealing(p) PROVE ThiefRead(p)'
      BY <1>5 DEF Stealing
    <3>2. ThiefRead(p) /\ reg[p].v \in Participants \ {p}
      BY <1>11, <3>1 DEF ThiefRead
    <3>3. cell'[reg[p].v] = cell[reg[p].v] /\ buffer'[reg[p].v] = buffer[reg[p].v]
      BY <1>6, <2>1, <3>2
    <3>4. /\ LateAt(reg[p].v, reg[p].t)' <=> LateAt(reg[p].v, reg[p].t)
          /\ End(reg[p].v)' = End(reg[p].v)
      BY <1>5, <3>3 DEF LateAt, End, Popping
    <3>5. QED
      BY <1>5, <3>1, <3>2, <3>3, <3>4 DEF ThiefRead
  <2>3. QED
    BY <1>5, <1>6, <2>1, <2>2 DEF Alone
<1>13. Sizes(p)' /\ OwnerRead(p)'
  <2>1. bottom'[p] <= own[p]
    BY <1>0, <1>1, <1>5, <1>8 DEF Sizes, LateStore, DequeTypes
  <2>2. QED
    BY <1>0, <1>5, <1>7, <2>1 DEF Sizes, OwnerRead, Popping
<1>14. LateStores(p)'
  <2>1. SUFFICES ASSUME NEW k \in 1 .. Len(b) - 1 PROVE LateStore(p, k)'
    BY <1>4, <1>6 DEF LateStores
  <2>2. k + 1 \in DOMAIN b /\ LateStore(p, k + 1) /\ Tail(b)[k] = b[k + 1] /\ k \in Nat
    BY <1>0, <1>2, <1>4, <2>1 DEF LateStores
  <2>3. CASE b[k + 1].word # "cell"
    BY <1>5, <1>6, <2>2, <2>3 DEF LateStore
  <2>4. CASE b[k + 1].word = "cell"
    <3>1. \A j \in 1 .. k :
              /\ b[j].word = "bottom" => b[j].at <= b[k + 1].at
              /\ b[j].word = "cell" => b[j].at < b[k + 1].at
      BY <2>2, <2>4 DEF LateStore
    <3>2. bottom'[p] <= b[k + 1].at
      BY <1>0, <1>5, <1>8, <2>1, <2>2, <2>4, <3>1 DEF LateStore, DequeTypes
    <3>3. \A j \in 1 .. k - 1 : Tail(b)[j] = b[j + 1] /\ j + 1 \in 1 .. k
      BY <1>4, <2>1, <2>2, <1>2
    <3>4. QED
      <4>1. buffer'[p][k] = b[k + 1] /\ top'[p] = top[p] /\ own'[p] = own[p]
        BY <1>5, <1>6, <2>2
      <4>2. /\ top[p] <= b[k + 1].at /\ b[k + 1].at < own[p]
        BY <2>2, <2>4 DEF LateStore
      <4>3. \A j \in 1 .. k - 1 : buffer'[p][j] = b[j + 1] /\ j + 1 \in 1 .. k
        BY <1>6, <3>3
      <4>4. \A j \in 1 .. k - 1 :
                /\ buffer'[p][j].word = "bottom" => buffer'[p][j].at <= buffer'[p][k].at
                /\ buffer'[p][j].word = "cell" => buffer'[p][j].at < buffer'[p][k].at
        <5> HIDE DEF b
        <5>1. QED
          BY <3>1, <4>1, <4>3
      <4> HIDE DEF b
      <4>5. /\ buffer'[p][k].word = "cell" /\ top'[p] <= buffer'[p][k].at
            /\ bottom'[p] <= buffer'[p][k].at /\ buffer'[p][k].at < own'[p]
        BY <2>4, <3>2, <4>1, <4>2
      <4>6. QED
        BY <4>4, <4>5, CellStored
  <2>5. QED
    BY <2>3, <2>4
<1>15. ASSUME NEW i \in Nat, top[p] <= i, i < own[p]
       PROVE  /\ Item(p, i)' = Item(p, i)
              /\ LateAt(p, i)' => LateAt(p, i)
              /\ ~LateAt(p, i) => cell'[p][i % Cap] = cell[p][i % Cap]
  <2>1. ASSUME s.word # "cell" \/ s.at # i PROVE cell'[p][i % Cap] = cell[p][i % Cap]
    <3>1. CASE s.word # "cell"
      BY <1>5, <3>1
    <3>2. CASE s.word = "cell"
      <4>1. s.at < i + Cap /\ i < s.at + Cap
        <5>1. own[p] <= top[p] + Cap
          BY <1>0, <1>7 DEF Sizes
        <5> HIDE DEF s, b
        <5>2. QED
          BY <1>1, <1>9, <1>15, <3>2, <5>1, DequeAssumption
      <4>2. s.at % Cap # i % Cap
        <5> DEFINE a == s.at
        <5>1. a \in Nat /\ a # i /\ a < i + Cap /\ i < a + Cap
          BY <1>9, <2>1, <3>2, <4>1
        <5> HIDE DEF a
        <5>2. a % Cap # i % Cap
          <6>1. CASE a < i
            BY <5>1, <6>1, SlotsApart
          <6>2. CASE i < a
            BY <5>1, <6>2, SlotsApart
          <6>3. QED
            BY <5>1, <6>1, <6>2
        <5>3. QED
          BY <5>2 DEF a
      <4>3. QED
        BY <1>0, <1>5, <3>2, <4>2 DEF DequeTypes
    <3>3. QED
      BY <3>1, <3>2
  <2>2. LateAt(p, i)' => LateAt(p, i)
    BY <1>4, <1>6 DEF LateAt
  <2>3. ASSUME ~LateAt(p, i) PROVE cell'[p][i % Cap] = cell[p][i % Cap]
    BY <1>3, <2>1, <2>3 DEF LateAt
  <2>4. CASE \E k \in 1 .. Len(b) - 1 : b[k + 1].word = "cell" /\ b[k + 1].at = i
    <3>1. PICK k \in 1 .. Len(b) - 1 : b[k + 1].word = "cell" /\ b[k + 1].at = i
      BY <2>4
    <3>2. k + 1 \in DOMAIN b
      BY <1>4
    <3>3. \A j \in DOMAIN b : b[j].word = "cell" /\ b[j].at = i => j = k + 1
      BY <1>0, <3>1, <3>2, StoresApart
    <3>4. Item(p, i) = b[k + 1].val
      <4>1. Item(p, i) = NodeAt(b, cell[p][i % Cap], i)
        BY ItemIs
      <4> HIDE DEF b
      <4>2. NodeAt(b, cell[p][i % Cap], i) = b[k + 1].val
        BY <3>1, <3>2, <3>3, NodeLate
      <4>3. QED
        BY <4>1, <4>2
    <3>5. \A j \in DOMAIN Tail(b) : Tail(b)[j].word = "cell" /\ Tail(b)[j].at = i => j = k
      BY <1>2, <1>4, <3>1, <3>3
    <3>6. Item(p, i)' = buffer'[p][k].val
      <4>1. /\ k \in DOMAIN buffer'[p] /\ buffer'[p][k].word = "cell" /\ buffer'[p][k].at = i
            /\ \A j \in DOMAIN buffer'[p] : buffer'[p][j].word = "cell" /\ buffer'[p][j].at = i => j = k
        BY <1>4, <1>6, <3>1, <3>5
      <4>2. QED
        BY <4>1, NextLate
    <3>7. QED
      BY <1>4, <1>6, <2>2, <2>3, <3>1, <3>4, <3>6
  <2>5. CASE ~ \E k \in 1 .. Len(b) - 1 : b[k + 1].word = "cell" /\ b[k + 1].at = i
    <3>1. NodeAt(Tail(b), cell'[p][i % Cap], i) = cell'[p][i % Cap]
      <4> DEFINE T == Tail(b)
      <4>1. \A k \in DOMAIN T : ~ (T[k].word = "cell" /\ T[k].at = i)
        BY <1>4, <2>5
      <4> HIDE DEF T, b
      <4>2. NodeAt(T, cell'[p][i % Cap], i) = cell'[p][i % Cap]
        BY <4>1, NodeInSlot
      <4>3. QED
        BY <4>2 DEF T
    <3>2. Item(p, i)' = cell'[p][i % Cap]
      BY <1>6, <3>1, ItemIs
    <3>3. CASE s.word = "cell" /\ s.at = i
      <4>1. \A j \in DOMAIN b : b[j].word = "cell" /\ b[j].at = i => j = 1
        BY <1>0, <1>3, <3>3, StoresApart
      <4>2. Item(p, i) = s.val
        BY <1>3, <3>3, <4>1, ItemIs, NodeLate
      <4>3. cell'[p][i % Cap] = s.val
        BY <1>0, <1>5, <1>9, <3>3 DEF DequeTypes
      <4>4. QED
        BY <2>2, <2>3, <3>2, <4>2, <4>3
    <3>4. CASE ~ (s.word = "cell" /\ s.at = i)
      <4>1. \A k \in DOMAIN b : ~ (b[k].word = "cell" /\ b[k].at = i)
        <5>1. \A k \in DOMAIN b : k = 1 \/ (k - 1 \in 1 .. Len(b) - 1 /\ (k - 1) + 1 = k)
          BY <1>2
        <5>2. QED
          BY <2>5, <3>4, <5>1
      <4>2. ~LateAt(p, i)
        BY <4>1 DEF LateAt
      <4>3. QED
        BY <2>2, <2>3, <3>2, <4>2, ItemSlot
    <3>5. QED
      BY <3>3, <3>4
  <2>6. QED
    BY <2>2, <2>3, <2>4, <2>5
<1> HIDE DEF b, s
<1>16. ThievesKept(p)
  <2>1. top'[p] = top[p] /\ End(p)' = End(p) /\ End(p) = own[p]
    BY <1>5, <1>7
  <2>2. ASSUME top[p] < End(p), ~LateAt(p, top[p])
        PROVE  ~LateAt(p, top[p])' /\ cell'[p][top[p] % Cap] = cell[p][top[p] % Cap]
    <3>1. (LateAt(p, top[p])' => LateAt(p, top[p]))
      <4>1. LateAt(p, top[p])' <=> \E k \in DOMAIN buffer'[p] : buffer'[p][k].word = "cell" /\ buffer'[p][k].at = top[p]
        BY <1>5 DEF LateAt
      <4>2. QED
        BY <1>4, <1>6, <4>1 DEF LateAt, b
    <3>2. QED
      BY <1>1, <1>15, <2>1, <2>2, <3>1
  <2>3. QED
    BY <1>1, <2>1, <2>2 DEF ThievesKept
<1>17. DequeInv' /\ OthersKept(p)
  BY <1>10, <1>12, <1>13, <1>14, <1>16, OwnerStep
<1>18. \A i \in Held(p) : Item(p, i)' = Item(p, i)
  BY <1>1, <1>7, <1>15
<1>19. ~Takes(p)
  BY <1>5 DEF Takes, Popping
<1>20. QED
  BY <1>7, <1>17, <1>18, <1>19, OwnerHands DEF Handed

(* A thief's step that takes nothing.                                      *)
LEMMA ThiefStep ==
    ASSUME DequeInv, NEW q \in Participants, Stealing(q) \/ At(q, "steal"),
           UNCHANGED <<top, bottom, cell, own, buffer>>, reg' \in [Threads -> Regs],
           \A s \in Participants \ {q} : pc'[s] = pc[s] /\ reg'[s] = reg[s],
           pc'[q] \in {"stealBottom", "stealCell", "stealTop", "missed"}, Stealing(q)' => ThiefRead(q)'
    PROVE  Handed
<1> USE Basics
<1>0. DequeTypes /\ Sizes(q) /\ LateStores(q) /\ OwnerRead(q)
  BY DEF DequeInv, DequeSound
<1>1. ~Popping(q) /\ ~Popping(q)' /\ ~Takes(q)
  BY DEF Stealing, At, Popping, Takes
<1>2. End(q)' = End(q) /\ Held(q)' = Held(q)
  BY <1>1 DEF End, Held, Popping
<1>3. \A i : Item(q, i)' = Item(q, i) /\ (LateAt(q, i)' <=> LateAt(q, i))
  BY ItemKept
<1>4. DequeTypes' /\ Alone(q)
  BY <1>0 DEF DequeTypes, Alone
<1>5. Sizes(q)' /\ LateStores(q)' /\ OwnerRead(q)'
  BY <1>0, <1>1, <1>2 DEF Sizes, LateStores, LateStore, OwnerRead, Popping
<1>6. ThievesKept(q)
  <2>1. top[q] \in Nat
    BY <1>0 DEF DequeTypes
  <2>2. LateAt(q, top[q])' <=> LateAt(q, top[q])
    BY DEF LateAt
  <2>3. QED
    BY <1>2, <2>1, <2>2 DEF ThievesKept
<1>7. DequeInv' /\ OthersKept(q)
  BY <1>4, <1>5, <1>6, OwnerStep
<1>8. QED
  BY <1>1, <1>2, <1>3, <1>7, OwnerHands DEF Handed

LEMMA StealHands ==
    ASSUME Inv, DequeInv, NEW q \in Participants, Steal(q) \/ StealBottom(q) \/ StealCell(q)
    PROVE  Handed
<1> USE Basics DEF memoryVars
<1>0. Shapes /\ MemoryInv /\ DequeTypes /\ ThiefRead(q) /\ reg[q] \in Regs
  BY DEF Inv, ThreadInv, DequeInv, DequeSound, DequeTypes
<1>1. NoReg \in Regs
  BY DEF NoReg, Regs, Val
<1>2. \A p \in Participants : Sizes(p) /\ LateStores(p)
  BY DEF DequeInv, DequeSound
<1>3. CASE Steal(q)
  <2>1. PICK v \in Participants \ {q} : reg' = [reg EXCEPT ![q] = [[NoReg EXCEPT !.v = v] EXCEPT !.t = top[v]]]
    BY <1>3 DEF Steal, Set
  <2> DEFINE r == [[NoReg EXCEPT !.v = v] EXCEPT !.t = top[v]]
  <2>2. r \in Regs /\ r.v = v /\ r.t = top[v]
    BY <1>0, <1>1 DEF DequeTypes, Regs, NoReg
  <2> HIDE DEF r
  <2>3. /\ reg' \in [Threads -> Regs] /\ reg'[q].v = v /\ reg'[q].t = top[v]
        /\ \A s \in Participants \ {q} : reg'[s] = reg[s]
    BY <1>0, <2>1, <2>2 DEF DequeTypes, r
  <2>4. pc'[q] = "stealBottom" /\ \A s \in Participants \ {q} : pc'[s] = pc[s]
    BY <1>0, <1>3 DEF Steal, Goto, Set, Shapes
  <2>5. ThiefRead(q)'
    <3>1. top'[v] = top[v] /\ top[v] \in Nat
      BY <1>0, <1>3 DEF Steal, DequeTypes
    <3>2. QED
      BY <2>3, <2>4, <3>1 DEF ThiefRead
  <2>6. QED
    BY <1>3, <2>3, <2>4, <2>5, ThiefStep DEF Steal
<1>4. CASE StealBottom(q)
  <2>1. At(q, "stealBottom") /\ UNCHANGED <<top, bottom, cell, own, buffer>> /\ Stealing(q)
    BY <1>4 DEF StealBottom, At, Stealing
  <2>2. CASE reg[q].t >= bottom[reg[q].v]
    <3>1. reg' = [reg EXCEPT ![q] = NoReg] /\ pc' = [pc EXCEPT ![q] = "missed"]
      BY <1>4, <2>2 DEF StealBottom, Goto, Set
    <3>2. reg' \in [Threads -> Regs] /\ \A s \in Participants \ {q} : pc'[s] = pc[s] /\ reg'[s] = reg[s]
      BY <1>0, <1>1, <3>1 DEF DequeTypes, Shapes
    <3>3. pc'[q] = "missed"
      BY <1>0, <3>1 DEF Shapes
    <3>4. QED
      BY <2>1, <3>2, <3>3, ThiefStep DEF Stealing
  <2>3. CASE ~ (reg[q].t >= bottom[reg[q].v])
    <3>1. reg' = reg /\ pc' = [pc EXCEPT ![q] = "stealCell"]
      BY <1>4, <2>3 DEF StealBottom, Goto, Set
    <3>2. pc'[q] = "stealCell" /\ \A s \in Participants \ {q} : pc'[s] = pc[s]
      BY <1>0, <3>1 DEF Shapes
    <3> DEFINE v == reg[q].v
               t == reg[q].t
    <3>3. /\ v \in Participants /\ t \in Nat /\ v # q /\ t <= top[v] /\ bottom[v] \in Int
          /\ top[v] \in Nat /\ own[v] \in Int
      BY <1>0, <2>1 DEF ThiefRead, Regs, DequeTypes, MemoryInv
    <3>4. t < bottom[v] /\ bottom[v] <= own[v]
      BY <1>2, <2>3, <3>3 DEF Sizes
    <3>5. t < End(v)
      BY <3>3, <3>4 DEF End
    <3>6. ~LateAt(v, t)
      <4>1. ASSUME NEW k \in DOMAIN buffer[v], buffer[v][k].word = "cell" PROVE buffer[v][k].at # t
        <5>1. bottom[v] <= buffer[v][k].at /\ buffer[v][k].at \in Int
          BY <1>0, <1>2, <3>3, <4>1, StoreTyped DEF LateStores, LateStore
        <5>2. QED
          BY <3>3, <3>4, <5>1
      <4>2. QED
        BY <4>1 DEF LateAt
    <3>7. End(v)' = End(v) /\ (LateAt(v, t)' <=> LateAt(v, t))
      <4>1. pc'[v] = pc[v]
        BY <3>2, <3>3
      <4> HIDE DEF v, t
      <4>2. End(v)' = own'[v'] + IF pc'[v'] \in {"popTop", "popLast"} THEN 1 ELSE 0
        BY DEF End, Popping
      <4>3. v' = v /\ t' = t
        BY <3>1 DEF v, t
      <4>4. QED
        BY <2>1, <4>1, <4>2, <4>3 DEF End, Popping, LateAt
    <3>8. ThiefRead(q)'
      BY <2>1, <3>1, <3>2, <3>3, <3>5, <3>6, <3>7 DEF ThiefRead
    <3>9. reg' \in [Threads -> Regs]
      BY <1>0, <3>1 DEF DequeTypes
    <3>10. QED
      BY <2>1, <3>1, <3>2, <3>8, <3>9, ThiefStep
  <2>4. QED
    BY <2>2, <2>3
<1>5. CASE StealCell(q)
  <2>1. At(q, "stealCell") /\ UNCHANGED <<top, bottom, cell, own, buffer>> /\ Stealing(q)
        /\ reg' = [reg EXCEPT ![q].x = cell[reg[q].v][reg[q].t % Cap]]
    BY <1>5 DEF StealCell, At, Stealing
  <2>2. pc'[q] = "stealTop" /\ \A s \in Participants \ {q} : pc'[s] = pc[s]
    BY <1>0, <1>5 DEF StealCell, Goto, Set, Shapes
  <2> DEFINE v == reg[q].v
             t == reg[q].t
  <2>3. v \in Participants /\ t \in Nat /\ v # q /\ t <= top[v]
    BY <1>0, <2>1 DEF ThiefRead, Regs
  <2>4. cell[v][t % Cap] \in Val
    <3>1. t % Cap \in 0 .. Cap - 1
      BY <2>3
    <3> HIDE DEF v, t
    <3>2. QED
      BY <1>0, <2>3, <3>1 DEF DequeTypes
  <2> DEFINE r == [reg[q] EXCEPT !.x = cell[v][t % Cap]]
  <2>5. r \in Regs /\ r.v = v /\ r.t = t /\ r.x = cell[v][t % Cap]
    BY <1>0, <2>4 DEF Regs
  <2>6. reg' = [reg EXCEPT ![q] = r]
    BY <1>0, <2>1 DEF DequeTypes
  <2> HIDE DEF r
  <2>7. reg' \in [Threads -> Regs] /\ reg'[q] = r /\ \A s \in Participants \ {q} : reg'[s] = reg[s]
    BY <1>0, <2>5, <2>6 DEF DequeTypes
  <2>8. t = top[v] => t < End(v) /\ ~LateAt(v, t)
    BY <1>0, <2>1 DEF ThiefRead, At
  <2>9. reg'[q].v = v /\ reg'[q].t = t /\ reg'[q].x = cell[v][t % Cap] /\ pc'[v] = pc[v]
    BY <2>2, <2>3, <2>5, <2>7
  <2>10. ThiefRead(q)'
    <3>1. ThiefRead(q)' <=>
            (Stealing(q)' =>
               /\ reg'[q].v # q /\ reg'[q].t <= top'[reg'[q].v]
               /\ reg'[q].t = top'[reg'[q].v] /\ pc'[q] # "stealBottom" =>
                    /\ reg'[q].t < own'[reg'[q].v] + IF pc'[reg'[q].v] \in {"popTop", "popLast"} THEN 1 ELSE 0
                    /\ ~ \E k \in DOMAIN buffer'[reg'[q].v] : buffer'[reg'[q].v][k].word = "cell"
                                                            /\ buffer'[reg'[q].v][k].at = reg'[q].t
                    /\ pc'[q] = "stealTop" => reg'[q].x = cell'[reg'[q].v][reg'[q].t % Cap])
      BY DEF ThiefRead, End, Popping, LateAt
    <3> HIDE DEF v, t
    <3>2. QED
      BY <2>1, <2>3, <2>8, <2>9, <3>1 DEF End, Popping, LateAt
  <2>11. QED
    BY <2>1, <2>2, <2>7, <2>10, ThiefStep
<1>6. QED
  BY <1>3, <1>4, <1>5

(* A thief that wins the race has the node at top.                         *)
LEMMA StealTopHands ==
    ASSUME Inv, DequeInv, NEW q \in Participants, StealTop(q)
    PROVE  Handed
<1> USE Basics
<1>0. Shapes /\ MemoryInv /\ DequeTypes /\ ThiefRead(q) /\ reg[q] \in Regs /\ At(q, "stealTop") /\ Stealing(q)
  BY DEF Inv, ThreadInv, DequeInv, DequeSound, DequeTypes, StealTop, At, Stealing
<1>1. /\ reg' = [reg EXCEPT ![q] = NoReg] /\ reg' \in [Threads -> Regs]
      /\ \A s \in Participants \ {q} : reg'[s] = reg[s]
      /\ UNCHANGED <<bottom, cell, own, buffer>>
  <2>1. NoReg \in Regs
    BY DEF NoReg, Regs, Val
  <2>2. QED
    BY <1>0, <2>1 DEF StealTop, Set, DequeTypes
<1>2. PICK v \in Participants : v = reg[q].v
  BY <1>0 DEF Regs
<1>3. PICK t \in Nat : t = reg[q].t
  BY <1>0 DEF Regs
<1>4. v # q /\ (t = top[v] => t < End(v) /\ ~LateAt(v, t) /\ reg[q].x = cell[v][t % Cap])
  BY <1>0, <1>2, <1>3 DEF ThiefRead, At
<1>5. CASE top[v] # t
  <2>1. top' = top /\ pc' = [pc EXCEPT ![q] = "missed"]
    <3>1. ~ (top[reg[q].v] = reg[q].t)
      BY <1>2, <1>3, <1>5
    <3> DEFINE won == top[reg[q].v] = reg[q].t
               A == top' = [top EXCEPT ![reg[q].v] = @ + 1] /\ cur' = Set(cur, q, reg[q].x) /\ Goto(q, "run")
               B == UNCHANGED <<top, cur>> /\ Goto(q, "missed")
    <3>2. IF won THEN A ELSE B
      BY DEF StealTop
    <3>3. ~won
      BY <3>1
    <3> HIDE DEF won, A
    <3>4. B
      BY <3>2, <3>3
    <3>5. QED
      BY <3>4 DEF Goto, Set
  <2>2. pc'[q] = "missed" /\ \A s \in Participants \ {q} : pc'[s] = pc[s]
    BY <1>0, <2>1 DEF Shapes
  <2>3. QED
    BY <1>0, <1>1, <2>1, <2>2, ThiefStep DEF Stealing
<1>6. CASE top[v] = t
  <2>1. /\ top' = [top EXCEPT ![v] = @ + 1] /\ cur' = [cur EXCEPT ![q] = reg[q].x]
        /\ pc' = [pc EXCEPT ![q] = "run"]
    BY <1>2, <1>3, <1>6 DEF StealTop, Goto, Set
  <2>2. /\ pc'[q] = "run" /\ (\A s \in Participants \ {q} : pc'[s] = pc[s]) /\ cur'[q] = reg[q].x
        /\ top'[v] = t + 1 /\ (\A s \in Participants \ {v} : top'[s] = top[s])
        /\ top' \in [Participants -> Nat]
    BY <1>0, <1>6, <2>1 DEF Shapes, DequeTypes
  <2>21. \A s \in Participants :
            /\ top[s] \in Nat /\ top'[s] \in Nat /\ top[s] <= top'[s]
            /\ s # v => top'[s] = top[s]
    <3>1. \A s \in Participants : top[s] \in Nat
      BY <1>0 DEF DequeTypes
    <3>2. top[v] <= top'[v] /\ top'[v] \in Nat
      BY <1>6, <2>2, <3>1
    <3>3. QED
      BY <2>2, <3>1, <3>2
  <2>3. ~Stealing(q)' /\ ~Popping(q) /\ \A s \in Participants : (Popping(s)' <=> Popping(s)) /\ End(s)' = End(s)
    <3>1. ~Stealing(q)' /\ ~Popping(q) /\ ~Popping(q)'
      BY <1>0, <2>2 DEF Stealing, Popping, At
    <3>2. \A s \in Participants : (Popping(s)' <=> Popping(s))
      BY <2>2, <3>1 DEF Popping
    <3>3. QED
      BY <1>1, <3>1, <3>2 DEF End
  <2>4. \A s \in Participants : \A i : Item(s, i)' = Item(s, i) /\ (LateAt(s, i)' <=> LateAt(s, i))
    BY <1>1, ItemKept
  <2>5. DequeTypes'
    BY <1>0, <1>1, <2>2 DEF DequeTypes
  <2>6. t < End(v) /\ ~LateAt(v, t) /\ cur'[q] = cell[v][t % Cap]
    BY <1>4, <1>6, <2>2
  <2>7. ASSUME NEW p \in Participants
        PROVE  (Sizes(p) /\ LateStores(p) /\ OwnerRead(p) /\ ThiefRead(p))'
    <3>0. /\ Sizes(p) /\ LateStores(p) /\ OwnerRead(p) /\ ThiefRead(p)
          /\ top[p] \in Nat /\ top'[p] \in Nat /\ End(p) \in Int /\ reg[p] \in Regs /\ own[p] \in Int
          /\ top[p] <= top'[p] /\ (p # v => top'[p] = top[p]) /\ (p = v => top[p] = t)
      BY <1>0, <1>6, <2>21, HeldIs DEF DequeInv, DequeSound, DequeTypes
    <3>1. Sizes(p)'
      BY <1>1, <2>2, <2>3, <2>6, <3>0 DEF Sizes
    <3>2. LateStores(p)'
      <4>1. ASSUME NEW k \in DOMAIN buffer[p], buffer[p][k].word = "cell" PROVE top'[p] <= buffer[p][k].at
        <5>1. LateStore(p, k) /\ buffer[p][k].at \in Int
          BY <1>0, <3>0, StoreTyped DEF LateStores
        <5>2. p = v => buffer[p][k].at # t
          BY <2>6, <4>1 DEF LateAt
        <5>3. QED
          BY <2>2, <3>0, <4>1, <5>1, <5>2 DEF LateStore
      <4>2. QED
        BY <1>1, <3>0, <4>1 DEF LateStores, LateStore
    <3>3. OwnerRead(p)'
      <4>1. SUFFICES ASSUME pc[p] = "popLast", p # q PROVE OwnerRead(p)'
        BY <2>2 DEF OwnerRead
      <4>2. reg'[p] = reg[p] /\ reg[p].t = own[p] /\ reg[p].t <= top[p] /\ reg[p].t \in Nat
            /\ (top[p] = reg[p].t => reg[p].x = cell[p][reg[p].t % Cap])
        BY <1>1, <3>0, <4>1 DEF OwnerRead, Regs
      <4>3. reg[p].t <= top'[p] /\ (top'[p] = reg[p].t => top[p] = reg[p].t)
        BY <3>0, <4>2
      <4>4. QED
        BY <1>1, <4>2, <4>3 DEF OwnerRead
    <3>4. ThiefRead(p)'
      <4>1. SUFFICES ASSUME Stealing(p), p # q, pc'[p] = pc[p], reg'[p] = reg[p] PROVE ThiefRead(p)'
        BY <1>1, <2>2, <2>3 DEF ThiefRead, Stealing
      <4>2. /\ reg[p].v \in Participants /\ reg[p].v # p /\ reg[p].t \in Nat /\ reg[p].t <= top[reg[p].v]
        BY <3>0, <4>1 DEF ThiefRead, Regs
      <4>3. top[reg[p].v] \in Nat /\ top'[reg[p].v] \in Nat /\ top[reg[p].v] <= top'[reg[p].v]
        BY <2>21, <4>2
      <4>4. reg[p].t <= top'[reg[p].v] /\ (reg[p].t = top'[reg[p].v] => reg[p].t = top[reg[p].v])
        BY <4>2, <4>3
      <4>5. End(reg[p].v)' = End(reg[p].v) /\ (LateAt(reg[p].v, reg[p].t)' <=> LateAt(reg[p].v, reg[p].t))
        <5>1. reg[p].v # q \/ reg[p].v = q
          OBVIOUS
        <5>2. /\ pc'[reg[p].v] = pc[reg[p].v] \/ reg[p].v = q
          BY <2>2, <4>2
        <5>3. End(reg[p].v)' = own[reg[p].v] + IF pc'[reg[p].v] \in {"popTop", "popLast"} THEN 1 ELSE 0
          BY <1>1, <4>1 DEF End, Popping
        <5>4. pc'[reg[p].v] \in {"popTop", "popLast"} <=> pc[reg[p].v] \in {"popTop", "popLast"}
          BY <1>0, <2>2, <5>2 DEF At
        <5>5. LateAt(reg[p].v, reg[p].t)' <=> LateAt(reg[p].v, reg[p].t)
          BY <1>1, <4>1 DEF LateAt
        <5>6. QED
          BY <5>3, <5>4, <5>5 DEF End, Popping
      <4>6. QED
        BY <1>1, <3>0, <4>1, <4>2, <4>4, <4>5 DEF ThiefRead
    <3>5. QED
      BY <3>1, <3>2, <3>3, <3>4
  <2>8. DequeInv'
    BY <2>5, <2>7 DEF DequeInv, DequeSound
  <2>9. \A s \in Participants : /\ Held(s) = top[s] .. End(s) - 1 /\ Held(s)' = top'[s] .. End(s) - 1
                                /\ top[s] \in Nat /\ End(s) \in Int
    <3>1. SUFFICES ASSUME NEW s \in Participants
                   PROVE  /\ Held(s) = top[s] .. End(s) - 1 /\ Held(s)' = top'[s] .. End(s) - 1
                          /\ top[s] \in Nat /\ End(s) \in Int
      OBVIOUS
    <3>2. Held(s) = top[s] .. End(s) - 1 /\ top[s] \in Nat /\ End(s) \in Int /\ own[s] \in Int
      BY <1>0, HeldIs
    <3>3. Held(s)' = top'[s] .. own[s] - IF Popping(s) THEN 0 ELSE 1
      BY <1>1, <2>3 DEF Held, Popping
    <3>4. own[s] - (IF Popping(s) THEN 0 ELSE 1) = End(s) - 1
      BY <3>2 DEF End
    <3>5. QED
      BY <3>2, <3>3, <3>4
  <2>10. t \in Held(v) /\ t \notin Held(v)' /\ cur'[q] = Item(v, t)
         /\ (\A i \in Held(v) : i \notin Held(v)' => i = t) /\ (\A i \in Held(v)' : i \in Held(v))
    <3>1. cur'[q] = Item(v, t)
      BY <2>6, ItemSlot
    <3>2. t \in Held(v) /\ t \notin Held(v)'
      BY <1>6, <2>2, <2>6, <2>9
    <3>3. (\A i \in Held(v) : i \notin Held(v)' => i = t) /\ (\A i \in Held(v)' : i \in Held(v))
      BY <1>6, <2>2, <2>9
    <3>4. QED
      BY <3>1, <3>2, <3>3
  <2>11. \A s \in Participants \ {v} : Held(s)' = Held(s)
    BY <2>2, <2>9
  <2>12. Takes(q) /\ Source(q) = v /\ \A s \in Participants : Takes(s) => s = q
    BY <1>0, <1>2, <2>2, <2>3 DEF Takes, Source, Popping, At
  <2>13. \A s \in Participants : Takes(s) =>
            \E p \in Participants : \E i \in Held(p) : p = Source(s) /\ i \notin Held(p)' /\ cur'[s] = Item(p, i)
    BY <2>10, <2>12
  <2>14. ASSUME NEW p \in Participants
         PROVE  /\ \A i \in Held(p) : i \notin Held(p)' => \E s \in Participants : Takes(s) /\ Source(s) = p
                /\ \A i, j \in Held(p) : i \notin Held(p)' /\ j \notin Held(p)' => i = j
                /\ \A i \in Held(p) : i \in Held(p)' => Item(p, i)' = Item(p, i)
                /\ \A i \in Held(p)' : i \notin Held(p) => own[p] <= i /\ pc[p] \in {"run", "join"}
    BY <2>4, <2>10, <2>11, <2>12
  <2>15. HandsOut
    BY <2>13, <2>14 DEF HandsOut
  <2>16. QED
    BY <2>8, <2>15 DEF Handed
<1>7. QED
  BY <1>5, <1>6

LEMMA StoredIs ==
    ASSUME NEW w, NEW a, NEW x
    PROVE  Stored(w, a, x).word = w /\ Stored(w, a, x).at = a
  BY DEF Stored

LEMMA Joined ==
    ASSUME NEW S, NEW s \in Seq(S), NEW t \in Seq(S), NEW l, NEW n, Len(s) = l, Len(t) = n
    PROVE  /\ s \o t \in Seq(S) /\ Len(s \o t) = l + n
           /\ \A i \in 1 .. l + n : (s \o t)[i] = IF i <= l THEN s[i] ELSE t[i - l]
  BY ConcatProperties

(* A fork pushes above what its deque holds.                               *)
LEMMA PushKeeps ==
    ASSUME MemoryInv, DequeInv, NEW p \in Participants, NEW xs \in Seq(Frames), PushAll(p, xs),
           ~Popping(p), ~Popping(p)', ~Stealing(p)', UNCHANGED <<top, bottom, cell>>
    PROVE  /\ \E n \in Nat : own'[p] = own[p] + n /\ own[p] + n <= top[p] + Cap
           /\ \A q \in Participants \ {p} : own'[q] = own[q] /\ buffer'[q] = buffer[q]
           /\ Sizes(p)' /\ LateStores(p)' /\ OwnerRead(p)'
           /\ \A i \in Nat : i < own[p] => Item(p, i)' = Item(p, i) /\ (LateAt(p, i)' <=> LateAt(p, i))
<1> USE Basics
<1> DEFINE n == Fitting(p, xs)
           b == buffer[p]
           L == Len(b)
           cells == [i \in 1 .. n |-> Stored("cell", own[p] + i - 1, xs[i])]
           last == <<Stored("bottom", own[p] + n, None)>>
<1>0. DequeTypes /\ Sizes(p) /\ LateStores(p)
  BY DEF DequeInv, DequeSound
<1>1. /\ top[p] \in Nat /\ own[p] \in Int /\ bottom[p] \in Int /\ End(p) = own[p]
      /\ Len(xs) \in Nat /\ b \in Seq(OwnStores) /\ L \in Nat /\ DOMAIN b = 1 .. L
  BY <1>0, HeldIs, StoreTyped, LenProperties
<1>2. n \in Nat /\ own[p] + n <= top[p] + Cap /\ top[p] <= own[p] /\ bottom[p] <= own[p]
  <2>1. Room(p) \in Nat /\ own[p] + Room(p) = top[p] + Cap /\ top[p] <= own[p] /\ bottom[p] <= own[p]
    BY <1>0, <1>1 DEF Room, Sizes
  <2>2. n \in {Len(xs), Room(p)} /\ n <= Room(p)
    BY <1>1, <2>1 DEF Fitting
  <2> HIDE DEF n
  <2>3. QED
    BY <1>1, <2>1, <2>2
<1>3. /\ own' = [own EXCEPT ![p] = @ + n]
      /\ buffer' = [buffer EXCEPT ![p] = IF n = 0 THEN @ ELSE @ \o cells \o last]
  BY DEF PushAll
<1> HIDE DEF n
<1>4. /\ own'[p] = own[p] + n
      /\ \A q \in Participants \ {p} : own'[q] = own[q] /\ buffer'[q] = buffer[q]
      /\ buffer'[p] = IF n = 0 THEN b ELSE (b \o cells) \o last
  BY <1>3 DEF MemoryInv
<1>5. End(p)' = own[p] + n /\ Sizes(p)' /\ OwnerRead(p)'
  <2>1. End(p)' = own[p] + n
    BY <1>1, <1>2, <1>4 DEF End
  <2>2. QED
    BY <1>1, <1>2, <1>4, <2>1 DEF Sizes, OwnerRead, Popping
<1>6. CASE n = 0
  <2>1. buffer'[p] = buffer[p] /\ own'[p] = own[p]
    BY <1>1, <1>4, <1>6
  <2>2. LateStores(p)'
    BY <1>0, <2>1 DEF LateStores, LateStore
  <2>3. \A i \in Nat : Item(p, i)' = Item(p, i) /\ (LateAt(p, i)' <=> LateAt(p, i))
    BY <2>1, ItemKept
  <2>4. QED
    BY <1>2, <1>4, <1>5, <2>2, <2>3
<1>7. CASE n # 0
  <2>1. /\ DOMAIN buffer'[p] = 1 .. L + n + 1
        /\ \A k \in 1 .. L : buffer'[p][k] = b[k]
        /\ \A k \in L + 1 .. L + n : buffer'[p][k] = Stored("cell", own[p] + (k - L) - 1, xs[k - L])
        /\ buffer'[p][L + n + 1] = Stored("bottom", own[p] + n, None)
    <3>1. cells \in Seq(OwnStores) /\ Len(cells) = n
      <4>1. ASSUME NEW i \in 1 .. n PROVE Stored("cell", own[p] + i - 1, xs[i]) \in OwnStores
        <5>1. i \in 1 .. Len(xs)
          BY <1>1, <1>2 DEF n, Fitting
        <5>2. xs[i] \in Val /\ own[p] + i - 1 \in Int
          BY <1>1, <1>2, <5>1, ElementOfSeq DEF Val
        <5>3. QED
          BY <5>2 DEF Stored, OwnStores
      <4>2. cells \in [1 .. n -> OwnStores]
        BY <4>1
      <4> HIDE DEF cells
      <4>3. QED
        BY <1>2, <4>2, SeqDef, LenProperties
    <3>2. last \in Seq(OwnStores) /\ Len(last) = 1 /\ last[1] = Stored("bottom", own[p] + n, None)
      <4>1. own[p] + n \in Int
        BY <1>1, <1>2
      <4>2. Stored("bottom", own[p] + n, None) \in OwnStores
        BY <4>1 DEF Stored, OwnStores, Val
      <4>3. QED
        BY <4>2
    <3>3. \A k \in 1 .. n : cells[k] = Stored("cell", own[p] + k - 1, xs[k])
      OBVIOUS
    <3> HIDE DEF b, cells, last
    <3>4. /\ b \o cells \in Seq(OwnStores) /\ Len(b \o cells) = L + n
          /\ \A k \in 1 .. L + n : (b \o cells)[k] = IF k <= L THEN b[k] ELSE cells[k - L]
      <4>1. Len(b) = L /\ b \in Seq(OwnStores)
        BY <1>1
      <4> HIDE DEF L
      <4>2. QED
        BY <3>1, <4>1, Joined
    <3> DEFINE c == b \o cells
    <3> HIDE DEF c
    <3>5. c \in Seq(OwnStores) /\ Len(c) = L + n /\ \A k \in 1 .. L + n : c[k] = IF k <= L THEN b[k] ELSE cells[k - L]
      BY <3>4 DEF c
    <3>6. /\ c \o last \in Seq(OwnStores) /\ Len(c \o last) = L + n + 1
          /\ \A k \in 1 .. L + n + 1 : (c \o last)[k] = IF k <= L + n THEN c[k] ELSE last[k - (L + n)]
      <4> DEFINE m == L + n
      <4>1. c \in Seq(OwnStores) /\ Len(c) = m
        BY <3>5
      <4> HIDE DEF L, m
      <4>2. /\ c \o last \in Seq(OwnStores) /\ Len(c \o last) = m + 1
            /\ \A k \in 1 .. m + 1 : (c \o last)[k] = IF k <= m THEN c[k] ELSE last[k - m]
        <5>1. last \in Seq(OwnStores) /\ Len(last) = 1
          BY <3>2
        <5> DEFINE e == 1
        <5>2. Len(last) = e
          BY <5>1
        <5> HIDE DEF e
        <5>3. /\ c \o last \in Seq(OwnStores) /\ Len(c \o last) = m + e
              /\ \A k \in 1 .. m + e : (c \o last)[k] = IF k <= m THEN c[k] ELSE last[k - m]
          BY <4>1, <5>1, <5>2, Joined
        <5>4. QED
          BY <5>3 DEF e
      <4>3. QED
        BY <4>2 DEF m
    <3>7. buffer'[p] = c \o last
      BY <1>4, <1>7 DEF c
    <3>8. DOMAIN buffer'[p] = 1 .. L + n + 1
      BY <3>6, <3>7, LenProperties
    <3>9. L \in Nat /\ n \in Nat
      BY <1>1, <1>2
    <3> HIDE DEF L
    <3>10. \A k \in 1 .. L : buffer'[p][k] = b[k]
      BY <3>5, <3>6, <3>7, <3>9
    <3>11. \A k \in L + 1 .. L + n : buffer'[p][k] = cells[k - L] /\ k - L \in 1 .. n
      BY <3>5, <3>6, <3>7, <3>9
    <3>12. buffer'[p][L + n + 1] = last[1]
      <4>1. L + n + 1 \in 1 .. L + n + 1 /\ ~ (L + n + 1 <= L + n) /\ (L + n + 1) - (L + n) = 1
        BY <3>9
      <4>2. QED
        BY <3>6, <3>7, <4>1
    <3>13. \A k \in L + 1 .. L + n : buffer'[p][k] = Stored("cell", own[p] + (k - L) - 1, xs[k - L])
      BY <3>3, <3>11
    <3>14. QED
      BY <3>2, <3>8, <3>10, <3>12, <3>13
  <2> HIDE DEF L, b
  <2>2. \A k \in L + 1 .. L + n : buffer'[p][k].word = "cell" /\ buffer'[p][k].at = own[p] + (k - L) - 1
    <3>1. SUFFICES ASSUME NEW k \in L + 1 .. L + n
                   PROVE  buffer'[p][k].word = "cell" /\ buffer'[p][k].at = own[p] + (k - L) - 1
      OBVIOUS
    <3>2. buffer'[p][k] = Stored("cell", own[p] + (k - L) - 1, xs[k - L])
      BY <2>1, <3>1
    <3>3. QED
      BY <3>2, StoredIs
  <2>3. buffer'[p][L + n + 1].word = "bottom" /\ buffer'[p][L + n + 1].at = own[p] + n
    BY <2>1 DEF Stored
  <2>4. \A k \in 1 .. L : /\ LateStore(p, k) /\ b[k].at \in Int /\ b[k].word \in {"cell", "bottom"}
                          /\ buffer'[p][k] = b[k]
    BY <1>0, <1>1, <2>1, StoreTyped DEF LateStores, b, L
  <2>5. \A k \in 1 .. L : b[k].word = "cell" => b[k].at < own[p]
    BY <2>4 DEF LateStore, b
  <2>6. \A k \in 1 .. L : b[k].word = "bottom" => b[k].at <= own[p]
    BY <2>4 DEF LateStore, b
  <2>7. LateStores(p)'
    <3>1. SUFFICES ASSUME NEW k \in 1 .. L + n + 1 PROVE LateStore(p, k)'
      BY <2>1 DEF LateStores
    <3>2. CASE k \in 1 .. L
      <4>1. LateStore(p, k) /\ buffer'[p][k] = b[k] /\ b[k].at \in Int
        BY <2>4, <3>2
      <4>2. CASE b[k].word = "bottom"
        <5>1. buffer'[p][k].at <= own'[p]
          BY <1>1, <1>2, <1>4, <2>6, <3>2, <4>1, <4>2
        <5>2. buffer'[p][k].word # "cell"
          BY <4>1, <4>2
        <5>3. QED
          BY <5>1, <5>2 DEF LateStore
      <4>3. CASE b[k].word = "cell"
        <5>1. /\ top[p] <= b[k].at /\ bottom[p] <= b[k].at /\ b[k].at < own[p]
              /\ \A j \in 1 .. k - 1 :
                    /\ b[j].word = "bottom" => b[j].at <= b[k].at
                    /\ b[j].word = "cell" => b[j].at < b[k].at
          BY <4>1, <4>3 DEF LateStore, b
        <5>2. \A j \in 1 .. k - 1 : buffer'[p][j] = b[j]
          BY <1>1, <2>4, <3>2
        <5>3. /\ buffer'[p][k].word = "cell" /\ top'[p] <= buffer'[p][k].at
              /\ bottom'[p] <= buffer'[p][k].at /\ buffer'[p][k].at < own'[p]
          <6>1. b[k].at < own[p] + n
            BY <1>1, <1>2, <4>1, <5>1
          <6>2. QED
            BY <1>4, <4>1, <4>3, <5>1, <6>1
        <5>4. \A j \in 1 .. k - 1 :
                    /\ buffer'[p][j].word = "bottom" => buffer'[p][j].at <= buffer'[p][k].at
                    /\ buffer'[p][j].word = "cell" => buffer'[p][j].at < buffer'[p][k].at
          BY <4>1, <5>1, <5>2
        <5>5. QED
          BY <5>3, <5>4, CellStored
      <4>4. QED
        BY <2>4, <3>2, <4>2, <4>3
    <3>3. CASE k \in L + 1 .. L + n
      <4>1. buffer'[p][k].word = "cell" /\ buffer'[p][k].at = own[p] + (k - L) - 1
        BY <2>2, <3>3
      <4>2. /\ top'[p] <= buffer'[p][k].at /\ bottom'[p] <= buffer'[p][k].at /\ buffer'[p][k].at < own'[p]
            /\ own[p] <= buffer'[p][k].at
        <5> DEFINE a == own[p] + (k - L) - 1
        <5>1. top[p] <= a /\ bottom[p] <= a /\ a < own[p] + n /\ own[p] <= a
          BY <1>1, <1>2, <3>3
        <5> HIDE DEF a
        <5>2. buffer'[p][k].at = a
          BY <4>1 DEF a
        <5>3. QED
          BY <1>4, <5>1, <5>2
      <4>3. ASSUME NEW j \in 1 .. k - 1
            PROVE  /\ buffer'[p][j].word = "bottom" => buffer'[p][j].at <= buffer'[p][k].at
                   /\ buffer'[p][j].word = "cell" => buffer'[p][j].at < buffer'[p][k].at
        <5>1. j \in 1 .. L \/ (j \in L + 1 .. L + n /\ j < k)
          BY <1>1, <1>2, <3>3
        <5>2. CASE j \in 1 .. L
          <6>1. buffer'[p][j] = b[j] /\ b[j].at \in Int
            BY <2>4, <5>2
          <6>2. (b[j].word = "bottom" => b[j].at <= own[p]) /\ (b[j].word = "cell" => b[j].at < own[p])
            BY <2>5, <2>6, <5>2
          <6>3. buffer'[p][k].at \in Int
            BY <1>1, <3>3, <4>1
          <6>4. QED
            BY <1>1, <4>2, <6>1, <6>2, <6>3
        <5>3. CASE j \in L + 1 .. L + n /\ j < k
          <6>1. buffer'[p][j].word = "cell" /\ buffer'[p][j].at = own[p] + (j - L) - 1
            BY <2>2, <5>3
          <6>2. own[p] + (j - L) - 1 < own[p] + (k - L) - 1
            BY <1>1, <1>2, <3>3, <5>3
          <6>3. QED
            BY <4>1, <6>1, <6>2
        <5>4. QED
          BY <5>1, <5>2, <5>3
      <4>4. QED
        BY <4>1, <4>2, <4>3, CellStored
    <3>4. CASE k = L + n + 1
      <4>1. buffer'[p][k].word = "bottom" /\ buffer'[p][k].at <= own'[p]
        BY <1>1, <1>2, <1>4, <2>3, <3>4
      <4>2. QED
        BY <4>1 DEF LateStore
    <3>5. QED
      <4>1. L \in Nat /\ n \in Nat /\ k \in 1 .. L + n + 1
        BY <1>1, <1>2, <3>1
      <4>2. k \in 1 .. L \/ k \in L + 1 .. L + n \/ k = L + n + 1
        BY <4>1
      <4>3. QED
        BY <3>2, <3>3, <3>4, <4>2
  <2>8. ASSUME NEW i \in Nat, i < own[p]
        PROVE  Item(p, i)' = Item(p, i) /\ (LateAt(p, i)' <=> LateAt(p, i))
    <3>1. \A k \in 1 .. L + n + 1 : buffer'[p][k].word = "cell" /\ buffer'[p][k].at = i
                                    => k \in 1 .. L /\ b[k].word = "cell" /\ b[k].at = i
      <4>1. SUFFICES ASSUME NEW k \in 1 .. L + n + 1, buffer'[p][k].word = "cell", buffer'[p][k].at = i
                     PROVE  k \in 1 .. L
        BY <2>4
      <4>2. k # L + n + 1
        BY <2>3, <4>1
      <4>3. k \notin L + 1 .. L + n
        <5>1. SUFFICES ASSUME k \in L + 1 .. L + n PROVE FALSE
          OBVIOUS
        <5>2. i = own[p] + (k - L) - 1
          BY <2>2, <4>1, <5>1
        <5>3. QED
          BY <1>1, <1>2, <2>8, <5>1, <5>2
      <4>4. QED
        BY <1>1, <1>2, <4>2, <4>3
    <3>2. LateAt(p, i)' <=> \E k \in DOMAIN buffer'[p] : buffer'[p][k].word = "cell" /\ buffer'[p][k].at = i
      BY DEF LateAt
    <3>3. LateAt(p, i) <=> \E k \in 1 .. L : b[k].word = "cell" /\ b[k].at = i
      BY <1>1 DEF LateAt, b, L
    <3>4. 1 .. L \subseteq 1 .. L + n + 1
      BY <1>1, <1>2
    <3>5. LateAt(p, i)' <=> LateAt(p, i)
      BY <2>1, <2>4, <3>1, <3>2, <3>3, <3>4
    <3>6. CASE LateAt(p, i)
      <4>1. PICK k \in 1 .. L : b[k].word = "cell" /\ b[k].at = i
        BY <3>3, <3>6
      <4>2. \A j \in 1 .. L : b[j].word = "cell" /\ b[j].at = i => j = k
        BY <1>0, <1>1, <4>1, StoresApart DEF b, L
      <4>3. Item(p, i) = b[k].val
        <5>1. DOMAIN buffer[p] = 1 .. L /\ b = buffer[p]
          BY <1>1 DEF b, L
        <5>2. QED
          <6>1. /\ k \in DOMAIN buffer[p] /\ buffer[p][k].word = "cell" /\ buffer[p][k].at = i
                /\ \A j \in DOMAIN buffer[p] : buffer[p][j].word = "cell" /\ buffer[p][j].at = i => j = k
            BY <4>1, <4>2, <5>1
          <6>2. Item(p, i) = buffer[p][k].val
            BY <6>1, ItemLate
          <6>3. QED
            BY <5>1, <6>2
      <4>4. Item(p, i)' = buffer'[p][k].val
        <5>1. /\ k \in DOMAIN buffer'[p] /\ buffer'[p][k].word = "cell" /\ buffer'[p][k].at = i
              /\ \A j \in DOMAIN buffer'[p] : buffer'[p][j].word = "cell" /\ buffer'[p][j].at = i => j = k
          BY <2>1, <2>4, <3>1, <3>4, <4>1, <4>2
        <5>2. QED
          BY <5>1, NextLate
      <4>5. QED
        BY <2>4, <3>5, <4>1, <4>3, <4>4
    <3>7. CASE ~LateAt(p, i)
      <4>1. Item(p, i) = cell[p][i % Cap]
        BY <3>7, ItemSlot
      <4>2. \A k \in DOMAIN buffer'[p] : ~ (buffer'[p][k].word = "cell" /\ buffer'[p][k].at = i)
        BY <3>2, <3>5, <3>7
      <4>3. Item(p, i)' = cell'[p][i % Cap]
        <5> DEFINE d == buffer'[p]
        <5>1. Item(p, i)' = NodeAt(d, cell'[p][i % Cap], i)
          BY ItemIs
        <5>2. \A k \in DOMAIN d : ~ (d[k].word = "cell" /\ d[k].at = i)
          BY <4>2
        <5> HIDE DEF d
        <5>3. QED
          BY <5>1, <5>2, NodeInSlot
      <4>4. QED
        BY <3>5, <4>1, <4>3
    <3>8. QED
      BY <3>6, <3>7
  <2>9. QED
    BY <1>2, <1>4, <1>5, <2>7, <2>8
<1>8. QED
  BY <1>6, <1>7

LEMMA ForkHands ==
    ASSUME Inv, DequeInv, NEW p \in Participants, RunFork(p)
    PROVE  Handed
<1> USE Basics
<1>0. MemoryInv /\ DequeTypes /\ Shapes /\ UNCHANGED <<top, bottom, cell, reg>>
  BY ForkPushes DEF Inv, ThreadInv, DequeInv
<1>1. pc[p] \in {"run", "join"}
  BY DEF RunFork, At
<1>2. pc'[p] \in {"found", "scan", "run"} /\ \A t \in Threads \ {p} : pc'[t] = pc[t]
  BY <1>0, ForkPushes, OnwardMoves
<1>3. ~Popping(p) /\ ~Popping(p)' /\ ~Stealing(p)' /\ ~Takes(p)
  BY <1>1, <1>2 DEF Popping, Stealing, Takes
<1>4. CASE UNCHANGED <<own, buffer>>
  <2>1. pc[p] \notin DequePCs /\ pc'[p] \notin DequePCs
    BY <1>1, <1>2 DEF DequePCs
  <2>2. QED
    BY <1>0, <1>2, <1>4, <2>1, Elsewhere DEF Handed, DequeTypes
<1>5. ASSUME NEW xs \in Seq(Frames), PushAll(p, xs) PROVE Handed
  <2>1. PICK n \in Nat : own'[p] = own[p] + n /\ own[p] + n <= top[p] + Cap
    BY <1>0, <1>3, <1>5, PushKeeps
  <2>2. /\ \A q \in Participants \ {p} : own'[q] = own[q] /\ buffer'[q] = buffer[q]
        /\ Sizes(p)' /\ LateStores(p)' /\ OwnerRead(p)'
        /\ \A i \in Nat : i < own[p] => Item(p, i)' = Item(p, i) /\ (LateAt(p, i)' <=> LateAt(p, i))
    BY <1>0, <1>3, <1>5, PushKeeps
  <2>3. /\ top[p] \in Nat /\ own[p] \in Int /\ Held(p) = top[p] .. own[p] - 1
        /\ End(p) = own[p] /\ End(p)' = own[p] + n /\ Held(p)' = top[p] .. own[p] + n - 1
    <3>1. top[p] \in Nat /\ own[p] \in Int /\ End(p) = own[p] /\ Held(p) = top[p] .. own[p] - 1
      BY <1>0, <1>3, HeldIs
    <3>2. End(p)' = own'[p] + 0 /\ Held(p)' = top[p] .. own'[p] - 1
      BY <1>0, <1>3 DEF End, Held, Popping
    <3>3. QED
      BY <2>1, <3>1, <3>2
  <2>4. DequeTypes'
    BY <1>0 DEF DequeTypes
  <2>5. Alone(p)
    BY <1>0, <1>2, <1>3, <2>2 DEF Alone
  <2>6. ThievesKept(p)
    <3>1. LateAt(p, top[p])' <=> \E k \in DOMAIN buffer'[p] : buffer'[p][k].word = "cell" /\ buffer'[p][k].at = top[p]
      BY <1>0 DEF LateAt
    <3>2. top[p] < own[p] => ((\E k \in DOMAIN buffer'[p] : buffer'[p][k].word = "cell" /\ buffer'[p][k].at = top[p])
                              <=> LateAt(p, top[p]))
      BY <2>2, <2>3 DEF LateAt
    <3>3. QED
      BY <1>0, <2>3, <3>1, <3>2 DEF ThievesKept
  <2>7. DequeInv' /\ OthersKept(p)
    BY <2>2, <2>4, <2>5, <2>6, OwnerStep
  <2>8. \A i \in Held(p) : i \in Held(p)' /\ Item(p, i)' = Item(p, i)
    BY <2>2, <2>3
  <2>9. \A i \in Held(p)' : i \notin Held(p) => own[p] <= i
    BY <2>3
  <2>10. QED
    BY <1>1, <1>3, <2>7, <2>8, <2>9, OwnerHands DEF Handed
<1>6. QED
  BY <1>4, <1>5, ForkPushes

-----------------------------------------------------------------------------
(* The steps that leave the deques alone.                                  *)

(* The thread t alone moves, and may note a worker whose bit it took.      *)
Aside(t) ==
    /\ UNCHANGED <<top, bottom, cell, own>>
    /\ pc[t] \notin DequePCs /\ \E l : l \notin DequePCs /\ pc' = [pc EXCEPT ![t] = l]
    /\ \/ reg' = reg
       \/ reg' = [reg EXCEPT ![t] = NoReg]
       \/ \E w \in Workers : reg' = [reg EXCEPT ![t].v = w]
    /\ \A p \in Participants : buffer'[p] = buffer[p]

LEMMA AsideHands ==
    ASSUME Inv, DequeInv, NEW t \in Threads, Aside(t)
    PROVE  Handed
<1> USE Basics
<1>0. DequeTypes /\ Shapes /\ MemoryInv /\ reg[t] \in Regs
  BY DEF Inv, ThreadInv, DequeInv, DequeTypes
<1>1. reg' \in [Threads -> Regs] /\ \A s \in Participants \ {t} : reg'[s] = reg[s]
  <2>1. CASE reg' = reg
    BY <1>0, <2>1 DEF DequeTypes
  <2>2. CASE reg' = [reg EXCEPT ![t] = NoReg]
    <3>1. NoReg \in Regs
      BY DEF NoReg, Regs, Val
    <3>2. QED
      BY <1>0, <2>2, <3>1 DEF DequeTypes
  <2>3. ASSUME NEW w \in Workers, reg' = [reg EXCEPT ![t].v = w]
        PROVE  reg' \in [Threads -> Regs] /\ \A s \in Participants \ {t} : reg'[s] = reg[s]
    <3>1. [reg[t] EXCEPT !.v = w] \in Regs
      BY <1>0 DEF Regs
    <3>2. reg' = [reg EXCEPT ![t] = [reg[t] EXCEPT !.v = w]]
      BY <1>0, <2>3 DEF DequeTypes
    <3>3. QED
      BY <1>0, <3>1, <3>2 DEF DequeTypes
  <2>4. QED
    BY <2>1, <2>2, <2>3 DEF Aside
<1>2. pc[t] \notin DequePCs /\ pc'[t] \notin DequePCs /\ \A s \in Participants \ {t} : pc'[s] = pc[s]
  BY <1>0 DEF Aside, Shapes
<1>3. QED
  BY <1>1, <1>2, Elsewhere DEF Aside, Handed

LEMMA ChainAside ==
    ASSUME Inv, NEW p \in Participants,
           \/ AfterWake(p) \/ RunDetached(p) \/ Lower(p) \/ Join(p) \/ Popped(p) \/ PollFarm(p)
    PROVE  Aside(p)
<1> USE Basics DEF memoryVars, At
<1>1. ASSUME NEW s, Onward(p, s) PROVE \E l : l \notin DequePCs /\ pc' = [pc EXCEPT ![p] = l]
  BY <1>1 DEF Onward, Goto, Set, DequePCs
<1>2. ASSUME AfterWake(p) \/ Lower(p) \/ Join(p) \/ RunDetached(p) PROVE Aside(p)
  <2>1. UNCHANGED <<memoryVars, reg>> /\ pc[p] \notin DequePCs
    BY <1>2 DEF AfterWake, Lower, Join, RunDetached, DequePCs
  <2>2. \E l : l \notin DequePCs /\ pc' = [pc EXCEPT ![p] = l]
    BY <1>1, <1>2 DEF AfterWake, Lower, Join, RunDetached, Goto, Set, DequePCs
  <2>3. QED
    BY <2>1, <2>2 DEF Aside
<1>3. ASSUME Popped(p) \/ PollFarm(p) PROVE Aside(p)
  <2>1. UNCHANGED <<top, bottom, cell, own, buffer, reg>> /\ pc[p] \notin DequePCs
    BY <1>3 DEF Popped, PollFarm, DequePCs
  <2>2. \E l : l \notin DequePCs /\ pc' = [pc EXCEPT ![p] = l]
    BY <1>3 DEF Popped, PollFarm, Goto, Set, DequePCs
  <2>3. QED
    BY <2>1, <2>2 DEF Aside
<1>4. QED
  BY <1>2, <1>3

LEMMA WorkerAside ==
    ASSUME Inv, NEW t \in Threads,
           \/ RootNext(t) \/ (t \in Workers /\ WorkerNext(t))
    PROVE  Aside(t)
<1> USE Basics DEF memoryVars, At, Goto, Set
<1>0. ret[t] \notin DequePCs
  BY DEF Inv, ThreadInv, Control, DequePCs
<1>1. CASE Scan(t)
  <2>1. /\ UNCHANGED <<top, bottom, cell, own, buffer>> /\ pc[t] \notin DequePCs
        /\ \E l \in {ret[t], "wake"} : pc' = [pc EXCEPT ![t] = l]
    BY <1>1 DEF Scan, DequePCs
  <2>2. reg' = reg \/ \E w \in Workers : reg' = [reg EXCEPT ![t].v = w]
    BY <1>1 DEF Scan, TakeBit, Inv, ThreadInv, Shapes
  <2>3. QED
    BY <1>0, <2>1, <2>2 DEF Aside, DequePCs
<1>2. CASE WakeWorker(t)
  BY <1>0, <1>2 DEF WakeWorker, Aside, DequePCs
<1>3. CASE Finish(t)
  BY <1>3 DEF Finish, Release, Aside, DequePCs
<1>4. CASE t \in Workers /\ WorkerNext(t)
  BY <1>4 DEF WorkerNext, Arm, ArmBit, Park, DisarmBit, Disarm, Aside, DequePCs
<1>5. QED
  BY <1>1, <1>2, <1>3, <1>4 DEF RootNext

LEMMA SubmitterAside ==
    ASSUME Inv, NEW u \in Submitters, SubmitterNext(u)
    PROVE  Aside(u)
<1> USE Basics DEF memoryVars, At, Goto, Set
<1>0. MemoryInv /\ Shapes
  BY DEF Inv, ThreadInv
<1>1. CASE SubmitRoot(u) \/ OpenGroup(u) \/ Add(u) \/ SubmitDetached(u)
  BY <1>1 DEF SubmitRoot, OpenGroup, Add, SubmitDetached, Root, Aside, DequePCs
<1>2. CASE Lock(u) \/ Refused(u) \/ WriteRoot(u)
  BY <1>0, <1>2 DEF Lock, Refused, WriteRoot, Aside, DequePCs, MemoryInv
<1>3. CASE WakeAgain(u)
  <2>1. /\ UNCHANGED <<top, bottom, cell, own, buffer>> /\ pc[u] \notin DequePCs
        /\ \E l \in {"write", "wakeAgain"} : pc' = [pc EXCEPT ![u] = l]
    BY <1>3 DEF WakeAgain, DequePCs
  <2>2. reg' = reg \/ \E w \in Workers : reg' = [reg EXCEPT ![u].v = w]
    BY <1>0, <1>3 DEF WakeAgain, TakeBit, Shapes
  <2>3. QED
    BY <2>1, <2>2 DEF Aside, DequePCs
<1>4. CASE WaitGroup(u)
  <2>1. /\ UNCHANGED <<top, bottom, cell, own, buffer, reg>> /\ pc[u] \notin DequePCs
        /\ \E l \in {"idle", "waiting"} : pc' = [pc EXCEPT ![u] = l]
    BY <1>4 DEF WaitGroup, Release, DequePCs
  <2>2. QED
    BY <2>1 DEF Aside, DequePCs
<1>5. QED
  BY <1>1, <1>2, <1>3, <1>4 DEF SubmitterNext

LEMMA CallerAside ==
    ASSUME Inv, RunRoot \/ Stop \/ Leave
    PROVE  Aside(Caller)
  BY Basics DEF RunRoot, Root, Stop, Leave, Aside, DequePCs, memoryVars, At, Goto, Set

(* A root's stores touch no deque.                                         *)
LEMMA RootStoreHands ==
    ASSUME Inv, DequeInv, NEW u \in Submitters, Drain(u)
    PROVE  Handed
<1> USE Basics
<1>0. MemoryInv /\ DequeTypes
  BY DEF Inv, DequeInv
<1>1. Head(buffer[u]).word \notin {"cell", "bottom"}
  <2>1. buffer[u] \in Seq(RootStores) /\ buffer[u] # <<>>
    BY <1>0 DEF MemoryInv, Drain, Drained
  <2>2. Head(buffer[u]) \in RootStores
    BY <2>1, HeadTailProperties
  <2>3. QED
    BY <2>2 DEF RootStores
<1>2. UNCHANGED <<top, bottom, cell, own, pc, reg>> /\ \A p \in Participants : buffer'[p] = buffer[p]
  BY <1>0, <1>1 DEF Drain, Set, MemoryInv
<1>3. QED
  BY <1>0, <1>2, Elsewhere DEF Handed, DequeTypes

-----------------------------------------------------------------------------
LEMMA InitDeque == Init => DequeInv
<1> SUFFICES ASSUME Init PROVE DequeInv
  OBVIOUS
<1> USE Basics DEF Init, MemoryInit, NodeInit, RootInit
<1>1. NoReg \in Regs
  BY DEF NoReg, Regs, Val
<1>2. DequeTypes
  BY <1>1 DEF DequeTypes, Val
<1>3. ASSUME NEW p \in Participants PROVE Sizes(p) /\ LateStores(p) /\ OwnerRead(p) /\ ThiefRead(p)
  <2>1. pc[p] \in {"step", "idle"} /\ buffer[p] = <<>> /\ own[p] = 0 /\ top[p] = 0 /\ bottom[p] = 0
    OBVIOUS
  <2>2. ~Popping(p) /\ ~Stealing(p) /\ pc[p] # "popLast"
    BY <2>1 DEF Popping, Stealing
  <2>3. End(p) = 0
    BY <2>1, <2>2 DEF End
  <2>4. QED
    BY <2>1, <2>2, <2>3 DEF Sizes, LateStores, OwnerRead, ThiefRead
<1>4. QED
  BY <1>2, <1>3 DEF DequeInv, DequeSound

LEMMA NextHands ==
    ASSUME Inv, DequeInv, Next
    PROVE  Handed
<1> USE Basics
<1>0. Inv'
  BY NextInv
<1>1. ASSUME NEW t \in Threads, Flushes(t) PROVE Handed
  BY <1>0, <1>1, DrainHands, RootStoreHands DEF Flushes
<1>2. ASSUME NEW t \in Threads, RootNext(t) PROVE Handed
  BY <1>2, WorkerAside, AsideHands
<1>3. ASSUME NEW p \in Participants, Participates(p) PROVE Handed
  <2>1. CASE Pop(p)
    BY <2>1, PopHands
  <2>2. CASE DequeNext(p)
    BY <1>0, <2>2, PopTopHands, PopLastHands, StealHands, StealTopHands DEF DequeNext
  <2>3. CASE NodeNext(p) \/ Popped(p) \/ PollFarm(p)
    BY <2>3, ChainAside, AsideHands, ForkHands DEF NodeNext
  <2>4. QED
    BY <1>3, <2>1, <2>2, <2>3 DEF Participates
<1>4. ASSUME NEW w \in Workers, WorkerNext(w) PROVE Handed
  BY <1>4, WorkerAside, AsideHands
<1>5. ASSUME NEW u \in Submitters, SubmitterNext(u) PROVE Handed
  BY <1>5, SubmitterAside, AsideHands
<1>6. CASE RunRoot \/ Stop \/ Leave
  BY <1>6, CallerAside, AsideHands
<1>7. QED
  BY <1>1, <1>2, <1>3, <1>4, <1>5, <1>6 DEF Next

LEMMA DequeNextInv ==
    ASSUME Inv, DequeInv, [Next]_vars
    PROVE  DequeInv'
<1>1. CASE Next
  BY <1>1, NextHands DEF Handed
<1>2. CASE UNCHANGED vars
  <2>1. UNCHANGED <<top, bottom, cell, own, buffer, pc, reg>>
    BY <1>2 DEF vars, memoryVars
  <2>2. \A p : End(p)' = End(p)
    BY <2>1 DEF End, Popping
  <2>3. DequeTypes'
    BY <2>1 DEF DequeInv, DequeTypes
  <2>4. ASSUME NEW p \in Participants PROVE (Sizes(p) /\ LateStores(p) /\ OwnerRead(p) /\ ThiefRead(p))'
    <3>1. Sizes(p) /\ LateStores(p) /\ OwnerRead(p) /\ ThiefRead(p)
      BY DEF DequeInv, DequeSound
    <3>2. Sizes(p)'
      BY <2>1, <2>2, <3>1 DEF Sizes, Popping
    <3>3. LateStores(p)' /\ OwnerRead(p)'
      BY <2>1, <3>1 DEF LateStores, LateStore, OwnerRead
    <3>4. ThiefRead(p)'
      BY <2>1, <3>1 DEF ThiefRead, Stealing, End, Popping, LateAt
    <3>5. QED
      BY <3>2, <3>3, <3>4
  <2>5. QED
    BY <2>3, <2>4 DEF DequeInv, DequeSound
<1>3. QED
  BY <1>1, <1>2

(* Pop and steal hand out every node at most once: the thread that is      *)
(* given a node takes the index it lay at out of the deque, no step takes  *)
(* two, nothing else leaves a deque, and what stays keeps its node, though *)
(* the stores of a push and of a pop wait in their owner's buffer.         *)
THEOREM EachNodeHandedOnce == Spec => [][HandsOut]_vars
<1>1. Inv /\ DequeInv /\ [Next]_vars => [HandsOut]_vars
  BY NextHands DEF Handed
<1>2. Init => Inv /\ DequeInv
  BY InitInv, InitDeque
<1>3. Inv /\ DequeInv /\ [Next]_vars => Inv' /\ DequeInv'
  BY NextInv, DequeNextInv
<1>4. QED
  BY <1>1, <1>2, <1>3, PTL DEF Spec

(* A deque at its capacity wraps around: no two nodes it holds, those that *)
(* still wait in its owner's buffer included, share a slot.                *)
THEOREM SlotsNeverShared ==
    Spec => [](\A p \in Participants : \A i, j \in Held(p) : i % Cap = j % Cap => i = j)
<1>1. ASSUME Inv, DequeInv, NEW p \in Participants, NEW i \in Held(p), NEW j \in Held(p), i % Cap = j % Cap
      PROVE  i = j
  <2>1. /\ Held(p) = top[p] .. End(p) - 1 /\ top[p] \in Nat /\ End(p) \in Int /\ End(p) <= top[p] + Cap
    BY <1>1, HeldIs DEF Inv, DequeInv, DequeSound, Sizes
  <2>2. i \in Nat /\ j \in Nat /\ i < j + Cap /\ j < i + Cap
    BY <2>1, Basics
  <2>3. QED
    BY <1>1, <2>2, SlotsApart
<1>2. Init => Inv /\ DequeInv
  BY InitInv, InitDeque
<1>3. Inv /\ DequeInv /\ [Next]_vars => Inv' /\ DequeInv'
  BY NextInv, DequeNextInv
<1>4. Inv /\ DequeInv => \A p \in Participants : \A i, j \in Held(p) : i % Cap = j % Cap => i = j
  BY <1>1
<1>5. QED
  BY <1>2, <1>3, <1>4, PTL DEF Spec

=============================================================================
