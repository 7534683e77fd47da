------------------------------ MODULE StealDeque ------------------------------
(***************************************************************************)
(* The deques of the participants (Chase and Lev, with the barriers of Lê  *)
(* and others) over the memory of x86: a plain store waits in the store    *)
(* buffer of its thread, a locked operation and a fence wait for the       *)
(* buffer to drain.  The words the dispatcher writes with plain stores     *)
(* before it reads another's are here too: the Farm and the submit lock.   *)
(***************************************************************************)
EXTENDS Integers, Sequences, FiniteSets

CONSTANTS
    Workers,     (* the pool's workers                                      *)
    Caller,      (* participant 0                                           *)
    Submitters,  (* threads that are not participants                       *)
    MaxFrames,   (* frames at hand                                          *)
    Cap          (* capacity of a deque                                     *)

Participants == Workers \cup {Caller}
Threads == Participants \cup Submitters
Frames == 1 .. MaxFrames
None == 0

ASSUME DequeAssumption ==
    /\ Cap \in Nat \ {0} /\ MaxFrames \in Nat
    /\ IsFiniteSet(Participants) /\ Caller \notin Workers
    /\ Participants \cap Submitters = {}

VARIABLES
    top, bottom, cell,   (* Deque.top, bottom and slots, by participant     *)
    own,                 (* bottom as its owner has stored it last          *)
    farm,                (* roots written to the Farm and not yet run       *)
    lock,                (* g_submitLock                                    *)
    buffer               (* stores of a thread that nobody else sees yet    *)

memoryVars == <<top, bottom, cell, own, farm, lock, buffer>>

VARIABLES
    pc,
    cur,    (* the node at hand                                             *)
    reg     (* loads of a pop or a steal: top, bottom, item; and the victim *)

NoReg == [t |-> 0, b |-> 0, x |-> None, v |-> Caller]

At(p, l) == pc[p] = l
Set(f, x, v) == [f EXCEPT ![x] = v]
Goto(p, l) == pc' = Set(pc, p, l)

MemoryInit ==
    /\ top = [p \in Participants |-> 0]
    /\ bottom = [p \in Participants |-> 0]
    /\ cell = [p \in Participants |-> [i \in 0 .. Cap - 1 |-> None]]
    /\ own = [p \in Participants |-> 0]
    /\ farm = {}
    /\ lock = FALSE
    /\ buffer = [t \in Threads |-> <<>>]

-----------------------------------------------------------------------------
(* Store buffers.                                                          *)

Stored(word, at, val) == [word |-> word, at |-> at, val |-> val]

(* The thread's stores are visible: what a locked operation waits for.     *)
Drained(t) == buffer[t] = <<>>

(* The oldest store of t reaches memory.                                   *)
Drain(t) ==
    /\ ~Drained(t)
    /\ LET s == Head(buffer[t]) IN
        /\ bottom' = IF s.word = "bottom" THEN Set(bottom, t, s.at) ELSE bottom
        /\ cell' = IF s.word = "cell" THEN [cell EXCEPT ![t][s.at % Cap] = s.val] ELSE cell
        /\ farm' = IF s.word = "farm" THEN farm \cup {s.val} ELSE farm
        /\ lock' = IF s.word = "unlock" THEN FALSE ELSE lock
    /\ buffer' = Set(buffer, t, Tail(buffer[t]))
    /\ UNCHANGED <<top, own, pc, cur, reg>>

-----------------------------------------------------------------------------
(* pushAll, for the nodes xs of the owner.                                 *)

(* Variant of Room: a full deque takes one more.                           *)
RoomForOne(p) == Cap + 1 - (own[p] - top[p])

(* How many more nodes the owner may push.                                 *)
Room(p) == Cap - (own[p] - top[p])

Fitting(p, xs) == IF Len(xs) < Room(p) THEN Len(xs) ELSE Room(p)

(* The owner saw its deque empty before it pushed.                         *)
WasEmpty(p) == own[p] = top[p]

(* Cells first, then bottom.                                               *)
PushAll(p, xs) ==
    LET n == Fitting(p, xs)
    IN  /\ own' = [own EXCEPT ![p] = @ + n]
        /\ buffer' = [buffer EXCEPT ![p] = IF n = 0 THEN @ ELSE
              @ \o [i \in 1 .. n |-> Stored("cell", own[p] + i - 1, xs[i])]
                \o <<Stored("bottom", own[p] + n, None)>>]

-----------------------------------------------------------------------------
(* pop, by the owner; it ends at "popped" with a node, or at "empty".      *)

(* Variant of Exchange: a plain store.                                     *)
StoreOnly(p, b) ==
    /\ buffer' = [buffer EXCEPT ![p] = Append(@, Stored("bottom", b, None))]
    /\ UNCHANGED bottom

(* The locked exchange of bottom.                                          *)
Exchange(p, b) ==
    /\ Drained(p)
    /\ bottom' = Set(bottom, p, b)
    /\ UNCHANGED buffer

Pop(p) ==
    /\ pc[p] \in {"step", "found", "missed"}
    /\ own' = [own EXCEPT ![p] = @ - 1]
    /\ Exchange(p, own[p] - 1)
    /\ Goto(p, "popTop")
    /\ UNCHANGED <<top, cell, farm, lock, cur, reg>>

(* The owner takes bottom back to where it was.                            *)
Restore(p) ==
    /\ own' = [own EXCEPT ![p] = @ + 1]
    /\ buffer' = [buffer EXCEPT ![p] = Append(@, Stored("bottom", own[p] + 1, None))]

(* Only the last node is anybody's.                                        *)
Contended(t, b) == t = b

PopTop(p) ==
    /\ At(p, "popTop")
    /\ LET t == top[p]  b == own[p]  x == cell[p][b % Cap] IN
       IF t > b
       THEN Restore(p) /\ Goto(p, "empty") /\ UNCHANGED <<cur, reg>>
       ELSE IF ~Contended(t, b)
       THEN cur' = Set(cur, p, x) /\ Goto(p, "popped") /\ UNCHANGED <<own, buffer, reg>>
       ELSE /\ reg' = [reg EXCEPT ![p].t = t, ![p].x = x]
            /\ Goto(p, "popLast")
            /\ UNCHANGED <<own, buffer, cur>>
    /\ UNCHANGED <<top, bottom, cell, farm, lock>>

(* The race with thieves for the last node.                                *)
PopLast(p) ==
    /\ At(p, "popLast")
    /\ Drained(p)
    /\ IF top[p] = reg[p].t
       THEN /\ top' = [top EXCEPT ![p] = @ + 1]
            /\ cur' = Set(cur, p, reg[p].x)
            /\ Goto(p, "popped")
       ELSE UNCHANGED <<top, cur>> /\ Goto(p, "empty")
    /\ Restore(p)
    /\ reg' = Set(reg, p, NoReg)
    /\ UNCHANGED <<bottom, cell, farm, lock>>

-----------------------------------------------------------------------------
(* steal; it ends at "got" with a node, or at "missed".                    *)

Steal(p) ==
    /\ At(p, "steal")
    /\ \E v \in Participants \ {p} :
        reg' = Set(reg, p, [NoReg EXCEPT !.v = v, !.t = top[v]])
    /\ Goto(p, "stealBottom")
    /\ UNCHANGED <<memoryVars, cur>>

(* After the fence.                                                        *)
StealBottom(p) ==
    /\ At(p, "stealBottom")
    /\ Drained(p)
    /\ IF reg[p].t >= bottom[reg[p].v]
       THEN reg' = Set(reg, p, NoReg) /\ Goto(p, "missed")
       ELSE UNCHANGED reg /\ Goto(p, "stealCell")
    /\ UNCHANGED <<memoryVars, cur>>

StealCell(p) ==
    /\ At(p, "stealCell")
    /\ reg' = [reg EXCEPT ![p].x = cell[reg[p].v][reg[p].t % Cap]]
    /\ Goto(p, "stealTop")
    /\ UNCHANGED <<memoryVars, cur>>

StealTop(p) ==
    /\ At(p, "stealTop")
    /\ Drained(p)
    /\ LET v == reg[p].v IN
       IF top[v] = reg[p].t
       THEN /\ top' = [top EXCEPT ![v] = @ + 1]
            /\ cur' = Set(cur, p, reg[p].x)
            /\ Goto(p, "run")
       ELSE UNCHANGED <<top, cur>> /\ Goto(p, "missed")
    /\ reg' = Set(reg, p, NoReg)
    /\ UNCHANGED <<bottom, cell, own, farm, lock, buffer>>

DequeNext(p) ==
    \/ PopTop(p) \/ PopLast(p)
    \/ Steal(p) \/ StealBottom(p) \/ StealCell(p) \/ StealTop(p)
=============================================================================
