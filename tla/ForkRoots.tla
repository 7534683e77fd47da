------------------------------ MODULE ForkRoots ------------------------------
(***************************************************************************)
(* Roots, the steps of a participant, parking and waking, and stop.        *)
(*                                                                         *)
(* The Farm hands every root that was written to it to one consumer        *)
(* (AntFarm); the workers consume it, the caller does not, as by default.  *)
(* The pool's wait slot and armed bit of a worker are its word and a       *)
(* member of armed.                                                        *)
(***************************************************************************)
EXTENDS ForkNodes

VARIABLES
    word,    (* WaitSlot.wakeWord of a worker: it is armed                  *)
    armed,   (* gArmedBits                                                  *)
    group    (* the sentinel a thread waits for, or has open                *)

parkVars == <<word, armed>>
vars == <<memoryVars, pc, cur, reg, nodeVars, chainVars, parkVars, group>>

RootInit ==
    /\ word = [w \in Workers |-> FALSE]
    /\ armed = {}
    /\ group = [t \in Threads |-> None]
    /\ mode = [t \in Threads |-> IF t \in Workers THEN "spin" ELSE "none"]
    /\ pc = [t \in Threads |-> IF t \in Workers THEN "step" ELSE "idle"]
    /\ cur = [t \in Threads |-> None]
    /\ ret = [t \in Threads |-> "idle"]
    /\ reg = [t \in Threads |-> NoReg]

-----------------------------------------------------------------------------
(* step: pop, then the Farm, then steal.                                   *)

(* A node popped may have the Farm polled before it runs.                  *)
Popped(p) ==
    /\ At(p, "popped")
    /\ \/ Goto(p, "run") /\ UNCHANGED <<cur, stack, farm>>
       \/ /\ p \in Workers
          /\ \E r \in farm :
              /\ farm' = farm \ {r}
              /\ stack' = Set(stack, p, <<cur[p]>>)
              /\ cur' = Set(cur, p, r)
          /\ Goto(p, "run")
    /\ UNCHANGED <<top, bottom, cell, own, lock, buffer, reg, nodeVars, ret, mode,
                   parkVars, group>>

PollFarm(p) ==
    /\ At(p, "empty")
    /\ IF p \in Workers /\ farm # {}
       THEN \E r \in farm :
              /\ farm' = farm \ {r}
              /\ cur' = Set(cur, p, r)
              /\ Goto(p, "run")
       ELSE /\ Goto(p, IF Cardinality(Participants) = 1 THEN "missed" ELSE "steal")
            /\ UNCHANGED <<farm, cur>>
    /\ UNCHANGED <<top, bottom, cell, own, lock, buffer, reg, nodeVars, chainVars, parkVars, group>>

(* Variant of Drains: what the caller can see is gone.                     *)
DrainsSight == farm = {} /\ own[Caller] = top[Caller]

(* Every root has completed.                                               *)
Drains == rootsLive = 0

(* Whether p takes another step: the loops of a worker, runRoot and stop.  *)
Again(p) ==
    /\ mode[p] = "recheck" => ~At(p, "found")
    /\ mode[p] = "root" => group[p] \notin done
    /\ mode[p] = "stop" => ~Drains

-----------------------------------------------------------------------------
(* Parking: arm, take steps once more, sleep.                              *)

Arm(w) ==
    /\ At(w, "missed") /\ mode[w] = "spin"
    /\ Drained(w)
    /\ word' = Set(word, w, TRUE)
    /\ Goto(w, "armBit")
    /\ UNCHANGED <<memoryVars, cur, reg, nodeVars, chainVars, armed, group>>

ArmBit(w) ==
    /\ At(w, "armBit")
    /\ armed' = armed \cup {w}
    /\ mode' = Set(mode, w, "recheck")
    /\ Goto(w, "step")
    /\ UNCHANGED <<memoryVars, cur, reg, nodeVars, stack, ret, word, group>>

Park(w) ==
    /\ At(w, "missed") /\ mode[w] = "recheck"
    /\ Goto(w, "asleep")
    /\ UNCHANGED <<memoryVars, cur, reg, nodeVars, chainVars, parkVars, group>>

(* Work was found, or the word is not armed any more.                      *)
DisarmBit(w) ==
    /\ mode[w] = "recheck"
    /\ At(w, "found") \/ (At(w, "asleep") /\ ~word[w])
    /\ Drained(w)
    /\ armed' = armed \ {w}
    /\ Goto(w, "disarm")
    /\ UNCHANGED <<memoryVars, cur, reg, nodeVars, chainVars, word, group>>

Disarm(w) ==
    /\ At(w, "disarm")
    /\ word' = Set(word, w, FALSE)
    /\ mode' = Set(mode, w, "spin")
    /\ Goto(w, "step")
    /\ UNCHANGED <<memoryVars, cur, reg, nodeVars, stack, ret, armed, group>>

(* Variant of Fenced: the stores may still wait.                           *)
Unfenced(t) == TRUE

(* publishRoot fences between its store and the bitmap; fork does not.     *)
Fenced(t) == t \in Submitters => Drained(t)

(* wakeOneArmed: one armed bit, if any, then the worker's word.            *)
TakeBit(t) == \E w \in armed : armed' = armed \ {w} /\ reg' = [reg EXCEPT ![t].v = w]

Scan(t) ==
    /\ At(t, "scan")
    /\ Fenced(t)
    /\ IF armed = {}
       THEN Goto(t, ret[t]) /\ UNCHANGED <<armed, reg>>
       ELSE /\ Drained(t)
            /\ TakeBit(t)
            /\ Goto(t, "wake")
    /\ UNCHANGED <<memoryVars, cur, nodeVars, chainVars, word, group>>

WakeWorker(t) ==
    /\ At(t, "wake") \/ At(t, "wakeAgain")
    /\ word' = Set(word, reg[t].v, FALSE)
    /\ reg' = Set(reg, t, NoReg)
    /\ Goto(t, IF At(t, "wake") THEN ret[t] ELSE "write")
    /\ UNCHANGED <<memoryVars, cur, nodeVars, chainVars, armed, group>>

-----------------------------------------------------------------------------
(* Roots: runRoot, submitRoot, submitDetached, TaskGroup.                  *)

Quiet == pc[Caller] # "left" /\ mode[Caller] # "stop"

(* A root of t with a fresh sentinel that holds count.                     *)
Root(t, count) ==
    /\ At(t, "idle") /\ Quiet
    /\ work < MaxWork /\ work' = work + 1
    /\ Len(Fresh) >= 2
    /\ LET s == Fresh[1]  r == Fresh[2] IN
        /\ live' = live \cup {s, r}
        /\ sentinels' = sentinels \cup {s}
        /\ parent' = [parent EXCEPT ![s] = None, ![r] = s]
        /\ pending' = Set(pending, s, count)
        /\ kids' = Set(kids, s, {r})
        /\ cur' = Set(cur, t, r)
        /\ group' = Set(group, t, s)
    /\ rootsLive' = rootsLive + 1
    /\ UNCHANGED done

RunRoot ==
    /\ Root(Caller, 1)
    /\ mode' = Set(mode, Caller, "root")
    /\ Goto(Caller, "run")
    /\ UNCHANGED <<memoryVars, reg, stack, ret, parkVars>>

SubmitRoot(u) ==
    /\ Root(u, 1)
    /\ ret' = Set(ret, u, "waiting")
    /\ Goto(u, "lock")
    /\ UNCHANGED <<memoryVars, reg, stack, mode, parkVars>>

(* The first add of a TaskGroup; the group holds one count itself.         *)
OpenGroup(u) ==
    /\ Root(u, 2)
    /\ ret' = Set(ret, u, "open")
    /\ Goto(u, "lock")
    /\ UNCHANGED <<memoryVars, reg, stack, mode, parkVars>>

Add(u) ==
    /\ At(u, "open")
    /\ work < MaxWork /\ work' = work + 1
    /\ Fresh # <<>>
    /\ LET r == Fresh[1]  s == group[u] IN
        /\ live' = live \cup {r}
        /\ parent' = Set(parent, r, s)
        /\ pending' = [pending EXCEPT ![s] = @ + 1]
        /\ kids' = [kids EXCEPT ![s] = @ \cup {r}]
        /\ cur' = Set(cur, u, r)
    /\ Goto(u, "lock")
    /\ UNCHANGED <<memoryVars, reg, sentinels, done, rootsLive, chainVars, parkVars, group>>

SubmitDetached(u) ==
    /\ At(u, "idle") /\ Quiet
    /\ work < MaxWork /\ work' = work + 1
    /\ Fresh # <<>>
    /\ live' = live \cup {Fresh[1]}
    /\ parent' = Set(parent, Fresh[1], None)
    /\ cur' = Set(cur, u, Fresh[1])
    /\ rootsLive' = rootsLive + 1
    /\ ret' = Set(ret, u, "idle")
    /\ Goto(u, "lock")
    /\ UNCHANGED <<memoryVars, reg, pending, kids, sentinels, done, stack, mode,
                   parkVars, group>>

(* publishRoot: the lock, the write, the unlock.                           *)
Lock(u) ==
    /\ At(u, "lock")
    /\ ~lock /\ Drained(u)
    /\ lock' = TRUE
    /\ Goto(u, "write")
    /\ UNCHANGED <<top, bottom, cell, own, farm, buffer, cur, reg, nodeVars, chainVars, parkVars,
                   group>>

WriteRoot(u) ==
    /\ At(u, "write")
    /\ buffer' = [buffer EXCEPT ![u] = @ \o <<Stored("farm", 0, cur[u]), Stored("unlock", 0, None)>>]
    /\ cur' = Set(cur, u, None)
    /\ Goto(u, "scan")
    /\ UNCHANGED <<top, bottom, cell, own, farm, lock, reg, nodeVars, chainVars, parkVars, group>>

(* The Farm refuses while it is full of roots that nobody has taken: wake  *)
(* somebody and try again.                                                 *)
Refused(u) ==
    /\ At(u, "write")
    /\ farm # {}
    /\ Goto(u, "again")
    /\ UNCHANGED <<memoryVars, cur, reg, nodeVars, chainVars, parkVars, group>>

WakeAgain(u) ==
    /\ At(u, "again")
    /\ IF armed = {}
       THEN Goto(u, "write") /\ UNCHANGED <<armed, reg>>
       ELSE /\ TakeBit(u)
            /\ Goto(u, "wakeAgain")
    /\ UNCHANGED <<memoryVars, cur, nodeVars, chainVars, word, group>>

(* The frames of the sentinel s go back to their owner.                    *)
Release(t, s) ==
    /\ live' = live \ ({s} \cup kids[s])
    /\ parent' = Unlinked({s} \cup kids[s])
    /\ kids' = Set(kids, s, {})
    /\ sentinels' = sentinels \ {s}
    /\ done' = done \ {s}
    /\ group' = Set(group, t, None)
    /\ mode' = Set(mode, t, "none")
    /\ Goto(t, "idle")

(* runRoot, waitRoot or TaskGroup.wait returns.                            *)
Finish(t) ==
    /\ At(t, "waiting") \/ (mode[t] = "root" /\ pc[t] \in {"found", "missed"})
    /\ group[t] \in done
    /\ Release(t, group[t])
    /\ UNCHANGED <<memoryVars, cur, reg, pending, rootsLive, work, stack,
                   ret, parkVars>>

(* The group's own count is the last.                                      *)
NoneLeft(s) == pending[s] = 1

WaitGroup(u) ==
    /\ At(u, "open")
    /\ pending' = [pending EXCEPT ![group[u]] = @ - 1]
    /\ IF NoneLeft(group[u])
       THEN rootsLive' = rootsLive - 1 /\ Release(u, group[u])
       ELSE Goto(u, "waiting")
            /\ UNCHANGED <<rootsLive, live, parent, kids, sentinels, done, group, mode>>
    /\ UNCHANGED <<memoryVars, cur, reg, work, stack, ret, parkVars>>

(* Dispatcher.stop, once external submitters are quiet.                    *)
Stop ==
    /\ At(Caller, "idle")
    /\ \A u \in Submitters : At(u, "idle")
    /\ mode' = Set(mode, Caller, "stop")
    /\ Goto(Caller, "found")
    /\ UNCHANGED <<memoryVars, cur, reg, nodeVars, stack, ret, parkVars, group>>

Leave ==
    /\ mode[Caller] = "stop" /\ pc[Caller] \in {"found", "missed"}
    /\ Drains
    /\ Goto(Caller, "left")
    /\ UNCHANGED <<memoryVars, cur, reg, nodeVars, chainVars, parkVars, group>>

WorkerNext(w) == Arm(w) \/ ArmBit(w) \/ Park(w) \/ DisarmBit(w) \/ Disarm(w)
RootNext(t) == Scan(t) \/ WakeWorker(t) \/ Finish(t)
SubmitterNext(u) ==
    \/ SubmitRoot(u) \/ OpenGroup(u) \/ Add(u) \/ SubmitDetached(u)
    \/ Lock(u) \/ WriteRoot(u) \/ Refused(u) \/ WakeAgain(u) \/ WaitGroup(u)
=============================================================================
