------------------------------ MODULE ThreadPool ------------------------------
(***************************************************************************)
(* The pool and its host: start, its failures, shutdown; the Director's    *)
(* policies; publishers that wake one worker (fork-join's wakeOneIn) or    *)
(* all of them through the host (FarmHost.wake), which may overlap with    *)
(* the host's closing.                                                     *)
(***************************************************************************)
EXTENDS PoolWorkers

CONSTANTS
    Policies,    (* subset of {"wait", "sleep", "spin"}                     *)
    MaxCalls     (* bound: pieces of work published and changes of policy   *)

ASSUME PoolBounds == MaxCalls \in Nat

(* The groups are those that supply a pool's workers (GroupHost's plan): a *)
(* Farm beside them has only the caller's own pump.                        *)
ASSUME GroupsServed ==
    /\ Workers # {}
    /\ \A g \in Groups : \E w \in Workers : GroupOf[w] = g

VARIABLES
    aim,      (* the worker a thread is about to wake                       *)
    scope,    (* who sees what a publisher has published                    *)
    open,     (* FarmHost.state_ is open                                    *)
    wakers,   (* FarmHost.wakers_                                           *)
    calls     (* what MaxCalls bounds                                       *)

workerVars == <<pc, then, left, flagVars, hooks, parkVars, idleVars, work>>
hostVars == <<open, wakers>>
wakeVars == <<aim, scope, calls>>
vars == <<workerVars, hostVars, wakeVars>>

Init ==
    /\ pc = [t \in Threads |-> CASE t = Control -> "closed"
                                 [] t \in Workers -> "none"
                                 [] OTHER -> "away"]
    /\ then = [t \in Threads |-> "loop"]
    /\ left = [t \in Threads |-> {}]
    /\ run = FALSE /\ go = FALSE /\ slots = FALSE
    /\ pin = [w \in Workers |-> "none"]
    /\ lane \in Lanes
    /\ hooks = [w \in Workers |-> "none"]
    /\ word = [w \in Workers |-> FALSE] /\ bits = {}
    /\ kind = [w \in Workers |-> "wait"] /\ took = [w \in Workers |-> "wait"]
    /\ timed = [w \in Workers |-> FALSE]
    /\ work = [s \in Scopes |-> 0]
    /\ aim = [t \in Threads |-> Control] /\ scope = [p \in Publishers |-> "any"]
    /\ open = FALSE /\ wakers = 0 /\ calls = 0

-----------------------------------------------------------------------------
(* Publishers.  The publication is ordered before what follows: a fence in *)
(* publishRoot, the locked increment in FarmHost.wake, where the work is in *)
(* a Farm that one group pumps.                                            *)

Publish(p) ==
    /\ At(p, "away") /\ open
    /\ calls < MaxCalls /\ calls' = calls + 1
    /\ \E s \in Scopes :
        /\ work' = [work EXCEPT ![s] = @ + 1]
        /\ scope' = Set(scope, p, s)
        /\ Goto(p, "scan") \/ (s \in Groups /\ Goto(p, "count"))
    /\ UNCHANGED <<then, left, flagVars, hooks, parkVars, idleVars, hostVars, aim>>

(* Variant of Eligible: any armed worker.                                  *)
AnyArmed(p) == bits

(* wakeOneArmedIn, and wakeOneArmed when it finds nobody.                  *)
Eligible(p) ==
    IF At(p, "scan") /\ scope[p] \in Groups
    THEN {w \in bits : GroupOf[w] = scope[p]} ELSE bits

WakeOne(p) ==
    /\ At(p, "scan") \/ At(p, "scanAny")
    /\ IF Eligible(p) = {}
       THEN /\ Goto(p, IF At(p, "scan") /\ scope[p] \in Groups THEN "scanAny" ELSE "away")
            /\ UNCHANGED <<bits, aim>>
       ELSE \E w \in Eligible(p) :
              /\ bits' = bits \ {w}
              /\ aim' = Set(aim, p, w)
              /\ Goto(p, "wake")
    /\ scope' = IF pc'[p] = "scanAny" THEN scope ELSE Set(scope, p, "any")
    /\ UNCHANGED <<then, left, flagVars, hooks, word, idleVars, work, hostVars, calls>>

(* wakeWorker: of the worker whose bit was taken, or was told a policy.    *)
WakeWorker(t) ==
    /\ At(t, "wake") \/ At(t, "signal")
    /\ word' = Set(word, aim[t], FALSE)
    /\ aim' = Set(aim, t, Control)
    /\ Goto(t, IF At(t, "wake") THEN "away" ELSE "live")
    /\ UNCHANGED <<then, left, flagVars, hooks, bits, idleVars, work, hostVars, scope, calls>>

(* FarmHost.wake: counted, then the state.                                 *)
CountIn(p) ==
    /\ At(p, "count")
    /\ wakers' = wakers + 1
    /\ Goto(p, "look")
    /\ UNCHANGED <<then, left, flagVars, hooks, parkVars, idleVars, work, open, wakeVars>>

WakeAll(p) ==
    /\ At(p, "look")
    /\ left' = Set(left, p, IF open THEN Workers ELSE {})
    /\ then' = Set(then, p, "countOut")
    /\ scope' = Set(scope, p, "any")
    /\ Goto(p, "waking")
    /\ UNCHANGED <<flagVars, hooks, parkVars, idleVars, work, hostVars, aim, calls>>

CountOut(p) ==
    /\ At(p, "countOut")
    /\ wakers' = wakers - 1
    /\ Goto(p, "away")
    /\ UNCHANGED <<then, left, flagVars, hooks, parkVars, idleVars, work, open, wakeVars>>

PublisherStep(p) == WakeOne(p) \/ WakeWorker(p) \/ CountIn(p) \/ WakeAll(p) \/ CountOut(p)
                    \/ (WakeEach(p) /\ UNCHANGED <<hostVars, wakeVars>>)

-----------------------------------------------------------------------------
(* start and abortStart.                                                   *)

StartPool ==
    /\ At(Control, "closed")
    /\ lane' \in Lanes
    /\ run' = TRUE /\ go' = FALSE /\ slots' = TRUE
    /\ pin' = [w \in Workers |-> "none"]
    /\ hooks' = [w \in Workers |-> "none"]
    /\ word' = [w \in Workers |-> FALSE] /\ bits' = {}
    /\ kind' = [w \in Workers |-> "wait"]
    /\ work' = [s \in Scopes |-> 0]
    /\ pc' = [t \in Threads |-> IF t = Control THEN "spawn" ELSE IF t \in Workers THEN "none" ELSE pc[t]]
    /\ UNCHANGED <<then, left, took, timed, hostVars, wakeVars>>

Unspawned == {w \in Workers : At(w, "none")}

(* spawnWorker, or an Error while the workers are spawned.                 *)
Spawn ==
    /\ At(Control, "spawn")
    /\ \/ \E w \in Unspawned : Goto(w, "pin")
       \/ Unspawned # {} /\ Goto(Control, "request")
       \/ Unspawned = {} /\ Goto(Control, "pins")
    /\ UNCHANGED <<then, left, flagVars, hooks, parkVars, idleVars, work, hostVars, wakeVars>>

(* releaseWorkers, once every worker is pinned.                            *)
AwaitPins ==
    /\ At(Control, "pins")
    /\ \A w \in Workers : pin[w] # "none"
    /\ IF \A w \in Workers : pin[w] = "pinned"
       THEN go' = TRUE /\ Goto(Control, "opening")
       ELSE Goto(Control, "request") /\ UNCHANGED go
    /\ UNCHANGED <<then, left, run, pin, slots, lane, hooks, parkVars, idleVars, work, hostVars, wakeVars>>

(* awaitWorkers, then the host is open, or has failed.                     *)
OpenHost ==
    /\ At(Control, "opening")
    /\ \/ ~run /\ Goto(Control, "request") /\ UNCHANGED open
       \/ /\ run /\ \A w \in Workers : hooks[w] = "started"
          /\ open' = TRUE /\ Goto(Control, "live")
    /\ UNCHANGED <<then, left, flagVars, hooks, parkVars, idleVars, work, wakers, wakeVars>>

-----------------------------------------------------------------------------
(* The Director, and the end of a run.                                     *)

Direct ==
    /\ At(Control, "live")
    /\ calls < MaxCalls /\ calls' = calls + 1
    /\ \E w \in Workers, k \in Policies :
        /\ kind' = Set(kind, w, k)
        /\ aim' = Set(aim, Control, w)
    /\ Goto(Control, "signal")
    /\ UNCHANGED <<then, left, flagVars, hooks, parkVars, took, timed, work, hostVars, scope>>

(* Who wakes one worker: a dispatcher is stopped when these are quiet.     *)
Submitting(p) == pc[p] \in {"scan", "scanAny", "wake"}

(* close, abandon, or failed.                                              *)
Close ==
    /\ At(Control, "live")
    /\ \A p \in Publishers : ~Submitting(p)
    /\ open' = FALSE
    /\ Goto(Control, "drain")
    /\ UNCHANGED <<then, left, flagVars, hooks, parkVars, idleVars, work, wakers, wakeVars>>

(* Variant of Drained: nobody is waited for.                               *)
DrainedAtOnce == TRUE

Drained == wakers = 0

DrainWakers ==
    /\ At(Control, "drain") /\ Drained
    /\ Goto(Control, "request")
    /\ UNCHANGED <<then, left, flagVars, hooks, parkVars, idleVars, work, hostVars, wakeVars>>

JoinAll ==
    /\ At(Control, "join")
    /\ \A w \in Workers : pc[w] \in {"none", "ended"}
    /\ Goto(Control, "clear")
    /\ UNCHANGED <<then, left, flagVars, hooks, parkVars, idleVars, work, hostVars, wakeVars>>

(* clearWorkerState, with poolStopped.                                     *)
Clear ==
    /\ At(Control, "clear")
    /\ slots' = FALSE
    /\ bits' = {}
    /\ Goto(Control, "closed")
    /\ UNCHANGED <<then, left, run, go, pin, lane, hooks, word, idleVars, work, hostVars, wakeVars>>

ControlStep ==
    \/ Spawn \/ AwaitPins \/ OpenHost \/ DrainWakers \/ JoinAll \/ Clear
    \/ WakeWorker(Control)
    \/ StopNext(Control) /\ UNCHANGED <<hostVars, wakeVars>>

WorkerStep(w) == WorkerNext(w) /\ UNCHANGED <<hostVars, wakeVars>>

Next ==
    \/ StartPool \/ Direct \/ Close \/ ControlStep
    \/ \E w \in Workers : WorkerStep(w)
    \/ \E p \in Publishers : Publish(p) \/ PublisherStep(p)

Spec == Init /\ [][Next]_vars

-----------------------------------------------------------------------------
(* Parking.                                                                *)

Asleep(w) == At(w, "asleep") /\ word[w]

(* A publisher that has yet to wake somebody who sees s.                   *)
OwesWake(p, s) ==
    \/ pc[p] \in {"scan", "count", "look"} /\ scope[p] = s
    \/ At(p, "wake") /\ s \in Sees(aim[p])
    \/ At(p, "waking") /\ \E w \in left[p] : s \in Sees(w)

(* While a pool that is open and not stopped has work, somebody who sees   *)
(* it is awake, or somebody has yet to wake such a worker: no bit is spent *)
(* on two pieces of work of different groups, or on a worker that goes on  *)
(* to sleep.                                                               *)
WorkSeen ==
    open /\ run => \A s \in Scopes : work[s] > 0 =>
        \/ \E w \in Workers : s \in Sees(w) /\ ~Asleep(w)
        \/ \E p \in Publishers : OwesWake(p, s)

(* A worker sleeps under its present policy, or is about to be woken.      *)
PolicyHeard ==
    \A w \in Workers : Asleep(w) =>
        took[w] = kind[w] \/ (At(Control, "signal") /\ aim[Control] = w)

(* No wake is lost: neither the wake for published work (wakeOneArmedIn,  *)
(* FarmHost.wake) nor the wake for a new policy (Selection) leaves asleep  *)
(* the worker it was meant for, however armings and wakes interleave.      *)
WakesReach == WorkSeen /\ PolicyHeard

(* When the pool is stopped, by shutdown or by any worker that failed, a   *)
(* worker that sleeps, or is past its last look at the run flag and still  *)
(* armed, is one that a requestStop under way has yet to wake.             *)
StopHeard ==
    slots /\ ~run => \A w \in Workers :
        pc[w] \in {"recheck", "idle", "park", "futex", "asleep"} /\ word[w] =>
            \E t \in Workers \cup {Control} : At(t, "waking") /\ w \in left[t]

-----------------------------------------------------------------------------
(* Lifecycle.                                                              *)

Gone(w) == pc[w] \in {"none", "ended"}

(* Nobody is inside the pool when its slots are destroyed: no worker, no   *)
(* wake of the host that found it open, no submitter.                      *)
OutlivesUsers ==
    ~slots => /\ \A w \in Workers : Gone(w)
              /\ \A p \in Publishers : ~Submitting(p) /\ (At(p, "waking") => left[p] = {})

(* Every start hook that returned has had its stop hook when poolStopped   *)
(* runs, after failures and failed starts too.                             *)
HooksPaired ==
    At(Control, "clear") \/ ~slots => \A w \in Workers : hooks[w] # "started"

(* No hook or body runs in a pool that could not pin all its workers.      *)
PinnedTogether ==
    \A w \in Workers : hooks[w] # "none" => \A v \in Workers : pin[v] = "pinned"

(* A pool is taken apart (clearWorkerState) only when nobody is inside it, *)
(* whichever wakes overlap and whichever workers fail; its hooks come in   *)
(* pairs, and run only in a pool all of whose workers are pinned.          *)
LifecycleSound == OutlivesUsers /\ HooksPaired /\ PinnedTogether
=============================================================================
