------------------------------- MODULE AntFarm -------------------------------
(***************************************************************************)
(* One Farm: producers and consumers over the shared ring, and what the    *)
(* ring promises them.                                                     *)
(***************************************************************************)
EXTENDS FarmProducer, FarmConsumer

vars == <<farmVars, producerVars, consumerVars>>

Init == FarmInit /\ ProducerInit /\ ConsumerInit

Next ==
    \/ \E p \in Producers : ProducerNext(p) /\ UNCHANGED consumerVars
    \/ \E c \in Consumers : ConsumerNext(c) /\ UNCHANGED producerVars

Spec == Init /\ [][Next]_vars

-----------------------------------------------------------------------------
(* Fairness: a write that began is carried on, a subscription that began   *)
(* is carried on, and a subscribed view keeps being pumped.  Nobody has to *)
(* begin a write, to subscribe or to leave.                                *)

WriteNext(p) == ppc[p] # "idle" /\ ProducerNext(p) /\ UNCHANGED consumerVars
PumpNext(c) ==
    /\ cpc[c] # "off"
    /\ SubscriberNext(c) \/ ViewNext(c)
    /\ UNCHANGED producerVars

FairSpec ==
    /\ Spec
    /\ \A p \in Producers : WF_vars(WriteNext(p))
    /\ \A c \in Consumers : WF_vars(PumpNext(c))

-----------------------------------------------------------------------------
(* Who holds what.                                                         *)

Attached(c) == cpc[c] \notin (SubscribePhases \ {"subRoot", "unpinAll"}) \cup {"off"}

(* It has not begun to drop the references it leaves with.                 *)
Reading(c) == Attached(c) /\ ret[c] # "leaving"

(* View c has its reference on epoch e.                                    *)
Holds(c, e) ==
    /\ Attached(c)
    /\ \/ e \in oldestEi[c] .. newestEi[c] /\ ~(cpc[c] = "decRoot" /\ e = oldestEi[c])
       \/ cpc[c] \in {"moveLeaf", "moveRoot"} /\ e \in newestEi[c] + 1 .. at[c] - 1
       \/ cpc[c] = "moveRoot" /\ e = at[c]

Epochs == 0 .. Epoch(MaxSeq) + K

(* A writer has reserved and not yet published.                            *)
Writing(p) == ppc[p] \in {"check", "stats", "raise", "es", "table", "sentinel"}

(* The ring units at which a whole table lies, and the tables that still   *)
(* have work.                                                              *)
Tables == {i \in Indices : /\ Tsent[i] # NoSeq
                           /\ \A p \in Producers :
                                ~(ppc[p] = "sentinel" /\ Idx(wret[p]) = i)}
Incomplete == {Tsent[i] : i \in {j \in Tables : ~Tprogress[j]}}

(* The tail, with every quota unit spent that tickets still have.          *)
SpentTail == Wt + Total(quotaLeft)

TypeOK == FarmTypeOK /\ ProducerTypeOK /\ ConsumerTypeOK

-----------------------------------------------------------------------------
(* Safety.                                                                 *)

(* The producer's fatals never fire: a segment that a write crosses into   *)
(* has neither roots nor Live when it is checked, nor when its own Live is *)
(* raised (checkFreshWriteSegments and the raise in writeImpl).            *)
WriteTripwires ==
    \A p \in Producers :
        ppc[p] \in {"check", "raise"} => Unprotected(Slot(fresh[p]))

(* The view's fatals never fire: moveRef finds every epoch it pins in its  *)
(* slot and never holds more than K of them, rewalk finds every table of a *)
(* held segment, and no tally is decremented below zero.                   *)
ViewTripwires ==
    \A c \in Consumers :
        /\ cpc[c] = "moveLeaf" => MoveChecks(c)
        /\ cpc[c] = "walk" /\ tseq[c] < WalkEnd(c) => Published(tseq[c])
        /\ cpc[c] = "decLeaf" => Lt[Slot(oldestEi[c])][ltiRing[c][Slot(oldestEi[c])]] > 0
        /\ cpc[c] = "decRoot" => Count[Slot(oldestEi[c])] > 0

(* No held segment is overwritten: the epoch stays in its slot, and even   *)
(* if every ticket spent all its quota at once the tail would not reach    *)
(* its next lap (SPEC.md section 3).                                       *)
HeldNeverLapped ==
    \A c \in Consumers : \A e \in Epochs :
        Holds(c, e) => Es[Slot(e)] = e /\ Epoch(SpentTail) < e + K

(* Abandoned work stays protected: the epoch of a published table that has *)
(* work left, or whose writer has not finished, is Live as soon as it is   *)
(* initialised, and the tail cannot reach its next lap, whether or not any *)
(* consumer is subscribed.                                                 *)
WorkNeverLapped ==
    \A s \in Incomplete \cup {wret[p] : p \in {q \in Producers : Writing(q)}} :
        LET e == Epoch(s) IN
        /\ Es[Slot(e)] = e => Live[Slot(e)]
        /\ Epoch(SpentTail) < e + K

(* Work is never behind a consumer: every table with work left starts in   *)
(* an epoch that each subscribed view holds or has still to reach.         *)
NoWorkBehind ==
    \A c \in Consumers : \A s \in Incomplete :
        Reading(c) => Epoch(s) >= oldestEi[c]

(* The tallies count what they say: each leaf the views that hold a        *)
(* segment through it, each root the leaves that are not zero, but for     *)
(* the edges on their way from a leaf to the root, and each Sub count the  *)
(* attempts that hold one.                                                 *)
RaisingRoot(c, k) ==
    cpc[c] \in {"subRoot", "moveRoot"} /\ Slot(at[c]) = k
LoweringRoot(c, k) == cpc[c] = "decRoot" /\ Slot(oldestEi[c]) = k

TalliesAgree ==
    \A k \in Slots :
        /\ \A l \in Leaves :
             Lt[k][l] = Cardinality({c \in Consumers :
                ltiRing[c][k] = l /\ \E e \in Epochs : Slot(e) = k /\ Holds(c, e)})
        /\ Count[k] + Cardinality({c \in Consumers : RaisingRoot(c, k)})
             = Cardinality({l \in Leaves : Lt[k][l] > 0})
               + Cardinality({c \in Consumers : LoweringRoot(c, k)})
        /\ Sub[k] = Cardinality({c \in Consumers : k \in subs[c]})

(* No more views than the limit are past admission and not leaving,        *)
(* although the count is raised before it is compared and lowered before   *)
(* the references are dropped (add_consumer, unsubscribe).                 *)
AdmissionBounded ==
    Cardinality({c \in Consumers :
        cpc[c] \notin {"off", "full"} /\ ret[c] # "leaving"}) <= MaxConsumers

(* A discharge is final: the Live of an epoch is cleared only when the     *)
(* tail is past it, no writer that started in it is still writing, and     *)
(* every table in it is complete (confirmed, clearLive).                   *)
DischargeIsFinal ==
    [][\A k \in Slots : Live[k] /\ ~Live'[k] =>
          /\ Epoch(Wt) > Es[k]
          /\ \A p \in Producers : Writing(p) => Epoch(wret[p]) # Es[k]
          /\ \A s \in Incomplete : Epoch(s) # Es[k]]_vars

(* Table words are overwritten only when the table is complete and no view *)
(* is claiming in it, walking over it or about to read it.                 *)
OverwriteOnlyDone ==
    [][\A i \in Tables : Tsent'[i] # Tsent[i] \/ Tnext'[i] # Tnext[i] =>
          /\ Tprogress[i]
          /\ \A c \in Consumers :
                /\ cpc[c] \in ClaimPhases \cup {"walk"} => tseq[c] # Tsent[i]
                /\ Reading(c) => nextSeq[c] # Tsent[i]]_vars

-----------------------------------------------------------------------------
(* Refinement.                                                             *)

(* The tables of the ring as the jobs of a log: a writer that has reserved *)
(* has a reserved job, a table with runs to finish is a published one.     *)
reservedJobs ==
    {[start |-> wret[p], state |-> "reserved", handedOut |-> 0, finished |-> 0] :
        p \in {q \in Producers : Writing(q)}}
publishedJobs ==
    {[start |-> Tsent[i], state |-> "published",
      handedOut |-> Tclaims[i], finished |-> Tcomps[i]] :
        i \in {j \in Tables : Tcomps[j] < Runs}}

Log == INSTANCE JobLog WITH
    Space <- Lap, RunsOfTable <- Runs,
    tail <- Wt, jobs <- reservedJobs \cup publishedJobs

(* The Farm keeps what JobLog promises: tables in tail order, every run    *)
(* handed out and finished exactly once, nothing overwritten before that.  *)
ImplementsLog == Log!LogSpec

-----------------------------------------------------------------------------
(* Liveness.                                                               *)

StaysAttached == \E c \in Consumers : <>[]Attached(c)

(* While some view stays subscribed, every published table is completed,   *)
(* whoever else comes, leaves or abandons work.                            *)
WorkCompletes ==
    StaysAttached =>
        \A i \in Indices : (i \in Tables /\ ~Tprogress[i]) ~> Tprogress[i]

(* Backpressure ends: when no more is written and nobody is subscribing,   *)
(* a view that stays subscribed makes every segment but the tail's free,   *)
(* which is what the next sweep waits for.                                 *)
Calm == /\ \A p \in Producers : ppc[p] = "idle"
        /\ \A c \in Consumers : Attached(c) \/ cpc[c] = "off"
SpaceReturns ==
    StaysAttached /\ <>[]Calm =>
        <>[](\A k \in Slots \ {Slot(Epoch(Wt))} : Free(k))
=============================================================================
