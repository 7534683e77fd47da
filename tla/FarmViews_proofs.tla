-------------------------- MODULE FarmViews_proofs --------------------------
(***************************************************************************)
(* The quota argument, second half: every step of a view preserves the     *)
(* invariant of AntFarm_proofs, so the invariant always holds; what it     *)
(* says of the Farm's properties; and the Farm as an implementation of     *)
(* JobLog.                                                                 *)
(***************************************************************************)
EXTENDS AntFarm_proofs, WellFoundedInduction

-----------------------------------------------------------------------------
(* The views' steps, field by field.                                       *)

(* The consumer's steps.                                                   *)
LEMMA ConsumerFunctions ==
    ASSUME TypeInv
    PROVE  /\ cpc \in [Consumers -> CPhases] /\ ret \in [Consumers -> Returns]
           /\ job \in [Consumers -> Jobs] /\ IDc \in [Consumers -> 0 .. IdMod - 1]
           /\ nextSeq \in [Consumers -> Nat] /\ oldestEi \in [Consumers -> Nat]
           /\ newestEi \in [Consumers -> Nat] /\ ltiRing \in [Consumers -> [Slots -> Leaves]]
           /\ sweepSeq \in [Consumers -> Nat] /\ oldSweepSeq \in [Consumers -> Nat]
           /\ subs \in [Consumers -> SUBSET Slots] /\ probe \in [Consumers -> Nat]
           /\ at \in [Consumers -> Nat] /\ seqtRead \in [Consumers -> Nat]
           /\ sqRead \in [Consumers -> 0 .. MaxLeaves] /\ tseq \in [Consumers -> Nat]
  BY DEF TypeInv, TypeOK, ConsumerTypeOK, ControlTypeOK, ViewTypeOK, AttemptTypeOK, ClaimTypeOK

(* A view's step moves the fields of no other view, ...                    *)
ViewStill(d) ==
    /\ cpc'[d] = cpc[d] /\ ret'[d] = ret[d] /\ job'[d] = job[d] /\ tseq'[d] = tseq[d]
    /\ at'[d] = at[d] /\ probe'[d] = probe[d] /\ subs'[d] = subs[d]
    /\ seqtRead'[d] = seqtRead[d] /\ sqRead'[d] = sqRead[d]
    /\ nextSeq'[d] = nextSeq[d] /\ oldestEi'[d] = oldestEi[d] /\ newestEi'[d] = newestEi[d]
    /\ ltiRing'[d] = ltiRing[d]
    /\ sweepSeq'[d] = sweepSeq[d] /\ oldSweepSeq'[d] = oldSweepSeq[d]

LEMMA SubscriberStill ==
    ASSUME TypeInv, NEW c \in Consumers, SubscriberNext(c), NEW d \in Consumers, d # c
    PROVE  ViewStill(d)
<1> USE ConsumerFunctions
<1>1. CASE CountConsumer(c) \/ RefuseConsumer(c) \/ ProbeTail(c) \/ PinTail(c) \/ PinCandidate(c)
  BY <1>1 DEF CountConsumer, RefuseConsumer, ProbeTail, PinTail, PinCandidate, Pin, Goto, Set,
              ViewStill, viewVars, attemptVars, claimVars
<1>2. CASE ScanOn(c) /\ UNCHANGED <<ret, viewVars, subs, claimVars>>
  BY <1>2 DEF ScanOn, NextRound, Goto, Set, ViewStill, viewVars, claimVars
<1>3. CASE NextRound(c) /\ UNCHANGED <<ret, viewVars, subs, claimVars>>
  BY <1>3 DEF NextRound, Goto, Set, ViewStill, viewVars, claimVars
<1>4. CASE Hint(c) \/ CandidateEs(c) \/ CandidateRt(c) \/ ValidateEs(c) \/ ValidateSeqt(c)
           \/ ValidateWt(c) \/ ValidateNext(c)
  <2>1. CASE UNCHANGED <<ret, viewVars, subs, claimVars, scanVars>> /\ \E f : Goto(c, f)
    BY <2>1 DEF Goto, ViewStill, viewVars, claimVars, scanVars
  <2>2. CASE ValidateSeqt(c)
    BY <1>3, <2>1, <2>2 DEF ValidateSeqt, Invalid, Goto, Set, ViewStill, viewVars, claimVars, scanVars
  <2>3. CASE Hint(c) \/ CandidateEs(c) \/ CandidateRt(c)
    BY <1>2, <2>1, <2>3 DEF Hint, CandidateEs, CandidateRt, DropCandidate
  <2>4. CASE ValidateEs(c) \/ ValidateWt(c) \/ ValidateNext(c)
    BY <1>3, <2>1, <2>4 DEF ValidateEs, ValidateWt, ValidateNext, Invalid
  <2>5. QED
    BY <1>4, <2>2, <2>3, <2>4
<1>5. CASE UnpinCandidate(c)
  BY <1>5 DEF UnpinCandidate, Unpin, ScanOn, NextRound, Goto, Set, ViewStill, viewVars, claimVars
<1>6. CASE Attach(c) \/ AttachRoot(c)
  BY <1>6 DEF Attach, AttachRoot, IncLeaf, Goto, Set, ViewStill, viewVars, attemptVars, claimVars
<1>7. CASE UnpinAll(c) \/ Subscribed(c) \/ RetrySubscribe(c)
  BY <1>7 DEF UnpinAll, Unpin, Subscribed, RetrySubscribe, ForgetAttempt, Goto, Set, ViewStill,
              viewVars, claimVars
<1>8. QED
  BY <1>1, <1>4, <1>5, <1>6, <1>7 DEF SubscriberNext

LEMMA OthersAlone ==
    ASSUME TypeInv, NEW c \in Consumers, ConsumerNext(c), NEW d \in Consumers, d # c
    PROVE  ViewStill(d)
<1> USE ConsumerFunctions
<1>1. CASE Poll(c) \/ Migrate(c) \/ Release(c) \/ Unsubscribe(c) \/ Leave(c) \/ LeaveEpoch(c)
  BY <1>1 DEF Poll, Migrate, Release, Unsubscribe, Leave, LeaveEpoch, Resume, Goto, Set, ViewStill,
              viewVars, attemptVars, claimVars
<1>2. CASE MoveLeaf(c)
  BY <1>2 DEF MoveLeaf, Moved, Goto, Set, ViewStill, pinVars, attemptVars, claimVars
<1>3. CASE MoveRoot(c)
  BY <1>3 DEF MoveRoot, Moved, Goto, Set, ViewStill, pinVars, attemptVars, claimVars
<1>4. CASE ClearLive(c) \/ DecLeaf(c) \/ DecRoot(c) \/ Left(c)
  BY <1>4 DEF ClearLive, DecLeaf, DecRoot, Dropped, Left, Goto, Set, ViewStill,
              pinVars, viewVars, attemptVars, claimVars
<1>5. CASE SweepOldest(c) \/ SweepPosition(c) \/ EndWalk(c)
  BY <1>5 DEF SweepOldest, SweepPosition, EndWalk, StartWalk, ForgetClaim, Resume, Goto, Set, ViewStill,
              viewVars, attemptVars, claimVars
<1>6. CASE Walk(c)
  BY <1>6 DEF Walk, WalkPast, Process, Goto, Set, ViewStill, viewVars, attemptVars, claimVars
<1>7. ASSUME PassTable(c), UNCHANGED <<at, oldestEi, newestEi, ltiRing, sweepSeq, oldSweepSeq, attemptVars>>
      PROVE  ViewStill(d)
  BY <1>7 DEF PassTable, ForgetClaim, Resume, Goto, Set, ViewStill, attemptVars
<1>8. CASE Visit(c)
  <2>1. CASE PassTable(c)
    BY <1>7, <1>8, <2>1 DEF Visit
  <2>2. CASE ~PassTable(c)
    BY <1>8, <2>2 DEF Visit, Process, Goto, Set, ViewStill, attemptVars
  <2>3. QED
    BY <2>1, <2>2
<1>9. ASSUME NEW b, Processed(c, b), UNCHANGED stillVars PROVE ViewStill(d)
  <2>1. CASE job[c] \in {"visit", "carried"}
    BY <1>7, <1>9, <2>1 DEF Processed, stillVars
  <2>2. CASE ~(job[c] \in {"visit", "carried"})
    BY <1>9, <2>2 DEF Processed, WalkPast, Goto, Set, ViewStill, stillVars, attemptVars
  <2>3. QED
    BY <2>1, <2>2
<1>10. ASSUME NEW f, Claiming(c, f), UNCHANGED stillVars PROVE ViewStill(d)
  BY <1>10 DEF Claiming, Goto, ViewStill, stillVars, attemptVars, claimVars
<1>11. CASE Claim(c)
  <2>1. CASE Processed(c, FALSE)
    BY <1>9, <1>11, <2>1 DEF Claim
  <2>2. CASE ~Processed(c, FALSE)
    BY <1>11, <2>2 DEF Claim, Goto, ViewStill, stillVars, attemptVars
  <2>3. QED
    BY <2>1, <2>2
<1>12. CASE Complete(c)
  BY <1>10, <1>12 DEF Complete
<1>13. CASE Progress(c)
  BY <1>10, <1>13 DEF Progress
<1>14. CASE Account(c)
  BY <1>9, <1>14 DEF Account
<1>15. CASE Yield(c)
  BY <1>9, <1>10, <1>15 DEF Yield
<1>16. QED
  BY <1>1, <1>2, <1>3, <1>4, <1>5, <1>6, <1>8, <1>11, <1>12, <1>13, <1>14, <1>15, SubscriberStill
  DEF ConsumerNext, ViewNext

(* ... none of the words that a producer writes, ...                       *)
LEMMA ConsumerFrame ==
    ASSUME TypeInv, NEW c \in Consumers, ConsumerNext(c)
    PROVE  /\ UNCHANGED <<Wt, Es, Seqt, SqCs, Tsent, Tnext, Tsq>>
           /\ ~ClearLive(c) => Live' = Live
           /\ ~Account(c) => Sd' = Sd
           /\ ~Claim(c) => Tclaims' = Tclaims
           /\ ~Complete(c) => Tcomps' = Tcomps
           /\ ~Progress(c) => Tprogress' = Tprogress
<1>1. CASE SubscriberNext(c)
  BY <1>1 DEF SubscriberNext, CountConsumer, RefuseConsumer, ProbeTail, PinTail, Hint,
      PinCandidate, CandidateEs, CandidateRt, UnpinCandidate, ValidateEs, ValidateSeqt,
      ValidateWt, ValidateNext, Attach, AttachRoot, UnpinAll, Subscribed,
      RetrySubscribe, farmVars, tailVars, rootVars, statVars, ringVars
<1>2. CASE ViewNext(c) \/ Unsubscribe(c)
  <2>1. CASE Poll(c) \/ MoveLeaf(c) \/ MoveRoot(c) \/ Visit(c) \/ Migrate(c)
             \/ Release(c) \/ ClearLive(c) \/ DecLeaf(c) \/ DecRoot(c) \/ Leave(c)
             \/ LeaveEpoch(c) \/ Left(c) \/ SweepOldest(c) \/ SweepPosition(c)
             \/ Walk(c) \/ EndWalk(c) \/ Yield(c) \/ Unsubscribe(c)
    BY <2>1 DEF Poll, MoveLeaf, MoveRoot, Visit, Migrate, Release, ClearLive, DecLeaf, DecRoot,
        Leave, LeaveEpoch, Left, SweepOldest, SweepPosition, Walk, EndWalk, Yield, Unsubscribe,
        farmVars, tailVars, rootVars, statVars, ringVars
  <2>2. CASE Claim(c) \/ Complete(c) \/ Progress(c) \/ Account(c)
    BY <2>2 DEF Claim, Complete, Progress, Account, tailVars, rootVars, statVars, ringVars
  <2>3. QED
    BY <1>2, <2>1, <2>2 DEF ViewNext
<1>3. QED
  BY <1>1, <1>2 DEF ConsumerNext

(* ... clears one Live, ...                                                *)
LEMMA ClearLiveStep ==
    ASSUME TypeInv, NEW c \in Consumers, ClearLive(c)
    PROVE  /\ cpc[c] = "clear" /\ cpc'[c] = "decLeaf"
           /\ UNCHANGED <<Count, Lt, ret, at, viewVars, attemptVars, claimVars>>
           /\ Slot(oldestEi[c]) \in Slots /\ ~Live'[Slot(oldestEi[c])]
           /\ \A k \in Slots \ {Slot(oldestEi[c])} : Live'[k] = Live[k]
<1>1. Slot(oldestEi[c]) \in Slots
  BY ViewTypes
<1>2. Live \in [Slots -> BOOLEAN]
  BY DEF TypeInv, TypeOK, FarmTypeOK, RootTypeOK
<1>3. Live' = [Live EXCEPT ![Slot(oldestEi[c])] = FALSE]
  BY DEF ClearLive
<1>4. ~Live'[Slot(oldestEi[c])] /\ \A k \in Slots \ {Slot(oldestEi[c])} : Live'[k] = Live[k]
  BY <1>1, <1>2, <1>3
<1>5. QED
  BY <1>1, <1>4, ConsumerFunctions DEF ClearLive, Goto

(* ... and moves the counts of the table it is at.                         *)
LEMMA RunTypes ==
    ASSUME TypeInv
    PROVE  \A i \in Indices : Tclaims[i] \in Nat /\ Tcomps[i] \in Nat /\ Tprogress[i] \in BOOLEAN
  BY DEF TypeInv, TypeOK, FarmTypeOK, RingTypeOK

LEMMA RunSteps ==
    ASSUME TypeInv, NEW c \in Consumers, ConsumerNext(c)
    PROVE  /\ \A i \in Indices \ {Idx(tseq[c])} : ProgressKept(i)
           /\ \A i \in Indices : Tprogress[i] => Tprogress'[i]
           /\ (\E i \in Indices : ~ProgressKept(i)) => cpc[c] \in {"claim", "complete", "progress"}
<1> DEFINE i == Idx(tseq[c])
<1>1. i \in Indices
  BY ViewTypes
<1>2. Tclaims \in [Indices -> Nat] /\ Tcomps \in [Indices -> Nat] /\ Tprogress \in [Indices -> BOOLEAN]
  BY DEF TypeInv, TypeOK, FarmTypeOK, RingTypeOK
<1>3. \/ Tclaims' = Tclaims
      \/ /\ Tclaims' = [Tclaims EXCEPT ![i] = Tclaims[i] + 1]
         /\ cpc[c] = "claim"
  BY ConsumerFrame DEF Claim
<1>4. Tcomps' = Tcomps \/ (Tcomps' = [Tcomps EXCEPT ![i] = @ + 1] /\ cpc[c] = "complete")
  BY ConsumerFrame DEF Complete
<1>5. Tprogress' = Tprogress \/ (Tprogress' = [Tprogress EXCEPT ![i] = TRUE] /\ cpc[c] = "progress")
  BY ConsumerFrame DEF Progress
<1> HIDE DEF i
<1>6. \A j \in Indices \ {i} : ProgressKept(j)
  BY <1>1, <1>2, <1>3, <1>4, <1>5 DEF ProgressKept
<1>7. \A j \in Indices : Tprogress[j] => Tprogress'[j]
  BY <1>1, <1>2, <1>5
<1>8. (\E j \in Indices : ~ProgressKept(j)) => cpc[c] \in {"claim", "complete", "progress"}
  BY <1>3, <1>4, <1>5 DEF ProgressKept
<1>9. QED
  BY <1>6, <1>7, <1>8 DEF i

(* Sd grows by the size of the table that is accounted for.                *)
LEMMA AccountStep ==
    ASSUME TypeInv, NEW c \in Consumers, Account(c)
    PROVE  LET k == Slot(Epoch(tseq[c])) IN
           /\ cpc[c] = "account" /\ k \in Slots
           /\ Sd'[k] = Sd[k] + Tnext[Idx(tseq[c])] - tseq[c]
           /\ \A j \in Slots \ {k} : Sd'[j] = Sd[j]
<1>1. Slot(Epoch(tseq[c])) \in Slots
  BY ViewTypes, StatTypes
<1>2. Sd \in [Slots -> Int]
  BY DEF TypeInv, TypeOK, FarmTypeOK, StatTypeOK
<1>3. Sd' = [Sd EXCEPT ![Slot(Epoch(tseq[c]))] = @ + Tnext[Idx(tseq[c])] - tseq[c]] /\ cpc[c] = "account"
  BY DEF Account
<1>4. QED
  BY <1>1, <1>2, <1>3

LEMMA ConsumerLayout ==
    ASSUME TypeInv, NEW c \in Consumers, ConsumerNext(c), UNCHANGED producerVars
    PROVE  /\ SameLayout /\ SameQuota /\ Tables' = Tables
           /\ UNCHANGED <<ppc, quotaLeft, size, sq, anchor, swept, wret, fresh>>
           /\ \A q : Writing(q)' = Writing(q) /\ wtprime(q)' = wtprime(q)
           /\ \A s : At(s)' = At(s) /\ Boundary(s)' = Boundary(s)
           /\ \A e : Initialised(e)' = Initialised(e) /\ InWindow(e)' = InWindow(e)
           /\ \A p, e : Pending(p, e)' = Pending(p, e)
<1>1. UNCHANGED <<Wt, Es, Seqt, SqCs, Tsent, Tnext, Tsq>>
  BY ConsumerFrame
<1>2. UNCHANGED <<ppc, quotaLeft, size, sq, anchor, swept, wret, fresh>>
  BY DEF producerVars
<1>3. \A q : Writing(q)' = Writing(q) /\ wtprime(q)' = wtprime(q)
  BY <1>2 DEF Writing, wtprime
<1>4. SameLayout /\ SameQuota
  BY <1>1, <1>2, <1>3 DEF SameLayout, SameQuota
<1>5. Tables' = Tables
  BY <1>4, SameTables
<1>6. \A s : At(s)' = At(s)
  BY <1>1, <1>5 DEF At
<1>7. \A s : Boundary(s)' = Boundary(s)
  BY <1>1, <1>2, <1>3, <1>6 DEF Boundary
<1>8. \A e : Initialised(e)' = Initialised(e) /\ InWindow(e)' = InWindow(e)
  BY <1>1 DEF Initialised, InWindow
<1>9. \A p, e : Pending(p, e)' = Pending(p, e)
  BY <1>2, <1>3 DEF Pending, Crosses
<1>10. QED
  BY <1>1, <1>2, <1>3, <1>4, <1>5, <1>6, <1>7, <1>8, <1>9

-----------------------------------------------------------------------------
(* What a view holds.                                                      *)

(* What a view holds is initialised and in the window.                     *)
LEMMA HeldKept ==
    ASSUME TypeInv, Layout, QuotaSound, KeptSound, NEW c \in Consumers, NEW e \in Nat, Held(c, e)
    PROVE  Protected(e) /\ Kept(e) /\ Initialised(e) /\ InWindow(e) /\ e <= Epoch(Wt) /\ Safe(e)
<1>1. Kept(e) /\ Protected(e)
  BY DEF Kept, Protected
<1>2. QED
  BY <1>1, Windows DEF KeptSound, QuotaSound

LEMMA RangeHeld ==
    ASSUME NEW c \in Consumers, Attached(c), NEW e \in Nat,
           oldestEi[c] <= e, e <= newestEi[c]
    PROVE  Held(c, e)
<1>1. CASE cpc[c] = "decRoot" /\ e = oldestEi[c]
  BY <1>1 DEF Held
<1>2. CASE ~(cpc[c] = "decRoot" /\ e = oldestEi[c])
  <2>1. oldestEi[c] <= e /\ e <= newestEi[c]
    OBVIOUS
  <2>2. e \in oldestEi[c] .. newestEi[c]
    BY <2>1
  <2>3. QED
    BY <1>2, <2>2 DEF Held, Holds
<1>3. QED
  BY <1>1, <1>2

(* The table a view is at.                                                 *)
LEMMA ClaimedHeld ==
    ASSUME TypeInv, Layout, QuotaSound, KeptSound, RangesSound, WalksSound,
           NEW c \in Consumers, cpc[c] \in ClaimPhases
    PROVE  /\ At(tseq[c]) /\ tseq[c] \in Nat /\ Epoch(tseq[c]) \in Nat
           /\ Held(c, Epoch(tseq[c])) /\ Protected(Epoch(tseq[c]))
           /\ Initialised(Epoch(tseq[c])) /\ InWindow(Epoch(tseq[c]))
<1>1. Reading(c) /\ Attached(c)
  BY ClaimingReads DEF Reading
<1>2. /\ At(tseq[c]) /\ oldestEi[c] <= Epoch(tseq[c]) /\ Epoch(tseq[c]) <= newestEi[c]
  BY DEF WalksSound, WalkSound
<1>3. tseq[c] \in Nat /\ Epoch(tseq[c]) \in Nat
  BY ViewTypes
<1>4. Held(c, Epoch(tseq[c]))
  BY <1>1, <1>2, <1>3, RangeHeld
<1>5. QED
  BY <1>2, <1>3, <1>4, HeldKept

(* Slots of two epochs of the window.                                      *)
LEMMA WindowSlots ==
    ASSUME TypeInv, NEW e \in Nat, NEW f \in Nat, InWindow(e), InWindow(f), Slot(e) = Slot(f)
    PROVE  e = f
<1>1. Epoch(Wt) \in Nat /\ K \in Nat
  BY LayoutTypes, EpochType, StatTypes
<1>2. e < f + K /\ f < e + K
  BY <1>1 DEF InWindow
<1>3. QED
  BY <1>2, SlotsApart

(* A confirmed epoch has no work left: all that begins in it is accounted. *)
LEMMA AccountedWithin ==
    ASSUME TypeInv, Layout, SlotsSound, EpochsSplit, NEW e \in Nat, InWindow(e), Initialised(e),
           Initialised(e + 1),
           NEW s \in Nat, NEW t \in Nat, Epoch(s) = e, s < t,
           \/ \E p \in Producers : Writing(p) /\ wret[p] = s /\ wtprime(p) = t
           \/ \E i \in Tables : Tsent[i] = s /\ Tnext[i] = t
    PROVE  Seqt[Slot(e)] <= s /\ t <= Seqt[Slot(e + 1)]
<1>1. /\ K \in Nat /\ Epoch(Wt) \in Nat /\ e + 1 \in Nat
      /\ Slot(e) \in Slots /\ Slot(e + 1) \in Slots
      /\ Seqt[Slot(e)] \in Nat /\ Seqt[Slot(e + 1)] \in Nat
  BY StatTypes, LayoutTypes
<1>2. e + 1 <= Epoch(Wt) /\ e + 1 <= Epoch(Seqt[Slot(e + 1)])
  BY <1>1, BegunBefore
<1>3. InWindow(e + 1)
  BY <1>1, <1>2 DEF InWindow
<1>4. EpochSplit(e) /\ EpochSplit(e + 1)
  BY <1>1, <1>3 DEF EpochsSplit
<1>5. Split(e, s, t) /\ Split(e + 1, s, t)
  BY <1>4 DEF EpochSplit
<1>6. s >= Seqt[Slot(e)]
  BY <1>5 DEF Split
<1>7. Epoch(t) < e + 1 \/ t = Seqt[Slot(e + 1)]
  BY <1>5 DEF Split
<1>8. t <= Seqt[Slot(e + 1)]
  <2>1. SUFFICES ASSUME Seqt[Slot(e + 1)] < t, Epoch(t) < e + 1 PROVE FALSE
    BY <1>1, <1>7
  <2>2. Epoch(Seqt[Slot(e + 1)]) <= Epoch(t)
    BY <1>1, <2>1, EpochMonotone
  <2>3. QED
    BY <1>1, <1>2, <2>1, <2>2, EpochType
<1>9. QED
  BY <1>1, <1>6, <1>8

LEMMA TableRanges ==
    ASSUME TypeInv, Layout, NEW i \in Tables
    PROVE  /\ i \in Indices /\ Tsent[i] \in Nat /\ Tnext[i] \in Nat /\ Idx(Tsent[i]) = i
           /\ Tsent[i] < Tnext[i] /\ Tnext[i] <= Wt /\ Tsent[i] < Wt /\ Tsq[i] # 0
           /\ Tnext[i] <= MaxSeq /\ At(Tsent[i]) /\ Epoch(Tsent[i]) \in Nat /\ Epoch(Tnext[i]) \in Nat
<1>1. i \in Indices /\ Tsent[i] # NoSeq
  BY DEF Tables
<1>2. Tsent[i] \in Nat /\ Idx(Tsent[i]) = i /\ Tsent[i] < Wt
  BY <1>1 DEF Layout, SentinelsSound, SentinelSound
<1>3. Tsent[i] < Tnext[i] /\ Tnext[i] <= Wt /\ Tsq[i] # 0 /\ Tnext[i] \in Nat
  BY <1>1, LayoutTypes DEF Layout, TablesSound, TableSound
<1>4. Wt <= MaxSeq /\ MaxSeq \in Nat /\ Wt \in Nat
  BY LayoutTypes, GeometryAssumption DEF Layout, TailBounded
<1>5. QED
  BY <1>1, <1>2, <1>3, <1>4, EpochType DEF At

LEMMA ConfirmedDone ==
    ASSUME TypeInv, Layout, SlotsSound, EpochsSplit, SdSound,
           NEW e \in Nat, InWindow(e), Confirmed(e)
    PROVE  ~Worked(e)
<1> DEFINE a == Seqt[Slot(e)]
           b == Seqt[Slot(e + 1)]
<1>1. Initialised(e) /\ Initialised(e + 1) /\ a + Sd[Slot(e)] >= b
  BY DEF Confirmed, Initialised
<1>2. /\ Slot(e) \in Slots /\ e + 1 \in Nat /\ Slot(e + 1) \in Slots /\ Epoch(Wt) \in Nat
      /\ Wt \in Nat
  BY StatTypes, LayoutTypes
<1>3. a \in Nat /\ b \in Nat /\ b <= Wt /\ e + 1 <= Epoch(Wt)
  BY <1>1, <1>2, StatTypes, BegunBefore
<1>4. Sd[Slot(e)] = Cardinality(Accounted(e))
  BY <1>1 DEF SdSound
<1> HIDE DEF a, b
<1>5. Accounted(e) \subseteq a .. b - 1
  <2>1. SUFFICES ASSUME NEW u \in 0 .. MaxSeq, NEW i \in Tables,
                        Tsent[i] <= u, u < Tnext[i], Epoch(Tsent[i]) = e
                 PROVE  u \in a .. b - 1
    BY DEF Accounted
  <2>2. Tsent[i] \in Nat /\ Tnext[i] \in Nat /\ Tsent[i] < Tnext[i]
    BY TableRanges
  <2>3. a <= Tsent[i] /\ Tnext[i] <= b
    BY <1>1, <2>1, <2>2, AccountedWithin DEF a, b
  <2>4. u \in Int
    OBVIOUS
  <2>5. QED
    BY <1>3, <2>1, <2>2, <2>3, <2>4
<1>6. ASSUME NEW s \in Nat, NEW t \in Nat, Epoch(s) = e, s < t, s \notin Accounted(e),
             \/ \E p \in Producers : Writing(p) /\ wret[p] = s /\ wtprime(p) = t
             \/ \E i \in Tables : Tsent[i] = s /\ Tnext[i] = t
      PROVE  FALSE
  <2>1. a <= s /\ t <= b
    BY <1>1, <1>6, AccountedWithin DEF a, b
  <2>2. s \in a .. b - 1
    BY <1>3, <1>6, <2>1
  <2>3. Accounted(e) \subseteq (a .. b - 1) \ {s}
    BY <1>5, <1>6
  <2>4. IsFiniteSet(a .. b - 1) /\ Cardinality(a .. b - 1) = b - a
    <3>1. a <= b - 1
      BY <1>3, <1>6, <2>1
    <3>2. IsFiniteSet(a .. b - 1) /\ Cardinality(a .. b - 1) = IF a > b - 1 THEN 0 ELSE (b - 1) - a + 1
      <4>1. b - 1 \in Int /\ a \in Int
        BY <1>3
      <4>2. QED
        BY <4>1, FS_Interval
    <3>3. b - a \in Int /\ ~(a > b - 1) /\ (b - 1) - a + 1 = b - a
      BY <1>3, <3>1
    <3>4. Cardinality(a .. b - 1) = (b - 1) - a + 1
      BY <3>2, <3>3
    <3>5. QED
      BY <3>2, <3>3, <3>4
  <2>5. /\ IsFiniteSet((a .. b - 1) \ {s})
        /\ Cardinality((a .. b - 1) \ {s}) = Cardinality(a .. b - 1) - 1
    BY <2>2, <2>4, FS_RemoveElement
  <2>6. Cardinality(Accounted(e)) <= Cardinality((a .. b - 1) \ {s})
    BY <2>3, <2>5, FS_Subset
  <2>7. Cardinality(Accounted(e)) \in Nat
    <3>1. IsFiniteSet(Accounted(e))
      BY <2>3, <2>5, FS_Subset
    <3>2. QED
      BY <3>1, FS_CardinalityType
  <2>8. QED
    BY <1>1, <1>3, <1>4, <2>4, <2>5, <2>6, <2>7
<1>7. ASSUME NEW p \in Producers, Writing(p), Epoch(wret[p]) = e PROVE FALSE
  <2>1. wret[p] \in Nat /\ wtprime(p) \in Nat /\ wret[p] < wtprime(p) /\ wtprime(p) = wret[p] + size[p]
    BY <1>7, LayoutTypes DEF Layout, WriterRanges
  <2>2. wret[p] \notin Accounted(e)
    <3>1. SUFFICES ASSUME NEW i \in Tables, Tsent[i] <= wret[p], wret[p] < Tnext[i] PROVE FALSE
      BY DEF Accounted
    <3>2. Apart(Tsent[i], Tnext[i], wret[p], wtprime(p))
      BY <1>7 DEF Layout, TablesSound, TableSound
    <3>3. Tsent[i] \in Nat /\ Tnext[i] \in Nat
      BY TableRanges
    <3>4. QED
      BY <2>1, <3>1, <3>2, <3>3 DEF Apart
  <2>3. QED
    BY <1>6, <1>7, <2>1, <2>2
<1>8. ASSUME NEW i \in Tables, ~Tprogress[i], Epoch(Tsent[i]) = e PROVE FALSE
  <2>1. Tsent[i] \in Nat /\ Tnext[i] \in Nat /\ Tsent[i] < Tnext[i]
    BY TableRanges
  <2>2. Tsent[i] \notin Accounted(e)
    <3>1. SUFFICES ASSUME NEW j \in Tables, Tsent[j] <= Tsent[i], Tsent[i] < Tnext[j], Tprogress[j] PROVE FALSE
      BY DEF Accounted
    <3>2. j # i
      BY <1>8, <3>1
    <3>3. Apart(Tsent[i], Tnext[i], Tsent[j], Tnext[j])
      BY <3>2 DEF Layout, TablesSound, TableSound
    <3>4. Tsent[j] \in Nat /\ Tnext[j] \in Nat /\ Tsent[j] < Tnext[j]
      BY TableRanges
    <3>5. QED
      BY <2>1, <3>1, <3>3, <3>4 DEF Apart
  <2>3. QED
    BY <1>6, <1>8, <2>1, <2>2
<1>9. e # Epoch(Wt)
  BY <1>2, <1>3
<1>10. QED
  BY <1>7, <1>8, <1>9 DEF Worked

-----------------------------------------------------------------------------
(* Writers and epochs in a view's step.                                    *)

LEMMA ConsumerWriters ==
    ASSUME Inv, NEW c \in Consumers, ConsumerNext(c), UNCHANGED producerVars
    PROVE  Layout' /\ WritersSound'
<1>0. /\ TypeInv /\ Layout /\ WritersSound /\ WalksSound
  BY DEF Inv, Base
<1>1. /\ SameLayout /\ UNCHANGED <<ppc, quotaLeft, size, sq, anchor, swept, wret, fresh>>
      /\ \A q : wtprime(q)' = wtprime(q)
  BY <1>0, ConsumerLayout
<1>2. Wt' = Wt /\ Tnext' = Tnext /\ Tsq' = Tsq
  BY <1>0, ConsumerFrame
<1>3. Layout'
  BY <1>0, <1>1, SameLayoutKeeps
<1>4. ASSUME NEW p \in Producers, ppc[p] = "sentinel" PROVE Unpublished(p)'
  <2>1. Unpublished(p)
    BY <1>0, <1>4 DEF WritersSound
  <2>2. Idx(wret[p]) \in Indices /\ Idx(wret[p]) \notin Tables
    BY <1>0, <1>4, LayoutTypes DEF Tables
  <2>3. ProgressKept(Idx(wret[p]))
    <3>1. CASE cpc[c] \in ClaimPhases
      <4>1. Idx(tseq[c]) \in Tables
        BY <1>0, <3>1 DEF WalksSound, WalkSound, At
      <4>2. QED
        BY <1>0, <2>2, <4>1, RunSteps
    <3>2. CASE cpc[c] \notin ClaimPhases
      BY <1>0, <2>2, <3>2, RunSteps DEF ClaimPhases
    <3>3. QED
      BY <3>1, <3>2
  <2>4. QED
    BY <1>1, <1>2, <2>1, <2>3 DEF Unpublished, ProgressKept
<1>5. WritersSound'
  BY <1>0, <1>1, <1>2, <1>4 DEF WritersSound
<1>6. QED
  BY <1>3, <1>5

LEMMA ConsumerInits ==
    ASSUME Inv, NEW c \in Consumers, ConsumerNext(c), UNCHANGED producerVars
    PROVE  InitsSound'
<1>0. /\ TypeInv /\ Layout /\ WritersSound /\ QuotaSound /\ InitsSound /\ PendingStale
      /\ KeptSound /\ RangesSound /\ WalksSound
  BY DEF Inv, Base, EpochInv, ViewInv
<1>1. /\ UNCHANGED <<ppc, quotaLeft, size, sq, anchor, swept, wret, fresh>>
      /\ \A q : wtprime(q)' = wtprime(q)
  BY <1>0, ConsumerLayout
<1>2. Seqt' = Seqt /\ SqCs' = SqCs
  BY <1>0, ConsumerFrame
<1>3. ASSUME NEW p \in Producers, ppc[p] \in {"raise", "es"} PROVE Sd'[Slot(fresh[p])] = Sd[Slot(fresh[p])]
  <2>0. ppc[p] \in Crossing /\ Slot(fresh[p]) \in Slots
    BY <1>0, <1>3, FreshPending DEF Crossing
  <2>1. CASE Account(c)
    <3>1. cpc[c] \in ClaimPhases
      BY <2>1 DEF Account, ClaimPhases
    <3>2. Slot(fresh[p]) # Slot(Epoch(tseq[c]))
      BY <1>0, <2>0, <3>1, ClaimedHeld, FreshElsewhere
    <3>3. QED
      BY <1>0, <2>0, <2>1, <3>2, AccountStep
  <2>2. CASE ~Account(c)
    BY <1>0, <2>2, ConsumerFrame
  <2>3. QED
    BY <2>1, <2>2
<1>4. ASSUME NEW p \in Producers, ppc[p] = "es" PROVE Live'[Slot(fresh[p])] = Live[Slot(fresh[p])]
  <2>0. ppc[p] \in Crossing /\ Slot(fresh[p]) \in Slots
    BY <1>0, <1>4, FreshPending DEF Crossing
  <2>1. CASE ClearLive(c)
    <3>1. cpc[c] = "clear" /\ Attached(c) /\ cpc[c] # "leaving"
      BY <2>1 DEF ClearLive, Attached, SubscribePhases
    <3>2. oldestEi[c] \in Nat /\ newestEi[c] \in Nat /\ oldestEi[c] <= newestEi[c]
      BY <1>0, <3>1, ViewTypes DEF RangesSound, RangeSound
    <3>3. Held(c, oldestEi[c])
      BY <3>1, <3>2, RangeHeld
    <3>4. Slot(fresh[p]) # Slot(oldestEi[c])
      BY <1>0, <2>0, <3>2, <3>3, HeldKept, FreshElsewhere
    <3>5. QED
      BY <1>0, <2>0, <2>1, <3>4, ClearLiveStep
  <2>2. CASE ~ClearLive(c)
    BY <1>0, <2>2, ConsumerFrame
  <2>3. QED
    BY <2>1, <2>2
<1>5. QED
  BY <1>0, <1>1, <1>2, <1>3, <1>4 DEF InitsSound

LEMMA ConsumerSlots ==
    ASSUME TypeInv, SlotsSound, NEW c \in Consumers, ConsumerNext(c), UNCHANGED producerVars
    PROVE  SlotsSound'
<1>1. Wt' = Wt /\ Es' = Es /\ Seqt' = Seqt /\ SqCs' = SqCs /\ ppc' = ppc /\ fresh' = fresh
  BY ConsumerFrame, ConsumerLayout
<1>2. \A k \in Slots : Live'[k] => Live[k]
  BY ConsumerFrame, ClearLiveStep
<1>3. QED
  BY <1>1, <1>2 DEF SlotsSound, SlotSound

LEMMA ConsumerBegins ==
    ASSUME TypeInv, EpochsBegun, PendingStale, EpochsSplit, NEW c \in Consumers, ConsumerNext(c),
           UNCHANGED producerVars
    PROVE  EpochsBegun' /\ PendingStale' /\ EpochsSplit'
<1>1. /\ Tables' = Tables /\ wret' = wret
      /\ \A q : Writing(q)' = Writing(q) /\ wtprime(q)' = wtprime(q)
      /\ \A s : Boundary(s)' = Boundary(s)
      /\ \A e : Initialised(e)' = Initialised(e) /\ InWindow(e)' = InWindow(e)
      /\ \A p, e : Pending(p, e)' = Pending(p, e)
  BY ConsumerLayout
<1>2. Es' = Es /\ Seqt' = Seqt /\ Tsent' = Tsent /\ Tnext' = Tnext
  BY ConsumerFrame
<1>3. EpochsBegun'
  BY <1>1 DEF EpochsBegun
<1>4. PendingStale'
  BY <1>1, <1>2 DEF PendingStale
<1>5. \A e \in Nat : EpochSplit(e) => EpochSplit(e)'
  BY <1>1, <1>2 DEF EpochSplit, Split
<1>6. EpochsSplit'
  BY <1>1, <1>5 DEF EpochsSplit
<1>7. QED
  BY <1>3, <1>4, <1>6

(* Work only shrinks.                                                      *)
LEMMA WorkedStill ==
    ASSUME TypeInv, NEW c \in Consumers, ConsumerNext(c), UNCHANGED producerVars, NEW e, Worked(e)'
    PROVE  Worked(e)
<1>1. /\ Tables' = Tables /\ wret' = wret /\ \A q : Writing(q)' = Writing(q)
  BY ConsumerLayout
<1>2. Wt' = Wt /\ Tsent' = Tsent
  BY ConsumerFrame
<1>3. \A i \in Tables : ~Tprogress'[i] => ~Tprogress[i]
  BY RunSteps DEF Tables
<1>4. QED
  BY <1>1, <1>2, <1>3 DEF Worked

LEMMA ConsumerLights ==
    ASSUME Inv, NEW c \in Consumers, ConsumerNext(c), UNCHANGED producerVars
    PROVE  WorkLit'
<1>0. /\ TypeInv /\ Layout /\ QuotaSound /\ SlotsSound /\ EpochsSplit /\ SdSound /\ WorkLit
      /\ KeptSound /\ RangesSound
  BY DEF Inv, Base, EpochInv, ViewInv, WorkInv
<1>1. SUFFICES ASSUME NEW e \in Nat, Worked(e)', Initialised(e)' PROVE Live'[Slot(e)]
  BY DEF WorkLit
<1>2. Worked(e) /\ Initialised(e) /\ Slot(e) \in Slots
  BY <1>0, <1>1, WorkedStill, ConsumerLayout, StatTypes
<1>3. Live[Slot(e)]
  BY <1>0, <1>2 DEF WorkLit
<1>4. CASE ClearLive(c)
  <2>1. cpc[c] = "clear" /\ Attached(c) /\ cpc[c] # "leaving"
    BY <1>4 DEF ClearLive, Attached, SubscribePhases
  <2>2. oldestEi[c] \in Nat /\ newestEi[c] \in Nat /\ oldestEi[c] <= newestEi[c]
        /\ Confirmed(oldestEi[c])
    BY <1>0, <2>1, ViewTypes DEF RangesSound, RangeSound
  <2>3. InWindow(oldestEi[c])
    BY <1>0, <2>1, <2>2, RangeHeld, HeldKept
  <2>4. ~Worked(oldestEi[c])
    BY <1>0, <2>2, <2>3, ConfirmedDone
  <2>5. InWindow(e)
    BY <1>0, <1>2, Windows DEF Protected
  <2>6. Slot(e) # Slot(oldestEi[c])
    BY <1>0, <1>2, <2>2, <2>3, <2>4, <2>5, WindowSlots
  <2>7. QED
    BY <1>0, <1>2, <1>3, <1>4, <2>6, ClearLiveStep
<1>5. CASE ~ClearLive(c)
  BY <1>0, <1>3, <1>5, ConsumerFrame
<1>6. QED
  BY <1>4, <1>5

LEMMA ConsumerDone ==
    ASSUME Inv, NEW c \in Consumers, ConsumerNext(c), UNCHANGED producerVars
    PROVE  DoneBegun'
<1>0. /\ TypeInv /\ Layout /\ QuotaSound /\ DoneBegun /\ KeptSound /\ RangesSound /\ WalksSound
  BY DEF Inv, Base, EpochInv, ViewInv
<1>1. SUFFICES ASSUME NEW i \in Tables, InWindow(Epoch(Tsent[i])), Tprogress'[i]
               PROVE  Initialised(Epoch(Tsent[i]))
  <2>1. Tsent' = Tsent /\ Tables' = Tables
    BY <1>0, ConsumerFrame, ConsumerLayout
  <2>2. \A e : Initialised(e)' = Initialised(e) /\ InWindow(e)' = InWindow(e)
    BY <1>0, ConsumerLayout
  <2>3. QED
    BY <1>1, <2>1, <2>2 DEF DoneBegun
<1>2. CASE Tprogress[i]
  BY <1>0, <1>1, <1>2 DEF DoneBegun
<1>3. CASE ~Tprogress[i]
  <2>0. i \in Indices
    BY DEF Tables
  <2>1. ~ProgressKept(i)
    BY <1>1, <1>3 DEF ProgressKept
  <2>2. i = Idx(tseq[c]) /\ cpc[c] \in {"claim", "complete", "progress"}
    BY <1>0, <2>0, <2>1, RunSteps
  <2>3. cpc[c] \in ClaimPhases
    BY <2>2 DEF ClaimPhases
  <2>4. At(tseq[c]) /\ Initialised(Epoch(tseq[c]))
    BY <1>0, <2>3, ClaimedHeld
  <2>5. QED
    BY <2>2, <2>4 DEF At
<1>4. QED
  BY <1>2, <1>3

LEMMA ConsumerEpochs ==
    ASSUME Inv, NEW c \in Consumers, ConsumerNext(c), UNCHANGED producerVars
    PROVE  EpochInv'
<1>1. TypeInv /\ SlotsSound /\ EpochsBegun /\ PendingStale /\ EpochsSplit
  BY DEF Inv, Base, EpochInv
<1>2. SlotsSound' /\ EpochsBegun' /\ PendingStale' /\ EpochsSplit'
  BY <1>1, ConsumerSlots, ConsumerBegins
<1>3. QED
  BY <1>2, ConsumerInits, ConsumerLights, ConsumerDone DEF EpochInv

-----------------------------------------------------------------------------
(* The effect of each action of a view on its own fields.                  *)

(* The steps of one view, field by field.                                  *)
(* Parts of a step that several actions share.                             *)
SameAttempt(c) ==
    subs'[c] = subs[c] /\ probe'[c] = probe[c] /\ seqtRead'[c] = seqtRead[c] /\ sqRead'[c] = sqRead[c]

SameRange(c) ==
    /\ oldestEi'[c] = oldestEi[c] /\ newestEi'[c] = newestEi[c] /\ ltiRing'[c] = ltiRing[c]

SameCursors(c) == sweepSeq'[c] = sweepSeq[c] /\ oldSweepSeq'[c] = oldSweepSeq[c]

SameClaim(c) == job'[c] = job[c] /\ tseq'[c] = tseq[c]

SameView(c) ==
    SameAttempt(c) /\ SameRange(c) /\ SameCursors(c) /\ nextSeq'[c] = nextSeq[c]

RestPhases == {"release", "sweepOldest", "sweepPosition", "leave", "ready"}

Rested(c) ==
    /\ cpc'[c] \in RestPhases /\ ret'[c] \in {"ready", "none"}
    /\ cpc'[c] = "sweepOldest" => Behind(c)

Advanced(c) ==
    \/ /\ at[c] < Epoch(nextSeq[c])
       /\ at'[c] = at[c] + 1 /\ cpc'[c] = "moveLeaf"
       /\ newestEi'[c] = newestEi[c] /\ sweepSeq'[c] = sweepSeq[c]
    \/ /\ ~(at[c] < Epoch(nextSeq[c]))
       /\ at'[c] = 0 /\ cpc'[c] = IF ret[c] = "work" THEN "work" ELSE "release"
       /\ newestEi'[c] = at[c] /\ sweepSeq'[c] = 0

Passed(c) ==
    /\ nextSeq'[c] = Tnext[Idx(nextSeq[c])] /\ job'[c] = "none" /\ tseq'[c] = 0
    /\ \/ Epoch(nextSeq'[c]) > newestEi[c] /\ cpc'[c] = "migrate" /\ ret'[c] = "tail"
       \/ ~(Epoch(nextSeq'[c]) > newestEi[c]) /\ Rested(c)

WalkedPast(c) ==
    /\ tseq'[c] = Tnext[Idx(tseq[c])] /\ job'[c] = job[c]
    /\ nextSeq'[c] = nextSeq[c] /\ ret'[c] = ret[c] /\ cpc'[c] = "walk"
    /\ \/ sweepSeq'[c] = sweepSeq[c]
       \/ job[c] = "position" /\ sweepSeq'[c] = tseq'[c]
    /\ \/ oldSweepSeq'[c] = oldSweepSeq[c]
       \/ job[c] = "trailing" /\ oldSweepSeq'[c] = tseq'[c]

Entered(c, s, caller) ==
    /\ cpc'[c] = "claim" /\ job'[c] = caller /\ tseq'[c] = s
    /\ nextSeq'[c] = nextSeq[c] /\ SameCursors(c)

Done(c) ==
    \/ job[c] \in {"visit", "carried"} /\ Passed(c) /\ SameCursors(c)
    \/ ~(job[c] \in {"visit", "carried"}) /\ WalkedPast(c)

LEMMA ResumeRests ==
    ASSUME TypeInv, NEW c \in Consumers, NEW stage, Resume(c, stage)
    PROVE  Rested(c)
<1>1. /\ StagePhase(c, stage) \in RestPhases
      /\ StagePhase(c, stage) = "sweepOldest" => Behind(c)
  BY DEF StagePhase, RestPhases
<1>2. cpc'[c] = StagePhase(c, stage) /\ ret'[c] \in {"ready", "none"}
  BY ConsumerFunctions DEF Resume, Goto, Set
<1>3. QED
  BY <1>1, <1>2 DEF Rested

LEMMA MovedAdvances ==
    ASSUME TypeInv, NEW c \in Consumers, Moved(c)
    PROVE  Advanced(c)
<1> USE ConsumerFunctions
<1>1. CASE at[c] < Epoch(nextSeq[c])
  BY <1>1 DEF Moved, Goto, Set, Advanced
<1>2. CASE ~(at[c] < Epoch(nextSeq[c]))
  BY <1>2 DEF Moved, Goto, Set, Advanced
<1>3. QED
  BY <1>1, <1>2

LEMMA PassTablePasses ==
    ASSUME TypeInv, NEW c \in Consumers, PassTable(c)
    PROVE  Passed(c)
<1> USE ConsumerFunctions
<1>1. nextSeq'[c] = Tnext[Idx(nextSeq[c])] /\ job'[c] = "none" /\ tseq'[c] = 0
  BY DEF PassTable, ForgetClaim, Set
<1>2. CASE Epoch(Tnext[Idx(nextSeq[c])]) > newestEi[c]
  BY <1>1, <1>2 DEF PassTable, Goto, Set, Passed
<1>3. CASE ~(Epoch(Tnext[Idx(nextSeq[c])]) > newestEi[c])
  <2>1. Rested(c)
    BY <1>3, ResumeRests DEF PassTable
  <2>2. QED
    BY <1>1, <1>3, <2>1 DEF Passed
<1>4. QED
  BY <1>2, <1>3

LEMMA WalkPastStep ==
    ASSUME TypeInv, NEW c \in Consumers, NEW b, WalkPast(c, b), job'[c] = job[c],
           nextSeq'[c] = nextSeq[c], ret'[c] = ret[c], cpc'[c] = "walk"
    PROVE  WalkedPast(c)
<1> USE ConsumerFunctions
<1>1. tseq'[c] = Tnext[Idx(tseq[c])]
  BY DEF WalkPast, Set
<1>2. sweepSeq'[c] = IF job[c] = "position" THEN tseq'[c] ELSE sweepSeq[c]
  BY <1>1 DEF WalkPast, Set
<1>3. oldSweepSeq'[c] = IF job[c] = "trailing" /\ b THEN tseq'[c] ELSE oldSweepSeq[c]
  BY <1>1 DEF WalkPast, Set
<1>4. QED
  BY <1>1, <1>2, <1>3 DEF WalkedPast

LEMMA ProcessedIsDone ==
    ASSUME TypeInv, NEW c \in Consumers, NEW b, Processed(c, b)
    PROVE  Done(c)
<1> USE ConsumerFunctions
<1>1. CASE job[c] \in {"visit", "carried"}
  <2>1. Passed(c)
    BY <1>1, PassTablePasses DEF Processed
  <2>2. QED
    BY <1>1, <2>1 DEF Processed, Done, SameCursors
<1>2. CASE ~(job[c] \in {"visit", "carried"})
  <2>1. WalkPast(c, FALSE) /\ job'[c] = job[c] /\ nextSeq'[c] = nextSeq[c] /\ ret'[c] = ret[c] /\ cpc'[c] = "walk"
    BY <1>2 DEF Processed, Goto
  <2>2. QED
    BY <1>2, <2>1, WalkPastStep DEF Done
<1>3. QED
  BY <1>1, <1>2

LEMMA PollStep ==
    ASSUME TypeInv, NEW c \in Consumers, Poll(c)
    PROVE  /\ cpc[c] = "ready" /\ SameView(c) /\ SameClaim(c)
           /\ \/ /\ at'[c] = at[c]
                 /\ \/ Epoch(nextSeq[c]) > newestEi[c] /\ cpc'[c] = "migrate" /\ ret'[c] = "idle"
                    \/ Rested(c)
              \/ /\ Published(nextSeq[c]) /\ Epoch(nextSeq[c]) # newestEi[c]
                 /\ at'[c] = newestEi[c] + 1 /\ cpc'[c] = "moveLeaf" /\ ret'[c] = "work"
<1> USE ConsumerFunctions
<1>1. cpc[c] = "ready" /\ SameView(c) /\ SameClaim(c)
  BY DEF Poll, SameView, SameRange, SameCursors, SameAttempt, SameClaim, viewVars, attemptVars, claimVars
<1>2. CASE at' = at /\ Epoch(nextSeq[c]) > newestEi[c] /\ Goto(c, "migrate") /\ ret' = Set(ret, c, "idle")
  BY <1>1, <1>2 DEF Goto, Set
<1>3. CASE at' = at /\ Resume(c, "idle")
  BY <1>1, <1>3, ResumeRests
<1>4. CASE /\ Published(nextSeq[c]) /\ Epoch(nextSeq[c]) # newestEi[c]
           /\ at' = Set(at, c, newestEi[c] + 1) /\ ret' = Set(ret, c, "work") /\ Goto(c, "moveLeaf")
  BY <1>1, <1>4 DEF Goto, Set
<1>5. QED
  BY <1>2, <1>3, <1>4 DEF Poll

LEMMA MoveLeafStep ==
    ASSUME TypeInv, NEW c \in Consumers, MoveLeaf(c)
    PROVE  /\ cpc[c] = "moveLeaf" /\ MoveChecks(c)
           /\ SameAttempt(c) /\ SameClaim(c) /\ nextSeq'[c] = nextSeq[c] /\ ret'[c] = ret[c]
           /\ oldestEi'[c] = oldestEi[c] /\ oldSweepSeq'[c] = oldSweepSeq[c]
           /\ \/ /\ cpc'[c] = "moveRoot" /\ at'[c] = at[c] /\ newestEi'[c] = newestEi[c]
                 /\ sweepSeq'[c] = sweepSeq[c]
              \/ Advanced(c)
<1> USE ConsumerFunctions
<1>1. /\ cpc[c] = "moveLeaf" /\ MoveChecks(c)
      /\ SameAttempt(c) /\ SameClaim(c) /\ nextSeq'[c] = nextSeq[c] /\ ret'[c] = ret[c]
      /\ oldestEi'[c] = oldestEi[c] /\ oldSweepSeq'[c] = oldSweepSeq[c]
  BY DEF MoveLeaf, SameAttempt, SameClaim, pinVars, attemptVars, claimVars
<1>2. CASE Goto(c, "moveRoot") /\ UNCHANGED <<at, newestEi, sweepSeq>>
  BY <1>1, <1>2 DEF Goto
<1>3. CASE Moved(c)
  BY <1>1, <1>3, MovedAdvances
<1>4. (Goto(c, "moveRoot") /\ UNCHANGED <<at, newestEi, sweepSeq>>) \/ Moved(c)
  BY DEF MoveLeaf
<1>5. QED
  BY <1>2, <1>3, <1>4

LEMMA MoveRootStep ==
    ASSUME TypeInv, NEW c \in Consumers, MoveRoot(c)
    PROVE  /\ cpc[c] = "moveRoot" /\ ltiRing'[c] = ltiRing[c]
           /\ SameAttempt(c) /\ SameClaim(c) /\ nextSeq'[c] = nextSeq[c] /\ ret'[c] = ret[c]
           /\ oldestEi'[c] = oldestEi[c] /\ oldSweepSeq'[c] = oldSweepSeq[c]
           /\ Advanced(c)
<1>1. Advanced(c)
  BY MovedAdvances DEF MoveRoot
<1>2. QED
  BY <1>1 DEF MoveRoot, SameAttempt, SameClaim, pinVars, attemptVars, claimVars

LEMMA VisitStep ==
    ASSUME TypeInv, NEW c \in Consumers, Visit(c)
    PROVE  /\ \/ cpc[c] = "work"
              \/ cpc[c] = "ready" /\ Published(nextSeq[c]) /\ Epoch(nextSeq[c]) = newestEi[c]
           /\ SameAttempt(c) /\ SameRange(c) /\ SameCursors(c) /\ at'[c] = at[c]
           /\ \/ \E j \in {"visit", "carried"} : Entered(c, nextSeq[c], j) /\ ret'[c] = "none"
              \/ Passed(c)
<1> USE ConsumerFunctions
<1>1. /\ \/ cpc[c] = "work"
         \/ cpc[c] = "ready" /\ Published(nextSeq[c]) /\ Epoch(nextSeq[c]) = newestEi[c]
      /\ SameAttempt(c) /\ SameRange(c) /\ SameCursors(c) /\ at'[c] = at[c]
  BY DEF Visit, SameAttempt, SameRange, SameCursors, attemptVars
<1>2. CASE \E j \in {"visit", "carried"} : Process(c, nextSeq[c], j) /\ ret' = Set(ret, c, "none") /\ nextSeq' = nextSeq
  BY <1>1, <1>2 DEF Process, Goto, Set, Entered
<1>3. CASE PassTable(c)
  BY <1>1, <1>3, PassTablePasses
<1>4. (\E j \in {"visit", "carried"} : Process(c, nextSeq[c], j) /\ ret' = Set(ret, c, "none") /\ nextSeq' = nextSeq)
      \/ PassTable(c)
  BY DEF Visit
<1>5. QED
  BY <1>2, <1>3, <1>4

LEMMA MigrateStep ==
    ASSUME TypeInv, NEW c \in Consumers, Migrate(c)
    PROVE  /\ cpc[c] = "migrate" /\ SameView(c) /\ SameClaim(c)
           /\ \/ at'[c] = newestEi[c] + 1 /\ cpc'[c] = "moveLeaf" /\ ret'[c] = ret[c]
              \/ at'[c] = at[c] /\ Rested(c)
<1> USE ConsumerFunctions
<1>1. cpc[c] = "migrate" /\ SameView(c) /\ SameClaim(c)
  BY DEF Migrate, SameView, SameRange, SameCursors, SameAttempt, SameClaim, viewVars, attemptVars, claimVars
<1>2. CASE FrontierReady(c)
  BY <1>1, <1>2 DEF Migrate, Goto, Set
<1>3. CASE ~FrontierReady(c)
  BY <1>1, <1>3, ResumeRests DEF Migrate
<1>4. QED
  BY <1>2, <1>3

LEMMA ReleaseStep ==
    ASSUME TypeInv, NEW c \in Consumers, Release(c)
    PROVE  /\ cpc[c] = "release" /\ SameView(c) /\ SameClaim(c) /\ at'[c] = at[c]
           /\ \/ Behind(c) /\ Confirmed(oldestEi[c]) /\ cpc'[c] = "clear" /\ ret'[c] = ret[c]
              \/ Rested(c)
<1> USE ConsumerFunctions
<1>1. cpc[c] = "release" /\ SameView(c) /\ SameClaim(c) /\ at'[c] = at[c]
  BY DEF Release, SameView, SameRange, SameCursors, SameAttempt, SameClaim, viewVars, attemptVars, claimVars
<1>2. CASE Behind(c) /\ Confirmed(oldestEi[c])
  BY <1>1, <1>2 DEF Release, Goto
<1>3. CASE ~(Behind(c) /\ Confirmed(oldestEi[c]))
  BY <1>1, <1>3, ResumeRests DEF Release
<1>4. QED
  BY <1>2, <1>3

LEMMA DropStep ==
    ASSUME TypeInv, NEW c \in Consumers, DecLeaf(c) \/ DecRoot(c)
    PROVE  /\ cpc[c] \in {"decLeaf", "decRoot"}
           /\ SameAttempt(c) /\ SameClaim(c) /\ at'[c] = at[c] /\ ret'[c] = ret[c]
           /\ nextSeq'[c] = nextSeq[c] /\ newestEi'[c] = newestEi[c] /\ ltiRing'[c] = ltiRing[c]
           /\ sweepSeq'[c] = sweepSeq[c]
           /\ \/ /\ DecLeaf(c) /\ LastOut(Lt[Slot(oldestEi[c])][ltiRing[c][Slot(oldestEi[c])]])
                 /\ cpc[c] = "decLeaf" /\ cpc'[c] = "decRoot" /\ SameRange(c) /\ SameCursors(c)
              \/ /\ DecLeaf(c) => ~LastOut(Lt[Slot(oldestEi[c])][ltiRing[c][Slot(oldestEi[c])]])
                 /\ oldestEi'[c] = oldestEi[c] + 1 /\ oldSweepSeq'[c] = 0
                 /\ cpc'[c] = IF ret[c] = "leaving" THEN "leaving" ELSE "release"
<1> USE ConsumerFunctions
<1>1. /\ cpc[c] \in {"decLeaf", "decRoot"}
      /\ SameAttempt(c) /\ SameClaim(c) /\ at'[c] = at[c] /\ ret'[c] = ret[c]
      /\ nextSeq'[c] = nextSeq[c] /\ newestEi'[c] = newestEi[c] /\ ltiRing'[c] = ltiRing[c]
      /\ sweepSeq'[c] = sweepSeq[c]
  BY DEF DecLeaf, DecRoot, SameAttempt, SameClaim, pinVars, attemptVars, claimVars
<1>2. ASSUME Dropped(c)
      PROVE  /\ oldestEi'[c] = oldestEi[c] + 1 /\ oldSweepSeq'[c] = 0
             /\ cpc'[c] = IF ret[c] = "leaving" THEN "leaving" ELSE "release"
  BY <1>2 DEF Dropped, Goto, Set
<1>3. CASE DecRoot(c)
  <2>1. ~DecLeaf(c)
    BY <1>3 DEF DecRoot, DecLeaf
  <2>2. QED
    BY <1>1, <1>2, <1>3, <2>1 DEF DecRoot
<1>4. CASE DecLeaf(c) /\ LastOut(Lt[Slot(oldestEi[c])][ltiRing[c][Slot(oldestEi[c])]])
  <2>1. Goto(c, "decRoot") /\ UNCHANGED <<oldestEi, oldSweepSeq>> /\ cpc[c] = "decLeaf"
    BY <1>4 DEF DecLeaf
  <2>2. QED
    BY <1>1, <1>4, <2>1 DEF Goto, SameRange, SameCursors
<1>5. CASE DecLeaf(c) /\ ~LastOut(Lt[Slot(oldestEi[c])][ltiRing[c][Slot(oldestEi[c])]])
  <2>1. Dropped(c)
    BY <1>5 DEF DecLeaf
  <2>2. QED
    BY <1>1, <1>2, <1>5, <2>1
<1>6. QED
  BY <1>3, <1>4, <1>5

LEMMA LeaveSteps ==
    ASSUME TypeInv, NEW c \in Consumers, Unsubscribe(c) \/ Leave(c) \/ LeaveEpoch(c)
    PROVE  /\ SameView(c) /\ SameClaim(c) /\ at'[c] = at[c]
           /\ \/ cpc[c] = "ready" /\ cpc'[c] = "release" /\ ret'[c] = "leave"
              \/ cpc[c] = "ready" /\ Rested(c)
              \/ cpc[c] = "leave" /\ cpc'[c] = "leaving" /\ ret'[c] = "leaving"
              \/ /\ cpc[c] = "leaving" /\ oldestEi[c] <= newestEi[c] /\ ret'[c] = ret[c]
                 /\ \/ Confirmed(oldestEi[c]) /\ cpc'[c] = "clear"
                    \/ cpc'[c] = "decLeaf"
<1> USE ConsumerFunctions
<1>1. SameView(c) /\ SameClaim(c) /\ at'[c] = at[c]
  BY DEF Unsubscribe, Leave, LeaveEpoch, SameView, SameRange, SameCursors, SameAttempt, SameClaim,
         viewVars, attemptVars, claimVars
<1>2. CASE Unsubscribe(c) /\ Behind(c)
  BY <1>1, <1>2 DEF Unsubscribe, Goto, Set
<1>3. CASE Unsubscribe(c) /\ ~Behind(c)
  BY <1>1, <1>3, ResumeRests DEF Unsubscribe
<1>4. CASE Leave(c)
  BY <1>1, <1>4 DEF Leave, Goto, Set
<1>5. CASE LeaveEpoch(c)
  BY <1>1, <1>5 DEF LeaveEpoch, Discharges, Goto
<1>6. QED
  BY <1>2, <1>3, <1>4, <1>5

LEMMA LeftStep ==
    ASSUME TypeInv, NEW c \in Consumers, Left(c)
    PROVE  /\ cpc[c] = "leaving" /\ cpc'[c] = "off" /\ SameAttempt(c) /\ SameClaim(c) /\ at'[c] = at[c]
           /\ oldestEi[c] > newestEi[c]
           /\ sweepSeq'[c] = 0 /\ oldSweepSeq'[c] = 0 /\ oldestEi'[c] = 0 /\ newestEi'[c] = 0
           /\ ret'[c] = "none"
  BY ConsumerFunctions DEF Left, Goto, Set, SameAttempt, SameClaim, attemptVars, claimVars

LEMMA SweepSteps ==
    ASSUME TypeInv, NEW c \in Consumers, SweepOldest(c) \/ SweepPosition(c)
    PROVE  /\ SameView(c) /\ at'[c] = at[c]
           /\ \/ cpc[c] = "sweepOldest" /\ Rested(c) /\ SameClaim(c)
              \/ /\ cpc[c] = "sweepOldest" /\ cpc'[c] = "release" /\ ret'[c] = "sweepPosition"
                 /\ SameClaim(c)
              \/ /\ cpc[c] = "sweepOldest" /\ cpc'[c] = "walk" /\ ret'[c] = "sweepPosition"
                 /\ Es[Slot(oldestEi[c])] = oldestEi[c] /\ job'[c] = "trailing"
                 /\ tseq'[c] = Larger(Seqt[Slot(oldestEi[c])], oldSweepSeq[c])
              \/ /\ cpc[c] = "sweepPosition" /\ cpc'[c] = "walk" /\ ret'[c] = "ready"
                 /\ job'[c] = "position"
                 /\ tseq'[c] = Larger(Seqt[Slot(newestEi[c])], sweepSeq[c])
<1> USE ConsumerFunctions
<1>1. SameView(c) /\ at'[c] = at[c]
  BY DEF SweepOldest, SweepPosition, SameView, SameRange, SameCursors, SameAttempt,
         viewVars, attemptVars
<1>2. CASE SweepPosition(c)
  BY <1>1, <1>2 DEF SweepPosition, StartWalk, Goto, Set
<1>3. CASE SweepOldest(c) /\ Es[Slot(oldestEi[c])] # oldestEi[c]
  BY <1>1, <1>3, ResumeRests DEF SweepOldest, SameClaim, claimVars
<1>4. CASE SweepOldest(c) /\ Es[Slot(oldestEi[c])] = oldestEi[c] /\ Confirmed(oldestEi[c])
  BY <1>1, <1>4 DEF SweepOldest, Goto, Set, SameClaim, claimVars
<1>5. CASE SweepOldest(c) /\ Es[Slot(oldestEi[c])] = oldestEi[c] /\ ~Confirmed(oldestEi[c])
  BY <1>1, <1>5 DEF SweepOldest, StartWalk, Goto, Set
<1>6. QED
  BY <1>2, <1>3, <1>4, <1>5

LEMMA WalkStep ==
    ASSUME TypeInv, NEW c \in Consumers, Walk(c)
    PROVE  /\ cpc[c] = "walk" /\ tseq[c] < WalkEnd(c) /\ Published(tseq[c])
           /\ SameAttempt(c) /\ SameRange(c) /\ at'[c] = at[c] /\ ret'[c] = ret[c]
           /\ WalkedPast(c) \/ Entered(c, tseq[c], job[c])
<1> USE ConsumerFunctions
<1>1. /\ cpc[c] = "walk" /\ tseq[c] < WalkEnd(c) /\ Published(tseq[c])
      /\ SameAttempt(c) /\ SameRange(c) /\ at'[c] = at[c] /\ ret'[c] = ret[c] /\ nextSeq'[c] = nextSeq[c]
  BY DEF Walk, SameAttempt, SameRange, attemptVars
<1>2. CASE WalkPast(c, drained[c]) /\ UNCHANGED <<cpc, job>>
  BY <1>1, <1>2, WalkPastStep
<1>3. CASE Process(c, tseq[c], job[c]) /\ UNCHANGED <<sweepSeq, oldSweepSeq>>
  BY <1>1, <1>3 DEF Process, Goto, Set, Entered, SameCursors
<1>4. QED
  BY <1>1, <1>2, <1>3 DEF Walk

LEMMA EndWalkStep ==
    ASSUME TypeInv, NEW c \in Consumers, EndWalk(c)
    PROVE  /\ cpc[c] = "walk" /\ SameView(c) /\ at'[c] = at[c]
           /\ job'[c] = "none" /\ tseq'[c] = 0
           /\ (cpc'[c] = "release" /\ ret'[c] = ret[c]) \/ Rested(c)
<1> USE ConsumerFunctions
<1>1. /\ cpc[c] = "walk" /\ SameView(c) /\ at'[c] = at[c]
      /\ job'[c] = "none" /\ tseq'[c] = 0
  BY DEF EndWalk, ForgetClaim, Set, SameView, SameRange, SameCursors, SameAttempt, viewVars, attemptVars
<1>2. CASE Behind(c)
  BY <1>1, <1>2 DEF EndWalk, Goto
<1>3. CASE ~Behind(c)
  BY <1>1, <1>3, ResumeRests DEF EndWalk
<1>4. QED
  BY <1>2, <1>3

WorkStep(c) == Claim(c) \/ Complete(c) \/ Progress(c) \/ Account(c) \/ Yield(c)

LEMMA WorkSteps ==
    ASSUME TypeInv, NEW c \in Consumers, WorkStep(c)
    PROVE  /\ cpc[c] \in ClaimPhases /\ SameAttempt(c) /\ SameRange(c) /\ at'[c] = at[c]
           /\ \/ Done(c)
              \/ /\ cpc'[c] \in ClaimPhases /\ SameView(c) /\ SameClaim(c) /\ ret'[c] = ret[c]
           /\ cpc'[c] \in {"complete", "progress", "account"} =>
                /\ SameClaim(c)
                /\ cpc'[c] = "complete" => Claim(c) /\ ~Exhausted(Tclaims[Idx(tseq[c])])
                /\ cpc'[c] = "progress" => Complete(c) /\ Tcomps[Idx(tseq[c])] = Runs - 1
                /\ cpc'[c] = "account" => Progress(c)
           /\ Complete(c) /\ Tcomps[Idx(tseq[c])] = Runs - 1 => cpc'[c] = "progress"
           /\ Claim(c) => \/ UNCHANGED Tclaims /\ cpc'[c] # "complete"
                          \/ /\ Tclaims' = [Tclaims EXCEPT ![Idx(tseq[c])] = Tclaims[Idx(tseq[c])] + 1]
                             /\ cpc'[c] = "complete"
           /\ Progress(c) => cpc'[c] = "account"
<1> USE ConsumerFunctions
<1>1. cpc[c] \in ClaimPhases /\ SameAttempt(c) /\ SameRange(c) /\ at'[c] = at[c]
  BY DEF WorkStep, Claim, Complete, Progress, Account, Yield, stillVars, ClaimPhases,
         SameAttempt, SameRange, attemptVars
<1>2. ASSUME Done(c) PROVE cpc'[c] \notin ClaimPhases
  BY <1>2 DEF Done, Passed, WalkedPast, Rested, RestPhases, ClaimPhases
<1>3. ASSUME NEW f \in ClaimPhases, Claiming(c, f), UNCHANGED stillVars
      PROVE  cpc'[c] = f /\ SameView(c) /\ SameClaim(c) /\ ret'[c] = ret[c]
  BY <1>3 DEF Claiming, Goto, stillVars, SameView, SameAttempt, SameRange, SameCursors, SameClaim,
              attemptVars, claimVars
<1>4. CASE Claim(c) /\ Exhausted(Tclaims[Idx(tseq[c])])
  <2>1. Done(c) /\ UNCHANGED Tclaims
    BY <1>4, ProcessedIsDone DEF Claim
  <2>2. cpc'[c] \notin ClaimPhases
    BY <1>2, <2>1
  <2>3. ~Complete(c) /\ ~Progress(c)
    BY <1>4 DEF Claim, Complete, Progress
  <2>4. QED
    BY <1>1, <2>1, <2>2, <2>3 DEF ClaimPhases
<1>5. CASE Claim(c) /\ ~Exhausted(Tclaims[Idx(tseq[c])])
  <2>1. /\ cpc'[c] = "complete" /\ SameView(c) /\ SameClaim(c) /\ ret'[c] = ret[c]
        /\ Tclaims' = [Tclaims EXCEPT ![Idx(tseq[c])] = Tclaims[Idx(tseq[c])] + 1]
    BY <1>1, <1>5 DEF Claim, Goto, SameView, SameCursors, SameClaim
  <2>2. ~Complete(c) /\ ~Progress(c)
    BY <1>5 DEF Claim, Complete, Progress
  <2>3. QED
    BY <1>1, <1>5, <2>1, <2>2 DEF ClaimPhases
<1>6. CASE Complete(c)
  <2>1. PICK f \in {"progress", "yield", "claim"} : /\ Claiming(c, f)
                                                    /\ f = "progress" <=> Tcomps[Idx(tseq[c])] = Runs - 1
    <3>1. CASE Tcomps[Idx(tseq[c])] = Runs - 1
      BY <1>6, <3>1 DEF Complete
    <3>2. CASE ~(Tcomps[Idx(tseq[c])] = Runs - 1) /\ job[c] = "visit" /\ firstClaimant[c]
      BY <1>6, <3>2 DEF Complete
    <3>3. CASE ~(Tcomps[Idx(tseq[c])] = Runs - 1) /\ ~(job[c] = "visit" /\ firstClaimant[c])
      BY <1>6, <3>3 DEF Complete
    <3>4. QED
      BY <3>1, <3>2, <3>3
  <2>2. UNCHANGED stillVars
    BY <1>6 DEF Complete
  <2>3. cpc'[c] = f /\ SameView(c) /\ SameClaim(c) /\ ret'[c] = ret[c]
    BY <1>3, <2>1, <2>2 DEF ClaimPhases
  <2>4. ~Claim(c) /\ ~Progress(c)
    BY <1>6 DEF Claim, Complete, Progress
  <2>5. QED
    BY <1>1, <1>6, <2>1, <2>3, <2>4 DEF ClaimPhases
<1>7. CASE Progress(c)
  <2>1. cpc'[c] = "account" /\ SameView(c) /\ SameClaim(c) /\ ret'[c] = ret[c]
    BY <1>3, <1>7 DEF Progress, ClaimPhases
  <2>2. ~Claim(c) /\ ~Complete(c)
    BY <1>7 DEF Claim, Complete, Progress
  <2>3. QED
    BY <1>1, <1>7, <2>1, <2>2 DEF ClaimPhases
<1>8. CASE Account(c)
  <2>1. Done(c)
    BY <1>8, ProcessedIsDone DEF Account
  <2>2. cpc'[c] \notin ClaimPhases
    BY <1>2, <2>1
  <2>3. ~Claim(c) /\ ~Complete(c) /\ ~Progress(c)
    BY <1>8 DEF Claim, Complete, Progress, Account
  <2>4. QED
    BY <1>1, <2>1, <2>2, <2>3 DEF ClaimPhases
<1>9. CASE Yield(c)
  <2>1. ~Claim(c) /\ ~Complete(c) /\ ~Progress(c)
    BY <1>9 DEF Claim, Complete, Progress, Yield
  <2>2. CASE Processed(c, FALSE)
    <3>1. Done(c)
      BY <2>2, ProcessedIsDone
    <3>2. QED
      BY <1>1, <1>2, <2>1, <3>1 DEF ClaimPhases
  <2>3. CASE Claiming(c, "claim")
    <3>1. cpc'[c] = "claim" /\ SameView(c) /\ SameClaim(c) /\ ret'[c] = ret[c]
      BY <1>3, <1>9, <2>3 DEF Yield, ClaimPhases
    <3>2. QED
      BY <1>1, <2>1, <3>1 DEF ClaimPhases
  <2>4. QED
    BY <1>9, <2>2, <2>3 DEF Yield
<1>10. QED
  BY <1>4, <1>5, <1>6, <1>7, <1>8, <1>9 DEF WorkStep

(* A subscription's step.                                                  *)
SameScan(c) ==
    at'[c] = at[c] /\ probe'[c] = probe[c] /\ seqtRead'[c] = seqtRead[c] /\ sqRead'[c] = sqRead[c]

RoundOver(c) == cpc'[c] \in {"probe", "retry"}

Scanned(c) ==
    \/ at[c] < probe[c] /\ at'[c] = at[c] + 1 /\ probe'[c] = probe[c] /\ cpc'[c] = "hint"
    \/ RoundOver(c)

Unseen(c) == ~(Initialised(at[c]) /\ Live[Slot(at[c])])

LEMMA ScanOnScans ==
    ASSUME TypeInv, NEW c \in Consumers, ScanOn(c)
    PROVE  Scanned(c)
<1> USE ConsumerFunctions
<1>1. CASE at[c] < probe[c]
  BY <1>1 DEF ScanOn, Goto, Set, Scanned
<1>2. CASE ~(at[c] < probe[c])
  BY <1>2 DEF ScanOn, NextRound, Goto, Scanned, RoundOver
<1>3. QED
  BY <1>1, <1>2

LEMMA NextRoundEnds ==
    ASSUME TypeInv, NEW c \in Consumers, NextRound(c)
    PROVE  RoundOver(c)
  BY ConsumerFunctions DEF NextRound, Goto, RoundOver

LEMMA SameScanStep ==
    ASSUME NEW c \in Consumers, UNCHANGED scanVars
    PROVE  SameScan(c)
  BY DEF scanVars, SameScan

LEMMA SubscriberFrame ==
    ASSUME TypeInv, NEW c \in Consumers, SubscriberNext(c), ~Attach(c)
    PROVE  SameRange(c) /\ SameCursors(c) /\ SameClaim(c) /\ nextSeq'[c] = nextSeq[c] /\ ret'[c] = ret[c]
<1>1. CASE CountConsumer(c) \/ RefuseConsumer(c) \/ ProbeTail(c) \/ PinTail(c) \/ Hint(c)
           \/ PinCandidate(c)
  BY <1>1 DEF CountConsumer, RefuseConsumer, ProbeTail, PinTail, Hint, PinCandidate,
              SameRange, SameCursors, SameClaim, viewVars, claimVars
<1>2. CASE CandidateEs(c) \/ CandidateRt(c) \/ UnpinCandidate(c) \/ ValidateEs(c)
           \/ ValidateSeqt(c) \/ ValidateWt(c) \/ ValidateNext(c)
  BY <1>2 DEF CandidateEs, CandidateRt, UnpinCandidate, ValidateEs, ValidateSeqt, ValidateWt,
              ValidateNext, SameRange, SameCursors, SameClaim, viewVars, claimVars
<1>3. CASE AttachRoot(c) \/ UnpinAll(c) \/ Subscribed(c) \/ RetrySubscribe(c)
  BY <1>3 DEF AttachRoot, UnpinAll, Subscribed, RetrySubscribe,
              SameRange, SameCursors, SameClaim, viewVars, claimVars
<1>4. QED
  BY <1>1, <1>2, <1>3 DEF SubscriberNext

(* The steps before a candidate.                                           *)
LEMMA EnterSteps ==
    ASSUME TypeInv, NEW c \in Consumers,
           CountConsumer(c) \/ RefuseConsumer(c) \/ ProbeTail(c) \/ PinTail(c)
    PROVE  \/ cpc[c] = "off" /\ cpc'[c] \in {"full", "probe"}
           \/ cpc[c] = "full" /\ cpc'[c] = "off"
           \/ cpc[c] = "probe" /\ cpc'[c] = "pin" /\ probe'[c] = Epoch(Wt)
           \/ /\ cpc[c] = "pin" /\ cpc'[c] = "hint" /\ probe'[c] = probe[c]
              /\ at'[c] = WindowStart(probe[c])
  BY ConsumerFunctions DEF CountConsumer, RefuseConsumer, ProbeTail, PinTail, Goto, Set

LEMMA CandidateSteps ==
    ASSUME TypeInv, NEW c \in Consumers,
           Hint(c) \/ PinCandidate(c) \/ CandidateEs(c) \/ CandidateRt(c)
    PROVE  \/ cpc[c] = "hint" /\ cpc'[c] = "pinCand" /\ SameScan(c) /\ subs'[c] = subs[c]
           \/ cpc[c] = "hint" /\ Scanned(c) /\ Unseen(c) /\ subs'[c] = subs[c]
           \/ /\ cpc[c] = "pinCand" /\ cpc'[c] = "candEs" /\ SameScan(c)
              /\ subs'[c] = subs[c] \cup {Slot(at[c])}
           \/ /\ cpc[c] = "candEs" /\ cpc'[c] = "candRt" /\ SameScan(c) /\ subs'[c] = subs[c]
              /\ Initialised(at[c])
           \/ /\ cpc[c] = "candRt" /\ cpc'[c] = "valEs" /\ SameScan(c) /\ subs'[c] = subs[c]
              /\ Live[Slot(at[c])]
           \/ /\ cpc[c] = "candEs" /\ ~Initialised(at[c]) /\ subs'[c] = subs[c]
              /\ \/ cpc'[c] = "unpinCand" /\ SameScan(c)
                 \/ Scanned(c)
           \/ /\ cpc[c] = "candRt" /\ ~Live[Slot(at[c])] /\ subs'[c] = subs[c]
              /\ \/ cpc'[c] = "unpinCand" /\ SameScan(c)
                 \/ Scanned(c)
<1> USE ConsumerFunctions, SameScanStep
<1>0. ASSUME DropCandidate(c) PROVE (cpc'[c] = "unpinCand" /\ SameScan(c)) \/ Scanned(c)
  <2>1. CASE candFresh[c]
    BY <1>0, <2>1 DEF DropCandidate, Goto
  <2>2. CASE ~candFresh[c]
    BY <1>0, <2>2, ScanOnScans DEF DropCandidate
  <2>3. QED
    BY <2>1, <2>2
<1>1. CASE Hint(c)
  <2>1. cpc[c] = "hint" /\ subs'[c] = subs[c]
    BY <1>1 DEF Hint
  <2>2. CASE Es[Slot(at[c])] = at[c] /\ Live[Slot(at[c])]
    BY <1>1, <2>1, <2>2 DEF Hint, Goto
  <2>3. CASE ~(Es[Slot(at[c])] = at[c] /\ Live[Slot(at[c])])
    BY <1>1, <2>1, <2>3, ScanOnScans DEF Hint, Unseen, Initialised
  <2>4. QED
    BY <2>2, <2>3
<1>2. CASE PinCandidate(c)
  BY <1>2 DEF PinCandidate, Pin, Goto, Set, SameScan
<1>3. CASE CandidateEs(c)
  <2>1. cpc[c] = "candEs" /\ subs'[c] = subs[c]
    BY <1>3 DEF CandidateEs
  <2>2. CASE Es[Slot(at[c])] = at[c]
    BY <1>3, <2>1, <2>2 DEF CandidateEs, Goto, Initialised
  <2>3. CASE ~(Es[Slot(at[c])] = at[c])
    BY <1>0, <1>3, <2>1, <2>3 DEF CandidateEs, Initialised
  <2>4. QED
    BY <2>2, <2>3
<1>4. CASE CandidateRt(c)
  <2>1. cpc[c] = "candRt" /\ subs'[c] = subs[c]
    BY <1>4 DEF CandidateRt
  <2>2. CASE Live[Slot(at[c])]
    BY <1>4, <2>1, <2>2 DEF CandidateRt, Goto
  <2>3. CASE ~Live[Slot(at[c])]
    BY <1>0, <1>4, <2>1, <2>3 DEF CandidateRt
  <2>4. QED
    BY <2>2, <2>3
<1>5. QED
  BY <1>1, <1>2, <1>3, <1>4

LEMMA ValidateSteps ==
    ASSUME TypeInv, NEW c \in Consumers,
           ValidateEs(c) \/ ValidateSeqt(c) \/ ValidateWt(c) \/ ValidateNext(c)
    PROVE  /\ subs'[c] = subs[c]
           /\ \/ cpc[c] = "valEs" /\ cpc'[c] = "valSeqt" /\ SameScan(c)
              \/ /\ cpc[c] = "valSeqt" /\ cpc'[c] = "valWt" /\ at'[c] = at[c] /\ probe'[c] = probe[c]
                 /\ at[c] <= Epoch(Seqt[Slot(at[c])]) /\ Epoch(Seqt[Slot(at[c])]) < at[c] + K
                 /\ SqCs[Slot(at[c])] # 0
                 /\ seqtRead'[c] = Seqt[Slot(at[c])] /\ sqRead'[c] = SqCs[Slot(at[c])]
              \/ /\ cpc[c] = "valWt" /\ SameScan(c) /\ Epoch(Wt) < at[c] + K
                 /\ IF Epoch(seqtRead[c]) > at[c] THEN cpc'[c] = "valNext" ELSE cpc'[c] = "subLeaf"
              \/ /\ cpc[c] = "valNext" /\ SameScan(c) /\ cpc'[c] = "subLeaf"
                 /\ Initialised(Epoch(seqtRead[c]))
              \/ /\ cpc[c] \in {"valEs", "valSeqt", "valWt", "valNext"}
                 /\ \/ cpc'[c] = "unpinInvalid" /\ SameScan(c)
                    \/ RoundOver(c)
<1> USE ConsumerFunctions, SameScanStep
<1>0. ASSUME Invalid(c) PROVE (cpc'[c] = "unpinInvalid" /\ SameScan(c)) \/ RoundOver(c)
  <2>1. CASE candFresh[c]
    BY <1>0, <2>1 DEF Invalid, Goto
  <2>2. CASE ~candFresh[c]
    BY <1>0, <2>2, NextRoundEnds DEF Invalid
  <2>3. QED
    BY <2>1, <2>2
<1>1. CASE ValidateEs(c)
  <2>1. cpc[c] = "valEs" /\ subs'[c] = subs[c]
    BY <1>1 DEF ValidateEs
  <2>2. CASE Es[Slot(at[c])] = at[c]
    BY <1>1, <2>1, <2>2 DEF ValidateEs, Goto
  <2>3. CASE ~(Es[Slot(at[c])] = at[c])
    BY <1>0, <1>1, <2>1, <2>3 DEF ValidateEs
  <2>4. QED
    BY <2>2, <2>3
<1>2. CASE ValidateSeqt(c)
  <2>1. cpc[c] = "valSeqt" /\ subs'[c] = subs[c]
    BY <1>2 DEF ValidateSeqt
  <2>2. CASE SqCs[Slot(at[c])] # 0 /\ Epoch(Seqt[Slot(at[c])]) \in at[c] .. at[c] + K - 1
    <3>1. /\ seqtRead'[c] = Seqt[Slot(at[c])] /\ sqRead'[c] = SqCs[Slot(at[c])]
          /\ cpc'[c] = "valWt" /\ at'[c] = at[c] /\ probe'[c] = probe[c]
      BY <1>2, <2>2 DEF ValidateSeqt, Goto, Set
    <3>2. at[c] \in Nat /\ K \in Nat
      BY GeometryAssumption
    <3>3. at[c] <= Epoch(Seqt[Slot(at[c])]) /\ Epoch(Seqt[Slot(at[c])]) < at[c] + K
      BY <2>2, <3>2
    <3>4. QED
      BY <2>1, <2>2, <3>1, <3>3
  <2>3. CASE ~(SqCs[Slot(at[c])] # 0 /\ Epoch(Seqt[Slot(at[c])]) \in at[c] .. at[c] + K - 1)
    BY <1>0, <1>2, <2>1, <2>3 DEF ValidateSeqt
  <2>4. QED
    BY <2>2, <2>3
<1>3. CASE ValidateWt(c)
  <2>1. cpc[c] = "valWt" /\ subs'[c] = subs[c]
    BY <1>3 DEF ValidateWt
  <2>2. CASE Epoch(Wt) < at[c] + K
    BY <1>3, <2>1, <2>2 DEF ValidateWt, Goto
  <2>3. CASE ~(Epoch(Wt) < at[c] + K)
    BY <1>0, <1>3, <2>1, <2>3 DEF ValidateWt
  <2>4. QED
    BY <2>2, <2>3
<1>4. CASE ValidateNext(c)
  <2>1. cpc[c] = "valNext" /\ subs'[c] = subs[c]
    BY <1>4 DEF ValidateNext
  <2>2. CASE Es[Slot(Epoch(seqtRead[c]))] = Epoch(seqtRead[c])
    BY <1>4, <2>1, <2>2 DEF ValidateNext, Goto, Initialised
  <2>3. CASE ~(Es[Slot(Epoch(seqtRead[c]))] = Epoch(seqtRead[c]))
    BY <1>0, <1>4, <2>1, <2>3 DEF ValidateNext
  <2>4. QED
    BY <2>2, <2>3
<1>5. QED
  BY <1>1, <1>2, <1>3, <1>4

LEMMA UnpinSteps ==
    ASSUME TypeInv, NEW c \in Consumers, UnpinCandidate(c)
    PROVE  /\ subs'[c] = subs[c] \ {Slot(at[c])}
           /\ \/ cpc[c] = "unpinCand" /\ Scanned(c)
              \/ cpc[c] = "unpinInvalid" /\ RoundOver(c)
<1> USE ConsumerFunctions
<1>1. subs'[c] = subs[c] \ {Slot(at[c])}
  BY DEF UnpinCandidate, Unpin, Set
<1>2. CASE cpc[c] = "unpinCand"
  BY <1>1, <1>2, ScanOnScans DEF UnpinCandidate
<1>3. CASE cpc[c] # "unpinCand"
  BY <1>1, <1>3, NextRoundEnds DEF UnpinCandidate
<1>4. QED
  BY <1>2, <1>3

LEMMA AttachStep ==
    ASSUME TypeInv, NEW c \in Consumers, Attach(c)
    PROVE  /\ cpc[c] = "subLeaf" /\ cpc'[c] \in {"subRoot", "unpinAll"}
           /\ SameScan(c) /\ subs'[c] = subs[c] /\ SameCursors(c) /\ SameClaim(c) /\ ret'[c] = ret[c]
           /\ nextSeq'[c] = seqtRead[c] /\ oldestEi'[c] = at[c] /\ newestEi'[c] = at[c]
  BY ConsumerFunctions DEF Attach, IncLeaf, Goto, Set, SameScan, SameCursors, SameClaim,
      attemptVars, claimVars

LEMMA AttachedSteps ==
    ASSUME TypeInv, NEW c \in Consumers,
           AttachRoot(c) \/ UnpinAll(c) \/ Subscribed(c) \/ RetrySubscribe(c)
    PROVE  \/ /\ cpc[c] = "subRoot" /\ cpc'[c] = "unpinAll" /\ subs'[c] = subs[c] /\ at'[c] = at[c]
           \/ /\ cpc[c] \in {"unpinAll", "retry"} /\ cpc'[c] = cpc[c] /\ at'[c] = at[c]
              /\ subs[c] # {} /\ subs'[c] = subs[c] \ {LowestSub(c)}
           \/ cpc[c] = "unpinAll" /\ cpc'[c] = "ready" /\ subs'[c] = subs[c]
           \/ cpc[c] = "retry" /\ cpc'[c] = "off" /\ subs'[c] = subs[c]
<1> USE ConsumerFunctions
<1>1. CASE AttachRoot(c)
  BY <1>1 DEF AttachRoot, Goto, attemptVars
<1>2. CASE UnpinAll(c)
  BY <1>2 DEF UnpinAll, Unpin, Set
<1>3. CASE Subscribed(c) \/ RetrySubscribe(c)
  BY <1>3 DEF Subscribed, RetrySubscribe, Goto
<1>4. QED
  BY <1>1, <1>2, <1>3

-----------------------------------------------------------------------------
(* Protection in a view's step.                                            *)

(* A view's step, by what it is about.                                     *)
EnterStep(c) == CountConsumer(c) \/ RefuseConsumer(c) \/ ProbeTail(c) \/ PinTail(c)

CandidateStep(c) == Hint(c) \/ PinCandidate(c) \/ CandidateEs(c) \/ CandidateRt(c)

ValidateStep(c) == ValidateEs(c) \/ ValidateSeqt(c) \/ ValidateWt(c) \/ ValidateNext(c)

AttachedStep(c) == AttachRoot(c) \/ UnpinAll(c) \/ Subscribed(c) \/ RetrySubscribe(c)

LeavingStep(c) == Unsubscribe(c) \/ Leave(c) \/ LeaveEpoch(c)

LEMMA ConsumerCases ==
    ASSUME NEW c \in Consumers, ConsumerNext(c)
    PROVE  \/ EnterStep(c) \/ CandidateStep(c) \/ ValidateStep(c) \/ UnpinCandidate(c)
           \/ Attach(c) \/ AttachedStep(c)
           \/ Poll(c) \/ MoveLeaf(c) \/ MoveRoot(c) \/ Visit(c) \/ Migrate(c) \/ Release(c)
           \/ ClearLive(c) \/ DecLeaf(c) \/ DecRoot(c) \/ LeavingStep(c) \/ Left(c)
           \/ SweepOldest(c) \/ SweepPosition(c) \/ Walk(c) \/ EndWalk(c) \/ WorkStep(c)
  BY DEF ConsumerNext, SubscriberNext, ViewNext, EnterStep, CandidateStep, ValidateStep,
         AttachedStep, LeavingStep, WorkStep

(* What a subscription does before it attaches leaves it unattached.       *)
ScanStep(c) == EnterStep(c) \/ CandidateStep(c) \/ ValidateStep(c) \/ UnpinCandidate(c)

LEMMA ScanSteps ==
    ASSUME TypeInv, NEW c \in Consumers, ScanStep(c)
    PROVE  /\ ~Attached(c) /\ ~Attached(c)' /\ cpc[c] # "decRoot" /\ cpc'[c] # "decRoot"
           /\ SameRange(c) /\ SameCursors(c) /\ SameClaim(c) /\ nextSeq'[c] = nextSeq[c] /\ ret'[c] = ret[c]
<1>1. /\ SameRange(c) /\ SameCursors(c) /\ SameClaim(c) /\ nextSeq'[c] = nextSeq[c] /\ ret'[c] = ret[c]
  <2>1. SubscriberNext(c) /\ ~Attach(c)
    <3>1. SubscriberNext(c)
      BY DEF ScanStep, EnterStep, CandidateStep, ValidateStep, SubscriberNext
    <3>2. cpc[c] # "subLeaf"
      BY DEF ScanStep, EnterStep, CandidateStep, ValidateStep, CountConsumer, RefuseConsumer, ProbeTail,
             PinTail, Hint, PinCandidate, CandidateEs, CandidateRt, UnpinCandidate, ValidateEs,
             ValidateSeqt, ValidateWt, ValidateNext
    <3>3. QED
      BY <3>1, <3>2 DEF Attach
  <2>2. QED
    BY <2>1, SubscriberFrame
<1>2. CASE EnterStep(c)
  BY <1>1, <1>2, EnterSteps DEF EnterStep, Attached, SubscribePhases
<1>3. CASE CandidateStep(c)
  BY <1>1, <1>3, CandidateSteps DEF CandidateStep, Attached, SubscribePhases, Scanned, RoundOver
<1>4. CASE ValidateStep(c)
  BY <1>1, <1>4, ValidateSteps DEF ValidateStep, Attached, SubscribePhases, RoundOver
<1>5. CASE UnpinCandidate(c)
  BY <1>1, <1>5, UnpinSteps DEF Attached, SubscribePhases, Scanned, RoundOver
<1>6. QED
  BY <1>2, <1>3, <1>4, <1>5 DEF ScanStep

(* What a view comes to hold.                                              *)
LEMMA HeldAnew ==
    ASSUME TypeInv, RangesSound, NEW c \in Consumers, ConsumerNext(c),
           NEW d \in Consumers, NEW e \in Nat, Held(d, e)'
    PROVE  Held(d, e) \/ (d = c /\ e = at[c] /\ (Attach(c) \/ MoveLeaf(c)))
<1>0. /\ at[c] \in Nat /\ oldestEi[c] \in Nat /\ newestEi[c] \in Nat /\ cpc[c] \in CPhases
      /\ Epoch(nextSeq[c]) \in Nat /\ e \in Nat
  BY ViewTypes
<1>1. CASE d # c
  <2>1. ViewStill(d)
    BY <1>1, OthersAlone
  <2>2. QED
    BY <2>1 DEF ViewStill, Held, Holds, Attached
<1>2. ASSUME Held(c, e)', ~(e = at[c] /\ (Attach(c) \/ MoveLeaf(c))) PROVE Held(c, e)
  <2>1. \/ (cpc'[c] = "decRoot" /\ oldestEi'[c] = e)
        \/ /\ Attached(c)'
           /\ \/ e \in oldestEi'[c] .. newestEi'[c]
              \/ cpc'[c] \in {"moveLeaf", "moveRoot"} /\ e \in newestEi'[c] + 1 .. at'[c] - 1
              \/ cpc'[c] = "moveRoot" /\ e = at'[c]
    BY <1>2 DEF Held, Holds
  <2>2. CASE ScanStep(c)
    BY <2>1, <2>2, ScanSteps
  <2>3. CASE Attach(c)
    <3>1. oldestEi'[c] = at[c] /\ newestEi'[c] = at[c] /\ cpc'[c] \in {"subRoot", "unpinAll"}
      BY <2>3, AttachStep
    <3>2. QED
      BY <1>0, <1>2, <2>1, <2>3, <3>1
  <2>4. CASE AttachedStep(c)
    <3>1. SameRange(c)
      BY <2>4, SubscriberFrame DEF AttachedStep, SubscriberNext, AttachRoot, UnpinAll, Subscribed,
         RetrySubscribe, Attach
    <3>2. /\ cpc[c] \in {"subRoot", "unpinAll", "retry"} /\ cpc'[c] \in {"unpinAll", "retry", "ready", "off"}
          /\ cpc[c] = "retry" => cpc'[c] \in {"retry", "off"}
      BY <2>4, AttachedSteps DEF AttachedStep
    <3>3. QED
      BY <1>0, <2>1, <3>1, <3>2 DEF SameRange, Held, Holds, Attached, SubscribePhases
  <2>5. CASE Poll(c)
    BY <1>0, <2>1, <2>5, PollStep DEF SameView, SameRange, Held, Holds, Attached, SubscribePhases,
       Rested, RestPhases
  <2>6. CASE MoveLeaf(c)
    <3>1. e # at[c]
      BY <1>2, <2>6
    <3>2. QED
      BY <1>0, <2>1, <2>6, <3>1, MoveLeafStep DEF Held, Holds, Attached, SubscribePhases, Advanced
  <2>7. CASE MoveRoot(c)
    BY <1>0, <2>1, <2>7, MoveRootStep DEF Held, Holds, Attached, SubscribePhases, Advanced
  <2>8. CASE Visit(c)
    BY <1>0, <2>1, <2>8, VisitStep DEF SameRange, Held, Holds, Attached, SubscribePhases,
       Entered, Passed, Rested, RestPhases
  <2>9. CASE Migrate(c)
    BY <1>0, <2>1, <2>9, MigrateStep DEF SameView, SameRange, Held, Holds, Attached, SubscribePhases,
       Rested, RestPhases
  <2>10. CASE Release(c)
    BY <1>0, <2>1, <2>10, ReleaseStep DEF SameView, SameRange, Held, Holds, Attached, SubscribePhases,
       Rested, RestPhases
  <2>11. CASE ClearLive(c)
    BY <1>0, <2>1, <2>11, ClearLiveStep DEF viewVars, Held, Holds, Attached, SubscribePhases
  <2>12. CASE DecLeaf(c) \/ DecRoot(c)
    <3>1. oldestEi[c] <= newestEi[c]
      BY <2>12 DEF RangesSound, RangeSound, DecLeaf, DecRoot, Attached, SubscribePhases
    <3>2. QED
      BY <1>0, <2>1, <2>12, <3>1, DropStep DEF SameRange, Held, Holds, Attached, SubscribePhases
  <2>13. CASE LeavingStep(c)
    BY <1>0, <2>1, <2>13, LeaveSteps DEF LeavingStep, SameView, SameRange, Held, Holds, Attached,
       SubscribePhases, Rested, RestPhases
  <2>14. CASE Left(c)
    BY <1>0, <2>1, <2>14, LeftStep DEF Attached
  <2>15. CASE SweepOldest(c) \/ SweepPosition(c)
    BY <1>0, <2>1, <2>15, SweepSteps DEF SameView, SameRange, Held, Holds, Attached,
       SubscribePhases, Rested, RestPhases
  <2>16. CASE Walk(c)
    BY <1>0, <2>1, <2>16, WalkStep DEF SameRange, Held, Holds, Attached,
       SubscribePhases, WalkedPast, Entered
  <2>17. CASE EndWalk(c)
    BY <1>0, <2>1, <2>17, EndWalkStep DEF SameView, SameRange, Held, Holds, Attached,
       SubscribePhases, Rested, RestPhases
  <2>18. CASE WorkStep(c)
    BY <1>0, <2>1, <2>18, WorkSteps DEF SameRange, Held, Holds, Attached,
       SubscribePhases, ClaimPhases, Done, Passed, WalkedPast, Rested, RestPhases
  <2>19. QED
    BY <2>2, <2>3, <2>4, <2>5, <2>6, <2>7, <2>8, <2>9, <2>10, <2>11, <2>12, <2>13, <2>14, <2>15,
       <2>16, <2>17, <2>18, ConsumerCases DEF ScanStep
<1>3. QED
  BY <1>1, <1>2

(* What an attached view does, short of leaving, leaves it attached.       *)
LEMMA ViewSteps ==
    ASSUME TypeInv, NEW c \in Consumers, ConsumerNext(c),
           ~ScanStep(c), ~Attach(c), ~AttachedStep(c), ~Left(c)
    PROVE  Attached(c) /\ Attached(c)' /\ cpc'[c] \notin {"subRoot", "unpinAll"}
           /\ cpc[c] \notin {"subRoot", "unpinAll"}
<1>5. CASE Poll(c)
  BY <1>5, PollStep DEF Attached, SubscribePhases, Rested, RestPhases
<1>6. CASE MoveLeaf(c)
  BY <1>6, MoveLeafStep DEF Attached, SubscribePhases, Advanced
<1>7. CASE MoveRoot(c)
  BY <1>7, MoveRootStep DEF Attached, SubscribePhases, Advanced
<1>8. CASE Visit(c)
  BY <1>8, VisitStep DEF Attached, SubscribePhases, Entered, Passed, Rested, RestPhases
<1>9. CASE Migrate(c)
  BY <1>9, MigrateStep DEF Attached, SubscribePhases, Rested, RestPhases
<1>10. CASE Release(c)
  BY <1>10, ReleaseStep DEF Attached, SubscribePhases, Rested, RestPhases
<1>11. CASE ClearLive(c)
  BY <1>11, ClearLiveStep DEF Attached, SubscribePhases
<1>12. CASE DecLeaf(c) \/ DecRoot(c)
  BY <1>12, DropStep DEF Attached, SubscribePhases
<1>13. CASE LeavingStep(c)
  BY <1>13, LeaveSteps DEF LeavingStep, Attached, SubscribePhases, Rested, RestPhases
<1>15. CASE SweepOldest(c) \/ SweepPosition(c)
  BY <1>15, SweepSteps DEF Attached, SubscribePhases, Rested, RestPhases
<1>16. CASE Walk(c)
  BY <1>16, WalkStep DEF Attached, SubscribePhases, WalkedPast, Entered
<1>17. CASE EndWalk(c)
  BY <1>17, EndWalkStep DEF Attached, SubscribePhases, Rested, RestPhases
<1>18. CASE WorkStep(c)
  BY <1>18, WorkSteps DEF Attached, SubscribePhases, ClaimPhases, Done, Passed, WalkedPast,
     Rested, RestPhases
<1>19. QED
  BY <1>5, <1>6, <1>7, <1>8, <1>9, <1>10, <1>11, <1>12, <1>13, <1>15,
     <1>16, <1>17, <1>18, ConsumerCases DEF ScanStep

LEMMA AttachedStays ==
    ASSUME TypeInv, NEW c \in Consumers, AttachedStep(c)
    PROVE  /\ SameRange(c) /\ SameCursors(c) /\ SameClaim(c) /\ nextSeq'[c] = nextSeq[c] /\ ret'[c] = ret[c]
           /\ cpc[c] \in {"subRoot", "unpinAll", "retry"} /\ cpc'[c] \in {"unpinAll", "retry", "ready", "off"}
           /\ cpc[c] = "retry" <=> cpc'[c] \in {"retry", "off"}
<1>1. SubscriberNext(c) /\ ~Attach(c)
  BY DEF AttachedStep, SubscriberNext, AttachRoot, UnpinAll, Subscribed, RetrySubscribe, Attach
<1>2. QED
  BY <1>1, SubscriberFrame, AttachedSteps DEF AttachedStep

(* A subscription that sees Live under its pin, and then a Seqt of the     *)
(* window, has seen its candidate.                                         *)
LEMMA LitSeen ==
    ASSUME Inv, NEW c \in Consumers, cpc[c] = "candRt", Live[Slot(at[c])],
           Epoch(Seqt[Slot(at[c])]) < at[c] + K
    PROVE  Lit(at[c])
<1>0. /\ TypeInv /\ Layout /\ QuotaSound /\ InitsSound /\ PendingStale /\ SlotsSound /\ AttemptsInv
      /\ at[c] \in Nat /\ Slot(at[c]) \in Slots /\ K \in Nat
      /\ Es[Slot(at[c])] \in Int /\ Seqt[Slot(at[c])] \in Nat /\ Epoch(Seqt[Slot(at[c])]) \in Nat
  BY ViewTypes, StatTypes, EpochType DEF Inv, Base, EpochInv, ViewInv
<1>1. Es[Slot(at[c])] >= at[c]
  BY <1>0 DEF AttemptsInv, AttemptSound
<1>2. Slot(Es[Slot(at[c])]) = Slot(at[c]) /\ Es[Slot(at[c])] <= Epoch(Seqt[Slot(at[c])])
  BY <1>0, <1>1 DEF SlotsSound, SlotSound
<1>3. PICK e \in Nat : e = Es[Slot(at[c])]
  BY <1>0, <1>1
<1>4. Slot(e) = Slot(at[c]) /\ e < at[c] + K /\ at[c] < e + K
  BY <1>0, <1>1, <1>2, <1>3, GeometryAssumption
<1>5. e = at[c]
  BY <1>0, <1>4, SlotsApart
<1>6. ASSUME NEW q \in Producers, ppc[q] = "es", Slot(fresh[q]) = Slot(at[c]) PROVE FALSE
  <2>1. ppc[q] \in Crossing
    BY <1>6 DEF Crossing
  <2>2. /\ fresh[q] \in Nat /\ Es[Slot(fresh[q])] < fresh[q]
        /\ Seqt[Slot(fresh[q])] = wtprime(q) /\ fresh[q] <= Epoch(wtprime(q))
    BY <1>0, <1>6, <2>1, FreshPending DEF InitsSound
  <2>a. Es[Slot(fresh[q])] = at[c] /\ wtprime(q) = Seqt[Slot(at[c])]
    BY <1>3, <1>5, <1>6, <2>2
  <2>b. Epoch(wtprime(q)) < at[c] + K /\ Epoch(wtprime(q)) \in Nat
    BY <1>0, <2>a
  <2>3. at[c] < fresh[q] /\ fresh[q] < at[c] + K
    BY <1>0, <2>2, <2>a, <2>b
  <2>4. fresh[q] = at[c]
    BY <1>0, <1>6, <2>2, <2>3, SlotsApart
  <2>5. QED
    BY <1>0, <2>3, <2>4
<1>7. QED
  BY <1>3, <1>5, <1>6 DEF Lit, Initialised

LEMMA ClaimsAnew ==
    ASSUME Inv, NEW c \in Consumers, ConsumerNext(c), UNCHANGED producerVars,
           NEW d \in Consumers, NEW e \in Nat, Claims(d, e)'
    PROVE  Claims(d, e) \/ Lit(e)
<1>0. /\ TypeInv /\ Seqt' = Seqt /\ cpc[c] \in CPhases /\ at[c] \in Nat /\ seqtRead[c] \in Nat
      /\ Epoch(seqtRead[c]) \in Nat
  BY ConsumerFrame, ViewTypes DEF Inv, Base
<1>1. CASE d # c
  <2>1. ViewStill(d)
    BY <1>0, <1>1, OthersAlone
  <2>2. QED
    BY <1>0, <2>1 DEF ViewStill, Claims
<1>2. ASSUME Claims(c, e)', d = c PROVE Claims(c, e) \/ Lit(e)
  <2>1. /\ at'[c] = e
        /\ \/ cpc'[c] \in {"valWt", "valNext", "subLeaf"}
           \/ cpc'[c] \in {"valEs", "valSeqt"} /\ Epoch(Seqt[Slot(e)]) < e + K
    BY <1>0, <1>2 DEF Claims
  <2>2. CASE EnterStep(c)
    BY <1>0, <2>1, <2>2, EnterSteps DEF EnterStep
  <2>3. CASE CandidateStep(c)
    <3>1. cpc[c] = "candRt" /\ at[c] = e /\ Live[Slot(at[c])] /\ Epoch(Seqt[Slot(e)]) < e + K
      BY <1>0, <2>1, <2>3, CandidateSteps DEF CandidateStep, SameScan, Scanned, RoundOver
    <3>2. QED
      BY <3>1, LitSeen
  <2>4. CASE ValidateStep(c)
    BY <1>0, <2>1, <2>4, ValidateSteps DEF ValidateStep, SameScan, RoundOver, Claims
  <2>5. CASE UnpinCandidate(c)
    BY <1>0, <2>1, <2>5, UnpinSteps DEF Scanned, RoundOver
  <2>6. CASE Attach(c)
    BY <1>0, <2>1, <2>6, AttachStep
  <2>7. CASE AttachedStep(c)
    BY <1>0, <2>1, <2>7, AttachedStays
  <2>8. CASE Left(c)
    BY <1>0, <2>1, <2>8, LeftStep
  <2>9. CASE ~ScanStep(c) /\ ~Attach(c) /\ ~AttachedStep(c) /\ ~Left(c)
    <3>1. Attached(c)'
      BY <1>0, <2>9, ViewSteps
    <3>2. QED
      BY <2>1, <3>1 DEF Attached, SubscribePhases
  <2>10. QED
    BY <2>2, <2>3, <2>4, <2>5, <2>6, <2>7, <2>8, <2>9 DEF ScanStep
<1>3. QED
  BY <1>1, <1>2

LEMMA LitStill ==
    ASSUME TypeInv, NEW c \in Consumers, ConsumerNext(c), UNCHANGED producerVars,
           NEW e \in Nat, Lit(e)'
    PROVE  Lit(e)
<1>1. Es' = Es /\ ppc' = ppc /\ fresh' = fresh /\ Slot(e) \in Slots
  BY ConsumerFrame, ConsumerLayout, StatTypes
<1>2. Live'[Slot(e)] => Live[Slot(e)]
  BY <1>1, ConsumerFrame, ClearLiveStep
<1>3. QED
  BY <1>1, <1>2 DEF Lit, Initialised

(* A view about to pin an epoch holds an older one.                        *)
LEMMA PinnedSafe ==
    ASSUME TypeInv, Layout, WritersSound, QuotaSound, RangesSound,
           NEW c \in Consumers, cpc[c] \in Moving
    PROVE  Safe(at[c]) /\ at[c] <= Epoch(Wt) /\ oldestEi[c] < at[c] /\ oldestEi[c] <= newestEi[c]
           /\ newestEi[c] < at[c] /\ at[c] <= Epoch(nextSeq[c])
           /\ Held(c, oldestEi[c])
<1>0. at[c] \in Nat /\ oldestEi[c] \in Nat /\ newestEi[c] \in Nat /\ nextSeq[c] \in Nat /\ Wt \in Nat
      /\ Epoch(nextSeq[c]) \in Nat /\ Epoch(Wt) \in Nat
  BY ViewTypes, LayoutTypes, EpochType
<1>1. Attached(c) /\ cpc[c] # "leaving"
  BY DEF Moving, Attached, SubscribePhases
<1>2. oldestEi[c] <= newestEi[c] /\ newestEi[c] < at[c] /\ at[c] <= Epoch(nextSeq[c]) /\ nextSeq[c] <= Wt
  BY <1>1 DEF RangesSound, RangeSound
<1>3. Held(c, oldestEi[c])
  BY <1>0, <1>1, <1>2, RangeHeld
<1>4. Safe(oldestEi[c])
  BY <1>0, <1>3 DEF QuotaSound, Protected, Kept
<1>5. oldestEi[c] <= at[c] /\ oldestEi[c] < at[c]
  BY <1>0, <1>2
<1>6. Safe(at[c])
  BY <1>0, <1>4, <1>5, SafeUpward
<1>7. Epoch(nextSeq[c]) <= Epoch(Wt)
  BY <1>0, <1>2, EpochMonotone
<1>8. QED
  BY <1>0, <1>2, <1>3, <1>5, <1>6, <1>7

LEMMA KeptAnew ==
    ASSUME Inv, NEW c \in Consumers, ConsumerNext(c), UNCHANGED producerVars,
           NEW e \in Nat, Kept(e)'
    PROVE  Kept(e) \/ (MoveLeaf(c) /\ e = at[c])
<1>0. TypeInv /\ RangesSound
  BY DEF Inv, Base, ViewInv
<1>1. CASE Lit(e)'
  BY <1>0, <1>1, LitStill DEF Kept
<1>2. ASSUME NEW d \in Consumers, Claims(d, e)' PROVE Kept(e)
  BY <1>2, ClaimsAnew DEF Kept
<1>3. ASSUME NEW d \in Consumers, Held(d, e)' PROVE Kept(e) \/ (MoveLeaf(c) /\ e = at[c])
  <2>1. Held(d, e) \/ (e = at[c] /\ (Attach(c) \/ MoveLeaf(c)))
    BY <1>0, <1>3, HeldAnew
  <2>2. ASSUME e = at[c], Attach(c) PROVE Claims(c, e)
    BY <2>2 DEF Attach, Claims
  <2>3. QED
    BY <2>1, <2>2 DEF Kept
<1>4. QED
  BY <1>1, <1>2, <1>3 DEF Kept

LEMMA ConsumerQuota ==
    ASSUME Inv, NEW c \in Consumers, ConsumerNext(c), UNCHANGED producerVars
    PROVE  QuotaSound' /\ KeptSound'
<1>0. /\ TypeInv /\ Layout /\ WritersSound /\ QuotaSound /\ KeptSound /\ RangesSound
      /\ SameQuota /\ Wt' = Wt /\ \A e : Initialised(e)' = Initialised(e)
  BY ConsumerLayout, ConsumerFrame DEF Inv, Base, ViewInv
<1>1. ASSUME NEW e \in Nat, Protected(e)' PROVE e <= Epoch(Wt) /\ Safe(e)
  <2>1. Protected(e) \/ (MoveLeaf(c) /\ e = at[c])
    BY <1>0, <1>1, KeptAnew, WorkedStill DEF Protected
  <2>2. CASE MoveLeaf(c) /\ e = at[c]
    <3>1. cpc[c] \in Moving
      BY <2>2 DEF MoveLeaf, Moving
    <3>2. QED
      BY <1>0, <2>2, <3>1, PinnedSafe
  <2>3. QED
    BY <1>0, <2>1, <2>2 DEF QuotaSound
<1>2. QuotaSound'
  <2>1. ASSUME NEW e \in Nat, Protected(e)' PROVE e <= Epoch(Wt)' /\ Safe(e)'
    BY <1>0, <1>1, <2>1, SameQuotaKeeps
  <2>2. QED
    BY <2>1 DEF QuotaSound
<1>3. KeptSound'
  <2>1. ASSUME NEW e \in Nat, Kept(e)' PROVE Initialised(e)
    <3>1. Kept(e) \/ (MoveLeaf(c) /\ e = at[c])
      BY <2>1, KeptAnew
    <3>2. ASSUME MoveLeaf(c), e = at[c] PROVE Initialised(e)
      BY <3>2 DEF MoveLeaf, MoveChecks, Initialised
    <3>3. QED
      BY <1>0, <3>1, <3>2 DEF KeptSound
  <2>2. QED
    BY <1>0, <2>1 DEF KeptSound
<1>4. QED
  BY <1>2, <1>3

-----------------------------------------------------------------------------
(* Subscriptions.                                                          *)

(* What a scan passes over has no work left.                               *)
LEMMA UnseenIdle ==
    ASSUME Inv, NEW c \in Consumers, cpc[c] \in Scanning, Unseen(c)
    PROVE  ~Worked(at[c])
<1>0. /\ TypeInv /\ Layout /\ QuotaSound /\ EpochsBegun /\ WorkLit /\ AttemptsInv
      /\ at[c] \in Nat
  BY ViewTypes DEF Inv, Base, EpochInv, ViewInv
<1>1. SUFFICES ASSUME Worked(at[c]) PROVE FALSE
  OBVIOUS
<1>2. Protected(at[c])
  BY <1>1 DEF Protected
<1>3. InWindow(at[c])
  BY <1>0, <1>2, Windows
<1>4. ~Initialised(at[c])
  BY <1>0, <1>1 DEF WorkLit, Unseen
<1>5. PICK p \in Producers : Pending(p, at[c])
  BY <1>0, <1>3, <1>4 DEF EpochsBegun
<1>6. Writing(p) /\ Epoch(wret[p]) < at[c]
  BY <1>5 DEF Pending, Crosses
<1>7. Epoch(wret[p]) \in Nat /\ Worked(Epoch(wret[p]))
  BY <1>0, <1>6, LayoutTypes, EpochType DEF Worked
<1>8. Epoch(wret[p]) >= at[c]
  BY <1>0, <1>7 DEF AttemptsInv, AttemptSound
<1>9. QED
  BY <1>0, <1>6, <1>7, <1>8

LEMMA ScanSound ==
    ASSUME Inv, NEW c \in Consumers, UNCHANGED Wt, AttemptSound(c),
           \A e \in Nat : Worked(e)' => Worked(e),
           Scanned(c), cpc[c] \in Scanning, ~Worked(at[c]) \/ cpc[c] = "unpinCand",
           ~Attached(c)' => sweepSeq'[c] = 0 /\ oldSweepSeq'[c] = 0
    PROVE  AttemptSound(c)'
<1>0. at[c] \in Nat /\ probe[c] \in Nat /\ Epoch(Wt) \in Nat
  BY ViewTypes, LayoutTypes, EpochType DEF Inv, Base
<1>1. CASE RoundOver(c)
  BY <1>1 DEF AttemptSound, RoundOver, Scanning, Candidate, Validated
<1>2. CASE at[c] < probe[c] /\ at'[c] = at[c] + 1 /\ probe'[c] = probe[c] /\ cpc'[c] = "hint"
  <2>1. ASSUME NEW e \in Nat, Worked(e)' PROVE e >= at[c] + 1
    <3>1. Worked(e)
      BY <2>1
    <3>2. e >= at[c]
      BY <3>1 DEF AttemptSound
    <3>3. CASE ~Worked(at[c])
      <4>1. e # at[c]
        BY <3>1, <3>3
      <4>2. QED
        BY <1>0, <3>2, <4>1
    <3>4. CASE cpc[c] = "unpinCand"
      <4>1. e > at[c]
        BY <1>2, <3>1, <3>4 DEF AttemptSound
      <4>2. QED
        BY <1>0, <4>1
    <3>5. QED
      BY <3>3, <3>4
  <2>2. probe[c] <= Epoch(Wt) /\ at'[c] <= probe'[c]
    BY <1>0, <1>2 DEF AttemptSound
  <2>3. cpc'[c] = "hint" /\ at'[c] = at[c] + 1 /\ probe'[c] = probe[c]
    BY <1>2
  <2>4. QED
    BY <2>1, <2>2, <2>3 DEF AttemptSound, Scanning, Candidate, Validated
<1>3. QED
  BY <1>1, <1>2 DEF Scanned

LEMMA EnterAttempts ==
    ASSUME Inv, NEW c \in Consumers, UNCHANGED Wt, AttemptSound(c),
           \A e \in Nat : Worked(e)' => Worked(e), EnterStep(c),
           sweepSeq'[c] = sweepSeq[c], oldSweepSeq'[c] = oldSweepSeq[c]
    PROVE  AttemptSound(c)'
<1>0. /\ at[c] \in Nat /\ probe[c] \in Nat /\ Wt \in Nat /\ Epoch(Wt) \in Nat /\ K \in Nat
      /\ TypeInv /\ Layout /\ QuotaSound
  BY ViewTypes, LayoutTypes, EpochType, GeometryAssumption DEF Inv, Base
<1>1. sweepSeq[c] = 0 /\ oldSweepSeq[c] = 0
  <2>1. ~Attached(c)
    BY <1>0, ScanSteps DEF ScanStep
  <2>2. QED
    BY <2>1 DEF AttemptSound
<1>2. CASE cpc'[c] \in {"full", "probe", "off"}
  BY <1>1, <1>2 DEF AttemptSound, Scanning, Candidate, Validated
<1>3. CASE cpc[c] = "probe" /\ cpc'[c] = "pin" /\ probe'[c] = Epoch(Wt)
  BY <1>0, <1>1, <1>3 DEF AttemptSound, Scanning, Candidate, Validated
<1>4. CASE /\ cpc[c] = "pin" /\ cpc'[c] = "hint" /\ probe'[c] = probe[c]
           /\ at'[c] = WindowStart(probe[c])
  <2>1. probe[c] <= Epoch(Wt)
    BY <1>4 DEF AttemptSound
  <2>2. at'[c] <= probe[c]
    BY <1>0, <1>4, GeometryAssumption DEF WindowStart
  <2>3. ASSUME NEW e \in Nat, Worked(e)' PROVE e >= at'[c]
    <3>1. InWindow(e)
      BY <1>0, <2>3, Windows DEF Protected
    <3>2. QED
      BY <1>0, <1>4, <2>1, <3>1 DEF InWindow, WindowStart
  <2>4. cpc'[c] = "hint" /\ probe'[c] = probe[c]
    BY <1>4
  <2>5. QED
    BY <1>1, <2>1, <2>2, <2>3, <2>4 DEF AttemptSound, Scanning, Candidate, Validated
<1>5. QED
  BY <1>0, <1>2, <1>3, <1>4, EnterSteps DEF EnterStep

LEMMA CandidateAttempts ==
    ASSUME Inv, NEW c \in Consumers, UNCHANGED <<Wt, Es, Seqt, SqCs>>, AttemptSound(c),
           \A e \in Nat : Worked(e)' => Worked(e), CandidateStep(c),
           sweepSeq'[c] = sweepSeq[c], oldSweepSeq'[c] = oldSweepSeq[c]
    PROVE  AttemptSound(c)'
<1>0. /\ at[c] \in Nat /\ probe[c] \in Nat /\ Slot(at[c]) \in Slots /\ TypeInv
  BY ViewTypes DEF Inv, Base
<1>1. sweepSeq[c] = 0 /\ oldSweepSeq[c] = 0
  <2>1. ~Attached(c)
    BY <1>0, ScanSteps DEF ScanStep
  <2>2. QED
    BY <2>1 DEF AttemptSound
<1>2. cpc[c] \in {"hint", "pinCand", "candEs", "candRt"} /\ cpc[c] \in Scanning
  BY <1>0, CandidateSteps DEF CandidateStep, Scanning, Candidate
<1>3. CASE Scanned(c) /\ Unseen(c)
  BY <1>1, <1>2, <1>3, UnseenIdle, ScanSound
<1>4. CASE cpc'[c] = "unpinCand" /\ SameScan(c) /\ Unseen(c) /\ subs'[c] = subs[c]
           /\ cpc[c] \in {"candEs", "candRt"}
  <2>1. ~Worked(at[c])
    BY <1>2, <1>4, UnseenIdle
  <2>2. ASSUME NEW e \in Nat, Worked(e)' PROVE e > at[c]
    <3>1. Worked(e) /\ e # at[c]
      BY <2>1, <2>2
    <3>2. e >= at[c]
      BY <1>2, <3>1 DEF AttemptSound
    <3>3. QED
      BY <1>0, <3>1, <3>2
  <2>3. Slot(at[c]) \in subs[c] /\ probe[c] <= Epoch(Wt) /\ at[c] <= probe[c]
    BY <1>2, <1>4 DEF AttemptSound, Candidate
  <2>4. at'[c] = at[c] /\ probe'[c] = probe[c] /\ cpc'[c] = "unpinCand" /\ subs'[c] = subs[c]
    BY <1>4 DEF SameScan
  <2>5. \A e \in Nat : Worked(e)' => e >= at[c]
    BY <1>0, <2>2
  <2>6. QED
    BY <1>1, <2>2, <2>3, <2>4, <2>5 DEF AttemptSound, Scanning, Candidate, Validated
<1>5. CASE /\ SameScan(c) /\ cpc'[c] \in {"pinCand", "candEs", "candRt", "valEs"}
           /\ cpc'[c] \in Candidate => Slot(at[c]) \in subs'[c]
           /\ cpc'[c] \in {"candRt", "valEs"} => Es[Slot(at[c])] >= at[c]
  <2>1. at'[c] = at[c] /\ probe'[c] = probe[c]
    BY <1>5 DEF SameScan
  <2>2. /\ probe[c] <= Epoch(Wt) /\ at[c] <= probe[c]
        /\ \A e \in Nat : Worked(e)' => e >= at[c]
    BY <1>2 DEF AttemptSound
  <2>3. QED
    BY <1>1, <1>5, <2>1, <2>2 DEF AttemptSound, Scanning, Candidate, Validated
<1>6. \/ cpc[c] = "hint" /\ cpc'[c] = "pinCand" /\ SameScan(c) /\ subs'[c] = subs[c]
      \/ cpc[c] = "hint" /\ Scanned(c) /\ Unseen(c) /\ subs'[c] = subs[c]
      \/ /\ cpc[c] = "pinCand" /\ cpc'[c] = "candEs" /\ SameScan(c)
         /\ subs'[c] = subs[c] \cup {Slot(at[c])}
      \/ /\ cpc[c] = "candEs" /\ cpc'[c] = "candRt" /\ SameScan(c) /\ subs'[c] = subs[c]
         /\ Initialised(at[c])
      \/ /\ cpc[c] = "candRt" /\ cpc'[c] = "valEs" /\ SameScan(c) /\ subs'[c] = subs[c]
         /\ Live[Slot(at[c])]
      \/ /\ cpc[c] \in {"candEs", "candRt"} /\ Unseen(c) /\ subs'[c] = subs[c]
         /\ \/ cpc'[c] = "unpinCand" /\ SameScan(c)
            \/ Scanned(c)
  BY <1>0, CandidateSteps DEF CandidateStep, Unseen
<1>7. CASE /\ cpc[c] = "candEs" /\ cpc'[c] = "candRt" /\ SameScan(c) /\ subs'[c] = subs[c]
           /\ Initialised(at[c])
  <2>1. Slot(at[c]) \in subs[c] /\ Es[Slot(at[c])] >= at[c]
    BY <1>0, <1>7 DEF AttemptSound, Candidate, Initialised
  <2>2. QED
    BY <1>5, <1>7, <2>1
<1>8. CASE /\ cpc[c] = "candRt" /\ cpc'[c] = "valEs" /\ SameScan(c) /\ subs'[c] = subs[c]
  <2>1. Slot(at[c]) \in subs[c] /\ Es[Slot(at[c])] >= at[c]
    BY <1>0, <1>8 DEF AttemptSound, Candidate
  <2>2. QED
    BY <1>5, <1>8, <2>1
<1>9. CASE cpc[c] = "hint" /\ cpc'[c] = "pinCand" /\ SameScan(c)
  BY <1>5, <1>9 DEF Candidate
<1>10. CASE /\ cpc[c] = "pinCand" /\ cpc'[c] = "candEs" /\ SameScan(c)
            /\ subs'[c] = subs[c] \cup {Slot(at[c])}
  BY <1>5, <1>10 DEF Candidate
<1>11. QED
  BY <1>3, <1>4, <1>6, <1>7, <1>8, <1>9, <1>10

LEMMA ValidateAttempts ==
    ASSUME Inv, NEW c \in Consumers, UNCHANGED <<Wt, Es, Seqt, SqCs>>, AttemptSound(c),
           \A e \in Nat : Worked(e)' => Worked(e), ValidateStep(c),
           sweepSeq'[c] = sweepSeq[c], oldSweepSeq'[c] = oldSweepSeq[c]
    PROVE  AttemptSound(c)'
<1>0. /\ at[c] \in Nat /\ probe[c] \in Nat /\ Slot(at[c]) \in Slots /\ TypeInv
      /\ seqtRead[c] \in Nat /\ Epoch(seqtRead[c]) \in Nat /\ KeptSound
  BY ViewTypes DEF Inv, Base, ViewInv
<1>1. sweepSeq[c] = 0 /\ oldSweepSeq[c] = 0
  <2>1. ~Attached(c)
    BY <1>0, ScanSteps DEF ScanStep
  <2>2. QED
    BY <2>1 DEF AttemptSound
<1>2. /\ subs'[c] = subs[c] /\ cpc[c] \in {"valEs", "valSeqt", "valWt", "valNext"}
      /\ Slot(at[c]) \in subs[c] /\ probe[c] <= Epoch(Wt) /\ at[c] <= probe[c]
      /\ \A e \in Nat : Worked(e)' => e >= at[c]
  BY <1>0, ValidateSteps DEF ValidateStep, AttemptSound, Candidate, Scanning
<1>3. CASE RoundOver(c)
  BY <1>1, <1>3 DEF AttemptSound, RoundOver, Scanning, Candidate, Validated
<1>4. CASE cpc'[c] = "unpinInvalid" /\ SameScan(c)
  <2>1. at'[c] = at[c] /\ probe'[c] = probe[c]
    BY <1>4 DEF SameScan
  <2>2. QED
    BY <1>1, <1>2, <1>4, <2>1 DEF AttemptSound, Scanning, Candidate, Validated
<1>5. CASE cpc[c] = "valEs" /\ cpc'[c] = "valSeqt" /\ SameScan(c)
  <2>1. at'[c] = at[c] /\ probe'[c] = probe[c] /\ Es[Slot(at[c])] >= at[c]
    BY <1>5 DEF SameScan, AttemptSound
  <2>2. QED
    BY <1>1, <1>2, <1>5, <2>1 DEF AttemptSound, Scanning, Candidate, Validated
<1>6. CASE /\ cpc[c] = "valSeqt" /\ cpc'[c] = "valWt" /\ at'[c] = at[c] /\ probe'[c] = probe[c]
           /\ at[c] <= Epoch(Seqt[Slot(at[c])])
           /\ seqtRead'[c] = Seqt[Slot(at[c])] /\ sqRead'[c] = SqCs[Slot(at[c])]
  BY <1>1, <1>2, <1>6 DEF AttemptSound, Scanning, Candidate, Validated
<1>7. CASE /\ cpc[c] \in {"valWt", "valNext"} /\ SameScan(c) /\ cpc'[c] \in {"valNext", "subLeaf"}
           /\ cpc'[c] = "subLeaf" => Initialised(Epoch(seqtRead[c]))
  <2>1. at'[c] = at[c] /\ probe'[c] = probe[c] /\ seqtRead'[c] = seqtRead[c] /\ sqRead'[c] = sqRead[c]
    BY <1>7 DEF SameScan
  <2>2. /\ seqtRead[c] = Seqt[Slot(at[c])] /\ sqRead[c] = SqCs[Slot(at[c])]
        /\ at[c] <= Epoch(seqtRead[c])
    BY <1>7 DEF AttemptSound, Validated
  <2>3. cpc'[c] = "subLeaf" => Initialised(Epoch(seqtRead[c]))'
    BY <1>7, <2>1 DEF Initialised
  <2>4. QED
    BY <1>1, <1>2, <1>7, <2>1, <2>2, <2>3 DEF AttemptSound, Scanning, Candidate, Validated
<1>8. ASSUME cpc[c] = "valWt", ~(Epoch(seqtRead[c]) > at[c]) PROVE Initialised(Epoch(seqtRead[c]))
  <2>1. Epoch(seqtRead[c]) = at[c]
    <3>1. at[c] <= Epoch(seqtRead[c])
      BY <1>8 DEF AttemptSound, Validated
    <3>2. QED
      BY <1>0, <1>8, <3>1
  <2>2. Kept(at[c])
    BY <1>8 DEF Kept, Claims
  <2>3. QED
    BY <1>0, <2>1, <2>2 DEF KeptSound
<1>9. CASE cpc[c] = "valWt" /\ SameScan(c) /\
           IF Epoch(seqtRead[c]) > at[c] THEN cpc'[c] = "valNext" ELSE cpc'[c] = "subLeaf"
  BY <1>7, <1>8, <1>9
<1>10. CASE cpc[c] = "valNext" /\ SameScan(c) /\ cpc'[c] = "subLeaf" /\ Initialised(Epoch(seqtRead[c]))
  BY <1>7, <1>10
<1>11. QED
  BY <1>0, <1>3, <1>4, <1>5, <1>6, <1>9, <1>10, ValidateSteps DEF ValidateStep

LEMMA AttemptStep ==
    ASSUME Inv, NEW c \in Consumers, ConsumerNext(c), UNCHANGED <<Wt, Es, Seqt, SqCs>>,
           AttemptSound(c), \A e \in Nat : Worked(e)' => Worked(e)
    PROVE  AttemptSound(c)'
<1>0. TypeInv
  BY DEF Inv, Base
<1>1. CASE ScanStep(c)
  <2>1. sweepSeq'[c] = sweepSeq[c] /\ oldSweepSeq'[c] = oldSweepSeq[c] /\ ~Attached(c)
    BY <1>0, <1>1, ScanSteps DEF SameCursors
  <2>2. CASE UnpinCandidate(c)
    <3>1. sweepSeq[c] = 0 /\ oldSweepSeq[c] = 0
      BY <2>1 DEF AttemptSound
    <3>2. CASE cpc[c] = "unpinCand" /\ Scanned(c)
      BY <2>1, <3>1, <3>2, ScanSound DEF Scanning, Candidate
    <3>3. CASE RoundOver(c)
      BY <2>1, <3>1, <3>3 DEF AttemptSound, RoundOver, Scanning, Candidate, Validated
    <3>4. QED
      BY <1>0, <2>2, <3>2, <3>3, UnpinSteps
  <2>3. QED
    BY <1>1, <2>1, <2>2, EnterAttempts, CandidateAttempts, ValidateAttempts DEF ScanStep
<1>2. CASE Attach(c)
  <2>1. /\ cpc[c] = "subLeaf" /\ cpc'[c] \in {"subRoot", "unpinAll"} /\ subs'[c] = subs[c]
        /\ at'[c] = at[c]
    BY <1>0, <1>2, AttachStep DEF SameScan
  <2>2. Slot(at[c]) \in subs[c]
    BY <2>1 DEF AttemptSound, Candidate
  <2>3. QED
    BY <2>1, <2>2 DEF AttemptSound, Scanning, Candidate, Validated, Attached
<1>3. CASE AttachedStep(c)
  <2>1. /\ sweepSeq'[c] = sweepSeq[c] /\ oldSweepSeq'[c] = oldSweepSeq[c]
        /\ cpc'[c] \in {"unpinAll", "retry", "ready", "off"}
        /\ cpc'[c] \in {"retry", "off"} => cpc[c] = "retry"
    BY <1>0, <1>3, AttachedStays DEF SameCursors
  <2>2. cpc'[c] \in {"retry", "off"} => ~Attached(c)
    BY <2>1 DEF Attached, SubscribePhases
  <2>3. cpc'[c] \in {"unpinAll", "ready"} => Attached(c)'
    BY DEF Attached, SubscribePhases
  <2>4. QED
    BY <2>1, <2>2, <2>3 DEF AttemptSound, Scanning, Candidate, Validated
<1>4. CASE Left(c)
  BY <1>0, <1>4, LeftStep DEF AttemptSound, Scanning, Candidate, Validated
<1>5. CASE ~ScanStep(c) /\ ~Attach(c) /\ ~AttachedStep(c) /\ ~Left(c)
  <2>1. Attached(c)' /\ cpc'[c] \notin {"subRoot", "unpinAll"}
    BY <1>0, <1>5, ViewSteps
  <2>2. cpc'[c] \notin SubscribePhases
    BY <2>1 DEF Attached
  <2>3. QED
    BY <2>1, <2>2 DEF AttemptSound, Scanning, Candidate, Validated, SubscribePhases
<1>6. QED
  BY <1>1, <1>2, <1>3, <1>4, <1>5

LEMMA ConsumerAttempts ==
    ASSUME Inv, NEW c \in Consumers, ConsumerNext(c), UNCHANGED producerVars
    PROVE  AttemptsInv'
<1>0. TypeInv /\ AttemptsInv /\ UNCHANGED <<Wt, Es, Seqt, SqCs>>
      /\ \A e \in Nat : Worked(e)' => Worked(e)
  BY ConsumerFrame, WorkedStill DEF Inv, Base, ViewInv
<1>1. ASSUME NEW d \in Consumers PROVE AttemptSound(d)'
  <2>1. AttemptSound(d)
    BY <1>0 DEF AttemptsInv
  <2>2. CASE d = c
    BY <1>0, <2>1, <2>2, AttemptStep
  <2>3. CASE d # c
    <3>1. ViewStill(d)
      BY <1>0, <2>3, OthersAlone
    <3>2. \A s : Initialised(s)' <=> Initialised(s)
      BY <1>0 DEF Initialised
    <3>3. Attached(d)' <=> Attached(d)
      BY <3>1 DEF ViewStill, Attached
    <3>4. QED
      BY <1>0, <2>1, <3>1, <3>2, <3>3 DEF ViewStill, AttemptSound
  <2>4. QED
    BY <2>2, <2>3
<1>2. QED
  BY <1>1 DEF AttemptsInv

-----------------------------------------------------------------------------
(* Ranges.                                                                 *)

(* A sentinel a view may meet is the one of a whole table.                 *)
LEMMA PublishedAt ==
    ASSUME TypeInv, Layout, QuotaSound, NEW e \in Nat, Protected(e), NEW s \in Nat, e <= Epoch(s),
           Published(s)
    PROVE  At(s)
<1>0. /\ Wt \in Nat /\ Epoch(Wt) \in Nat /\ Epoch(s) \in Nat /\ Idx(s) \in Indices
      /\ Lap \in Nat /\ NoSeq \notin Nat
  BY LayoutTypes, EpochType, RingArithmetic DEF NoSeq
<1>1. InWindow(e) /\ WritersRecent
  BY Windows
<1>2. Tsent[Idx(s)] = s /\ SentinelSound(Idx(s))
  BY <1>0 DEF Published, Layout, SentinelsSound
<1>3. s < Wt /\ \A p \in Producers : Writing(p) => s < wret[p] \/ wtprime(p) <= s
  BY <1>0, <1>2 DEF SentinelSound
<1>4. Wt < s + Lap
  BY <1>0, <1>1, WithinLap DEF InWindow
<1>5. ASSUME NEW p \in Producers, ppc[p] = "sentinel", Idx(wret[p]) = Idx(s) PROVE FALSE
  <2>1. Writing(p) /\ wret[p] \in Nat /\ size[p] \in Nat /\ wtprime(p) = wret[p] + size[p]
    BY <1>5, LayoutTypes DEF Writing
  <2>2. size[p] >= 1 /\ wtprime(p) <= Wt /\ Wt < wret[p] + Lap
    BY <1>1, <2>1 DEF Layout, WriterRanges, WritersRecent
  <2>3. wret[p] < s + Lap /\ s < wret[p] + Lap
    BY <1>0, <1>3, <1>4, <2>1, <2>2
  <2>4. wret[p] = s
    BY <1>5, <2>1, <2>3, UnitsApart
  <2>5. QED
    BY <1>3, <2>1, <2>2, <2>4
<1>6. QED
  BY <1>0, <1>2, <1>5 DEF At, Tables

(* An attached view that is not dropping its references reads.             *)
LEMMA ReadsUnless ==
    ASSUME TypeInv, NEW c \in Consumers, Attached(c), cpc[c] \notin LeavingPhases
    PROVE  Reading(c)
  BY DEF TypeInv, LeavingSound, Reading

(* The table a view visits.                                                *)
LEMMA VisitedAt ==
    ASSUME Inv, NEW c \in Consumers,
           \/ cpc[c] = "work"
           \/ cpc[c] = "ready" /\ Published(nextSeq[c]) /\ Epoch(nextSeq[c]) = newestEi[c]
    PROVE  At(nextSeq[c]) /\ Epoch(nextSeq[c]) = newestEi[c] /\ Reading(c)
<1>0. /\ TypeInv /\ Layout /\ QuotaSound /\ RangesSound /\ ReadingsSound /\ nextSeq[c] \in Nat
  BY ViewTypes DEF Inv, Base, ViewInv
<1>1. Attached(c) /\ cpc[c] \notin LeavingPhases
  BY DEF Attached, SubscribePhases, LeavingPhases
<1>2. Reading(c)
  BY <1>0, <1>1, ReadsUnless
<1>3. CASE cpc[c] = "work"
  BY <1>0, <1>2, <1>3 DEF ReadingsSound, ReadingSound
<1>4. CASE cpc[c] = "ready" /\ Published(nextSeq[c]) /\ Epoch(nextSeq[c]) = newestEi[c]
  <2>1. oldestEi[c] \in Nat /\ Protected(oldestEi[c]) /\ oldestEi[c] <= Epoch(nextSeq[c])
    BY <1>0, <1>2, <1>4, ReadingHolds
  <2>2. QED
    BY <1>0, <1>2, <1>4, <2>1, PublishedAt
<1>5. QED
  BY <1>3, <1>4

(* ... and passes.                                                         *)
LEMMA PassedRange ==
    ASSUME Inv, NEW c \in Consumers, At(nextSeq[c])
    PROVE  /\ Tnext[Idx(nextSeq[c])] \in Nat /\ nextSeq[c] < Tnext[Idx(nextSeq[c])]
           /\ Tnext[Idx(nextSeq[c])] <= Wt
           /\ Epoch(nextSeq[c]) <= Epoch(Tnext[Idx(nextSeq[c])])
<1>1. TypeInv /\ Layout /\ Idx(nextSeq[c]) \in Tables /\ Tsent[Idx(nextSeq[c])] = nextSeq[c]
      /\ nextSeq[c] \in Nat
  BY ViewTypes DEF Inv, Base, At
<1>2. PICK i \in Tables : i = Idx(nextSeq[c])
  BY <1>1
<1>3. Tnext[i] \in Nat /\ Tsent[i] < Tnext[i] /\ Tnext[i] <= Wt
  BY <1>1, TableRanges
<1>4. Epoch(nextSeq[c]) <= Epoch(Tnext[i])
  BY <1>1, <1>2, <1>3, EpochMonotone
<1>5. QED
  BY <1>1, <1>2, <1>3, <1>4

(* A confirmed epoch stays confirmed.                                      *)
LEMMA ConfirmedStays ==
    ASSUME Inv, NEW c \in Consumers, ConsumerNext(c), UNCHANGED producerVars,
           NEW e \in Nat, Confirmed(e)
    PROVE  Confirmed(e)'
<1>0. /\ TypeInv /\ Layout /\ QuotaSound /\ KeptSound /\ RangesSound /\ WalksSound
      /\ Es' = Es /\ Seqt' = Seqt /\ Slot(e) \in Slots /\ Slot(e + 1) \in Slots
      /\ Sd[Slot(e)] \in Int /\ Seqt[Slot(e)] \in Nat /\ Seqt[Slot(e + 1)] \in Nat
  BY ConsumerFrame, StatTypes DEF Inv, Base, ViewInv
<1>1. Sd'[Slot(e)] \in Int /\ Sd'[Slot(e)] >= Sd[Slot(e)]
  <2>1. CASE Account(c)
    <3>1. cpc[c] \in ClaimPhases
      BY <2>1 DEF Account, ClaimPhases
    <3>2. Idx(tseq[c]) \in Tables /\ Tsent[Idx(tseq[c])] = tseq[c]
      BY <1>0, <3>1, ClaimedHeld DEF At
    <3>3. Tsent[Idx(tseq[c])] \in Nat /\ Tnext[Idx(tseq[c])] \in Nat
          /\ Tsent[Idx(tseq[c])] < Tnext[Idx(tseq[c])]
      BY <1>0, <3>2, TableRanges
    <3>4. CASE Slot(e) = Slot(Epoch(tseq[c]))
      BY <1>0, <2>1, <3>2, <3>3, <3>4, AccountStep
    <3>5. CASE Slot(e) # Slot(Epoch(tseq[c]))
      BY <1>0, <2>1, <3>5, AccountStep
    <3>6. QED
      BY <3>4, <3>5
  <2>2. CASE ~Account(c)
    BY <1>0, <2>2, ConsumerFrame
  <2>3. QED
    BY <2>1, <2>2
<1>2. QED
  BY <1>0, <1>1 DEF Confirmed

(* A range that is kept, with the view at rest.                            *)
LEMMA RestedRange ==
    ASSUME TypeInv, NEW c \in Consumers, Wt' = Wt, SameRange(c),
           RangeSound(c), Attached(c), cpc[c] # "leaving",
           nextSeq'[c] \in Nat, nextSeq'[c] <= Wt,
           Epoch(nextSeq[c]) <= Epoch(nextSeq'[c]),
           cpc'[c] \notin {"leaving", "moveLeaf", "moveRoot", "subRoot", "unpinAll"},
           cpc'[c] = "clear" => Confirmed(oldestEi[c])',
           cpc'[c] = "migrate" => newestEi[c] < Epoch(nextSeq'[c]) /\ ret'[c] # "work"
    PROVE  RangeSound(c)'
<1>1. /\ oldestEi[c] \in Nat /\ newestEi[c] \in Nat /\ Epoch(nextSeq[c]) \in Nat
      /\ Epoch(nextSeq'[c]) \in Nat
  BY ViewTypes, EpochType
<1>2. oldestEi'[c] = oldestEi[c] /\ newestEi'[c] = newestEi[c]
  BY DEF SameRange
<1>3. oldestEi[c] <= newestEi[c] /\ newestEi[c] <= Epoch(nextSeq[c])
  BY DEF RangeSound
<1>4. oldestEi[c] <= newestEi[c] + 1 /\ newestEi[c] <= Epoch(nextSeq'[c])
  BY <1>1, <1>3
<1>5. QED
  BY <1>2, <1>3, <1>4 DEF RangeSound, Moving

LEMMA SubscribeRange ==
    ASSUME Inv, TypeInv', NEW c \in Consumers, Wt' = Wt, RangeSound(c),
           ScanStep(c) \/ Attach(c) \/ AttachedStep(c)
    PROVE  RangeSound(c)'
<1>0. /\ TypeInv /\ SlotsSound /\ AttemptsInv
      /\ at[c] \in Nat /\ oldestEi[c] \in Nat /\ newestEi[c] \in Nat /\ Slot(at[c]) \in Slots
      /\ Epoch(nextSeq[c]) \in Nat /\ Epoch(seqtRead[c]) \in Nat
  BY ViewTypes DEF Inv, Base, EpochInv, ViewInv
<1>1. CASE ScanStep(c)
  BY <1>0, <1>1, ScanSteps DEF RangeSound
<1>2. CASE Attach(c)
  <2>1. /\ cpc[c] = "subLeaf" /\ cpc'[c] \in {"subRoot", "unpinAll"} /\ at'[c] = at[c]
        /\ nextSeq'[c] = seqtRead[c] /\ oldestEi'[c] = at[c] /\ newestEi'[c] = at[c]
    BY <1>0, <1>2, AttachStep DEF SameScan
  <2>2. at[c] <= Epoch(seqtRead[c]) /\ seqtRead[c] = Seqt[Slot(at[c])]
    BY <1>0, <2>1 DEF AttemptsInv, AttemptSound, Validated
  <2>3. seqtRead[c] <= Wt
    BY <1>0, <2>2 DEF SlotsSound, SlotSound
  <2>4. ret'[c] # "leaving"
    BY <2>1 DEF TypeInv, LeavingSound, LeavingPhases
  <2>5. QED
    BY <1>0, <2>1, <2>2, <2>3, <2>4 DEF RangeSound, Moving
<1>3. CASE AttachedStep(c)
  <2>1. /\ SameRange(c) /\ nextSeq'[c] = nextSeq[c] /\ ret'[c] = ret[c]
        /\ cpc[c] \in {"subRoot", "unpinAll", "retry"} /\ cpc'[c] \in {"unpinAll", "retry", "ready", "off"}
        /\ cpc[c] = "retry" <=> cpc'[c] \in {"retry", "off"}
    BY <1>0, <1>3, AttachedStays
  <2>2. CASE cpc[c] = "retry"
    <3>1. cpc'[c] \in {"retry", "off"}
      BY <2>1, <2>2
    <3>2. QED
      BY <3>1 DEF RangeSound, Attached, SubscribePhases
  <2>3. CASE cpc[c] # "retry"
    <3>1. Attached(c) /\ cpc[c] # "leaving" /\ cpc'[c] \in {"unpinAll", "ready"}
      BY <2>1, <2>3 DEF Attached, SubscribePhases
    <3>2. ret'[c] # "leaving"
      BY <3>1 DEF TypeInv, LeavingSound, LeavingPhases
    <3>3. QED
      BY <1>0, <2>1, <3>1, <3>2 DEF RangeSound, Moving, SameRange
  <2>4. QED
    BY <2>2, <2>3
<1>4. QED
  BY <1>1, <1>2, <1>3

LEMMA MoveRange ==
    ASSUME Inv, TypeInv', NEW c \in Consumers, Wt' = Wt, RangeSound(c),
           Poll(c) \/ MoveLeaf(c) \/ MoveRoot(c) \/ Migrate(c)
    PROVE  RangeSound(c)'
<1>0. /\ TypeInv
      /\ at[c] \in Nat /\ oldestEi[c] \in Nat /\ newestEi[c] \in Nat /\ nextSeq[c] \in Nat
      /\ Epoch(nextSeq[c]) \in Nat
  BY ViewTypes DEF Inv, Base
<1>1. /\ cpc[c] \in {"ready", "moveLeaf", "moveRoot", "migrate"} /\ Attached(c)
      /\ cpc[c] # "leaving"
  BY DEF Poll, MoveLeaf, MoveRoot, Migrate, Attached, SubscribePhases
<1>2. /\ oldestEi[c] <= newestEi[c] /\ newestEi[c] <= Epoch(nextSeq[c]) /\ nextSeq[c] <= Wt
      /\ cpc[c] \in Moving => newestEi[c] < at[c] /\ at[c] <= Epoch(nextSeq[c]) /\ ret[c] # "leaving"
      /\ cpc[c] = "migrate" => newestEi[c] < Epoch(nextSeq[c])
  BY <1>1 DEF RangeSound
<1>3. nextSeq'[c] = nextSeq[c] /\ oldestEi'[c] = oldestEi[c]
  BY <1>0, PollStep, MoveLeafStep, MoveRootStep, MigrateStep DEF SameView, SameRange
<1>4. cpc'[c] \in Moving => ret'[c] # "leaving"
  BY DEF TypeInv, LeavingSound, LeavingPhases, Moving
<1>5. CASE Poll(c) \/ Migrate(c)
  <2>1. SameRange(c)
    BY <1>0, <1>5, PollStep, MigrateStep DEF SameView
  <2>2. CASE at'[c] = newestEi[c] + 1 /\ cpc'[c] = "moveLeaf" /\ newestEi[c] < Epoch(nextSeq[c])
    BY <1>0, <1>2, <1>3, <1>4, <2>1, <2>2 DEF RangeSound, Moving, SameRange
  <2>3. CASE Rested(c)
    <3>1. cpc'[c] \in RestPhases
      BY <2>3 DEF Rested
    <3>2. cpc'[c] \notin {"leaving", "moveLeaf", "moveRoot", "subRoot", "unpinAll", "clear", "migrate"}
      BY <3>1 DEF RestPhases
    <3>3. QED
      BY <1>0, <1>1, <1>2, <1>3, <2>1, <3>2, RestedRange
  <2>4. CASE Epoch(nextSeq[c]) > newestEi[c] /\ cpc'[c] = "migrate" /\ ret'[c] = "idle"
    BY <1>0, <1>1, <1>2, <1>3, <2>1, <2>4, RestedRange
  <2>5. Poll(c) => \/ at'[c] = newestEi[c] + 1 /\ cpc'[c] = "moveLeaf" /\ Epoch(nextSeq[c]) # newestEi[c]
                   \/ Rested(c)
                   \/ Epoch(nextSeq[c]) > newestEi[c] /\ cpc'[c] = "migrate" /\ ret'[c] = "idle"
    BY <1>0, PollStep
  <2>6. Migrate(c) => \/ at'[c] = newestEi[c] + 1 /\ cpc'[c] = "moveLeaf" /\ cpc[c] = "migrate"
                      \/ Rested(c)
    BY <1>0, MigrateStep
  <2>7. QED
    BY <1>0, <1>2, <1>5, <2>2, <2>3, <2>4, <2>5, <2>6
<1>6. CASE MoveLeaf(c) \/ MoveRoot(c)
  <2>1. cpc[c] \in Moving
    BY <1>6 DEF MoveLeaf, MoveRoot, Moving
  <2>2. \/ /\ cpc'[c] = "moveRoot" /\ at'[c] = at[c] /\ newestEi'[c] = newestEi[c]
        \/ Advanced(c)
    BY <1>0, <1>6, MoveLeafStep, MoveRootStep
  <2>3. CASE cpc'[c] = "moveRoot" /\ at'[c] = at[c] /\ newestEi'[c] = newestEi[c]
    BY <1>0, <1>2, <1>3, <1>4, <2>1, <2>3 DEF RangeSound, Moving
  <2>4. CASE /\ at[c] < Epoch(nextSeq[c])
             /\ at'[c] = at[c] + 1 /\ cpc'[c] = "moveLeaf" /\ newestEi'[c] = newestEi[c]
    BY <1>0, <1>2, <1>3, <1>4, <2>1, <2>4 DEF RangeSound, Moving
  <2>5. CASE /\ ~(at[c] < Epoch(nextSeq[c]))
             /\ cpc'[c] \in {"work", "release"} /\ newestEi'[c] = at[c]
    BY <1>0, <1>2, <1>3, <2>1, <2>5 DEF RangeSound, Moving
  <2>6. QED
    BY <2>2, <2>3, <2>4, <2>5 DEF Advanced
<1>7. QED
  BY <1>5, <1>6

(* The position passes a table.                                            *)
LEMMA PassRange ==
    ASSUME Inv, NEW c \in Consumers, Wt' = Wt, SameRange(c), RangeSound(c),
           Attached(c), cpc[c] # "leaving", At(nextSeq[c]), Passed(c)
    PROVE  RangeSound(c)'
<1>0. /\ TypeInv /\ newestEi[c] \in Nat
  BY ViewTypes DEF Inv, Base
<1>1. nextSeq'[c] \in Nat /\ nextSeq'[c] <= Wt /\ Epoch(nextSeq[c]) <= Epoch(nextSeq'[c])
  BY PassedRange DEF Passed
<1>2. \/ Epoch(nextSeq'[c]) > newestEi[c] /\ cpc'[c] = "migrate" /\ ret'[c] = "tail"
      \/ cpc'[c] \in RestPhases
  BY DEF Passed, Rested
<1>3. cpc'[c] = "migrate" => newestEi[c] < Epoch(nextSeq'[c]) /\ ret'[c] # "work"
  BY <1>0, <1>1, <1>2, EpochType DEF RestPhases
<1>4. cpc'[c] \notin {"leaving", "moveLeaf", "moveRoot", "subRoot", "unpinAll", "clear"}
  BY <1>2 DEF RestPhases
<1>5. QED
  BY <1>0, <1>1, <1>3, <1>4, RestedRange

LEMMA WorkRange ==
    ASSUME Inv, NEW c \in Consumers, Wt' = Wt, RangeSound(c),
           Visit(c) \/ Walk(c) \/ WorkStep(c)
    PROVE  RangeSound(c)'
<1>0. /\ TypeInv /\ Layout /\ QuotaSound /\ KeptSound /\ RangesSound /\ WalksSound
      /\ nextSeq[c] \in Nat
  BY ViewTypes DEF Inv, Base, ViewInv
<1>1. SameRange(c) /\ cpc[c] \in {"work", "ready", "walk"} \cup ClaimPhases
  BY <1>0, VisitStep, WalkStep, WorkSteps
<1>2. Attached(c) /\ cpc[c] # "leaving"
  BY <1>1 DEF Attached, SubscribePhases, ClaimPhases
<1>3. nextSeq[c] <= Wt
  BY <1>2 DEF RangeSound
<1>4. ASSUME nextSeq'[c] = nextSeq[c], cpc'[c] \in {"claim", "walk"} \cup ClaimPhases
      PROVE  RangeSound(c)'
  <2>1. cpc'[c] \notin {"leaving", "moveLeaf", "moveRoot", "subRoot", "unpinAll", "clear", "migrate"}
    BY <1>4 DEF ClaimPhases
  <2>2. Epoch(nextSeq[c]) <= Epoch(nextSeq'[c])
    BY <1>0, <1>4, EpochType
  <2>3. QED
    BY <1>0, <1>1, <1>2, <1>3, <1>4, <2>1, <2>2, RestedRange
<1>5. CASE Visit(c)
  <2>1. At(nextSeq[c])
    BY <1>0, <1>5, VisitStep, VisitedAt
  <2>2. CASE Passed(c)
    BY <1>1, <1>2, <2>1, <2>2, PassRange
  <2>3. CASE \E j \in {"visit", "carried"} : Entered(c, nextSeq[c], j)
    BY <1>4, <2>3 DEF Entered
  <2>4. QED
    BY <1>0, <1>5, <2>2, <2>3, VisitStep
<1>6. CASE Walk(c)
  BY <1>0, <1>4, <1>6, WalkStep DEF WalkedPast, Entered
<1>7. CASE WorkStep(c)
  <2>1. cpc[c] \in ClaimPhases
    BY <1>0, <1>7, WorkSteps
  <2>2. job[c] \in {"visit", "carried"} => At(nextSeq[c])
    BY <1>0, <2>1 DEF WalksSound, WalkSound
  <2>3. CASE job[c] \in {"visit", "carried"} /\ Passed(c)
    BY <1>1, <1>2, <2>2, <2>3, PassRange
  <2>4. CASE WalkedPast(c)
    BY <1>4, <2>4 DEF WalkedPast
  <2>5. CASE cpc'[c] \in ClaimPhases /\ nextSeq'[c] = nextSeq[c]
    BY <1>4, <2>5
  <2>6. QED
    BY <1>0, <1>7, <2>3, <2>4, <2>5, WorkSteps DEF Done, SameView
<1>8. QED
  BY <1>5, <1>6, <1>7

LEMMA LeaveRange ==
    ASSUME Inv, TypeInv', NEW c \in Consumers, Wt' = Wt, RangeSound(c),
           \A e \in Nat : Confirmed(e) => Confirmed(e)',
           \/ Release(c) \/ ClearLive(c) \/ DecLeaf(c) \/ DecRoot(c) \/ LeavingStep(c) \/ Left(c)
           \/ SweepOldest(c) \/ SweepPosition(c) \/ EndWalk(c)
    PROVE  RangeSound(c)'
<1>0. /\ TypeInv /\ ReadingsSound
      /\ nextSeq[c] \in Nat /\ oldestEi[c] \in Nat /\ newestEi[c] \in Nat
      /\ Epoch(nextSeq[c]) \in Nat
  BY ViewTypes DEF Inv, Base
<1>1. cpc[c] \notin SubscribePhases \cup {"off"}
  BY DEF Release, ClearLive, DecLeaf, DecRoot, LeavingStep, Unsubscribe, Leave, LeaveEpoch, Left,
     SweepOldest, SweepPosition, EndWalk, SubscribePhases
<1>2. Attached(c)
  BY <1>1 DEF Attached
<1>3. nextSeq[c] <= Wt /\ newestEi[c] <= Epoch(nextSeq[c]) /\ Epoch(nextSeq[c]) <= Epoch(nextSeq[c])
  BY <1>0, <1>2 DEF RangeSound
<1>4. ASSUME cpc[c] # "leaving", nextSeq'[c] = nextSeq[c], SameRange(c),
             \/ cpc'[c] \in RestPhases \cup {"leaving", "decLeaf", "decRoot", "walk"}
             \/ cpc'[c] = "clear" /\ Confirmed(oldestEi[c])
      PROVE  RangeSound(c)'
  <2>1. cpc'[c] \notin {"moveLeaf", "moveRoot", "subRoot", "unpinAll", "migrate"}
    BY <1>4 DEF RestPhases
  <2>2. cpc'[c] = "clear" => Confirmed(oldestEi[c])'
    <3>1. SUFFICES ASSUME cpc'[c] = "clear" PROVE Confirmed(oldestEi[c])'
      OBVIOUS
    <3>2. Confirmed(oldestEi[c])
      BY <1>4, <3>1 DEF RestPhases
    <3>3. PICK e \in Nat : e = oldestEi[c]
      BY <1>0
    <3>4. oldestEi'[c] = e /\ Confirmed(e)'
      BY <1>4, <3>2, <3>3 DEF SameRange
    <3>5. QED
      BY <3>4 DEF Confirmed
  <2>3. oldestEi'[c] = oldestEi[c] /\ newestEi'[c] = newestEi[c] /\ oldestEi[c] <= newestEi[c]
        /\ oldestEi[c] <= newestEi[c] + 1
    BY <1>0, <1>2, <1>4 DEF SameRange, RangeSound
  <2>4. QED
    BY <1>3, <1>4, <2>1, <2>2, <2>3 DEF RangeSound, Moving
<1>5. CASE Release(c)
  BY <1>0, <1>4, <1>5, ReleaseStep DEF SameView, Rested
<1>6. CASE ClearLive(c)
  <2>1. cpc[c] # "leaving" /\ nextSeq'[c] = nextSeq[c] /\ cpc'[c] = "decLeaf" /\ SameRange(c)
    BY <1>0, <1>6, ClearLiveStep DEF SameRange, viewVars
  <2>2. QED
    BY <1>4, <2>1
<1>7. CASE DecLeaf(c) \/ DecRoot(c)
  <2>1. cpc[c] \in {"decLeaf", "decRoot"} /\ cpc[c] # "leaving"
    BY <1>0, <1>7, DropStep
  <2>2. CASE cpc'[c] = "decRoot" /\ SameRange(c) /\ nextSeq'[c] = nextSeq[c]
    BY <1>4, <2>1, <2>2
  <2>3. CASE /\ oldestEi'[c] = oldestEi[c] + 1 /\ nextSeq'[c] = nextSeq[c] /\ newestEi'[c] = newestEi[c]
             /\ cpc'[c] = IF ret[c] = "leaving" THEN "leaving" ELSE "release"
    <3>1. oldestEi[c] <= newestEi[c]
      BY <1>2, <2>1 DEF RangeSound
    <3>2. ret[c] # "leaving" => Behind(c)
      BY <1>0, <1>2, <2>1 DEF Reading, ReadingsSound, ReadingSound
    <3>3. QED
      BY <1>0, <1>3, <2>3, <3>1, <3>2 DEF RangeSound, Moving, Behind
  <2>4. QED
    BY <1>0, <1>7, <2>2, <2>3, DropStep
<1>8. CASE LeavingStep(c)
  <2>1. SameRange(c) /\ nextSeq'[c] = nextSeq[c]
    BY <1>0, <1>8, LeaveSteps DEF LeavingStep, SameView
  <2>2. CASE cpc[c] # "leaving"
    BY <1>0, <1>4, <1>8, <2>1, <2>2, LeaveSteps DEF LeavingStep, Rested, RestPhases
  <2>3. CASE cpc[c] = "leaving"
    <3>1. oldestEi[c] <= newestEi[c] /\ \/ Confirmed(oldestEi[c]) /\ cpc'[c] = "clear"
                                        \/ cpc'[c] = "decLeaf"
      BY <1>0, <1>8, <2>3, LeaveSteps DEF LeavingStep
    <3>2. PICK e \in Nat : e = oldestEi[c]
      BY <1>0
    <3>3. oldestEi'[c] = e /\ newestEi'[c] = newestEi[c] /\ e <= newestEi[c] + 1
      BY <1>0, <2>1, <3>1, <3>2 DEF SameRange
    <3>4. cpc'[c] = "clear" => Confirmed(oldestEi[c])'
      <4>1. SUFFICES ASSUME cpc'[c] = "clear" PROVE Confirmed(oldestEi[c])'
        OBVIOUS
      <4>2. Confirmed(e)'
        BY <3>1, <3>2, <4>1
      <4>3. QED
        BY <3>3, <4>2 DEF Confirmed
    <3>5. QED
      BY <1>3, <2>1, <3>1, <3>2, <3>3, <3>4 DEF RangeSound, Moving
  <2>4. QED
    BY <2>2, <2>3
<1>9. CASE Left(c)
  BY <1>0, <1>9, LeftStep DEF RangeSound, Attached
<1>10. CASE SweepOldest(c) \/ SweepPosition(c)
  BY <1>0, <1>4, <1>10, SweepSteps DEF SameView, Rested, RestPhases
<1>11. CASE EndWalk(c)
  BY <1>0, <1>4, <1>11, EndWalkStep DEF SameView, Rested, RestPhases
<1>12. QED
  BY <1>5, <1>6, <1>7, <1>8, <1>9, <1>10, <1>11

LEMMA ConsumerRanges ==
    ASSUME Inv, TypeInv', NEW c \in Consumers, ConsumerNext(c), UNCHANGED producerVars
    PROVE  RangesSound'
<1>0. TypeInv /\ RangesSound /\ Wt' = Wt
  BY ConsumerFrame DEF Inv, Base, ViewInv
<1>1. \A e \in Nat : Confirmed(e) => Confirmed(e)'
  <2>1. ASSUME NEW e \in Nat, Confirmed(e) PROVE Confirmed(e)'
    BY <2>1, ConfirmedStays
  <2>2. QED
    BY <2>1
<1>2. ASSUME NEW d \in Consumers PROVE RangeSound(d)'
  <2>1. RangeSound(d)
    BY <1>0 DEF RangesSound
  <2>2. CASE d = c
    BY <1>0, <1>1, <2>1, <2>2, ConsumerCases, SubscribeRange, MoveRange, WorkRange, LeaveRange DEF ScanStep
  <2>3. CASE d # c
    <3>1. ViewStill(d)
      BY <1>0, <2>3, OthersAlone
    <3>2. Attached(d)' <=> Attached(d)
      BY <3>1 DEF ViewStill, Attached
    <3>3. Confirmed(oldestEi[d]) => Confirmed(oldestEi[d])'
      <4>1. SUFFICES ASSUME Confirmed(oldestEi[d]) PROVE Confirmed(oldestEi[d])'
        OBVIOUS
      <4>2. PICK e \in Nat : e = oldestEi[d]
        BY <1>0, ViewTypes
      <4>3. Confirmed(e)' /\ oldestEi'[d] = e
        BY <1>1, <3>1, <4>1, <4>2 DEF ViewStill
      <4>4. QED
        BY <4>3 DEF Confirmed
    <3>4. QED
      BY <1>0, <2>1, <3>1, <3>2, <3>3 DEF ViewStill, RangeSound
  <2>4. QED
    BY <2>2, <2>3
<1>3. QED
  BY <1>2 DEF RangesSound

-----------------------------------------------------------------------------
(* Positions: no work is left behind.                                      *)

(* What no view's step moves, as far as a view reads it.                   *)
Unmoved ==
    /\ UNCHANGED <<Wt, Tsent, Tnext, wret>> /\ Tables' = Tables
    /\ \A p : Writing(p)' = Writing(p)
    /\ \A s : At(s)' = At(s) /\ Boundary(s)' = Boundary(s)
    /\ \A e : Initialised(e)' = Initialised(e)
    /\ \A e \in Nat : Worked(e)' => Worked(e)

LEMMA UnmovedStep ==
    ASSUME TypeInv, NEW c \in Consumers, ConsumerNext(c), UNCHANGED producerVars
    PROVE  Unmoved
<1>1. \A e \in Nat : Worked(e)' => Worked(e)
  BY WorkedStill
<1>2. QED
  BY <1>1, ConsumerFrame, ConsumerLayout DEF Unmoved

(* A step that leaves what a view holds and where it is.                   *)
LEMMA KeptReading ==
    ASSUME Unmoved, NEW c \in Consumers, TypeInv,
           Reading(c), ReadingSound(c), SameRange(c), SameCursors(c), nextSeq'[c] = nextSeq[c],
           cpc'[c] = "work" => cpc[c] = "work",
           cpc'[c] \in Moving /\ ret'[c] = "work" => At(nextSeq[c]),
           cpc'[c] = "sweepOldest" => Behind(c),
           cpc'[c] \in {"clear", "decLeaf", "decRoot"} =>
               Behind(c) /\ \A e \in Nat : Worked(e) => e > oldestEi[c]
    PROVE  ReadingSound(c)'
<1>1. oldestEi'[c] = oldestEi[c] /\ newestEi'[c] = newestEi[c]
      /\ sweepSeq'[c] = sweepSeq[c] /\ oldSweepSeq'[c] = oldSweepSeq[c]
  BY DEF SameRange, SameCursors
<1>2. Behind(c)' <=> Behind(c)
  BY <1>1 DEF Behind
<1>3. /\ At(nextSeq[c])' <=> At(nextSeq[c])
      /\ Boundary(sweepSeq[c])' <=> Boundary(sweepSeq[c])
      /\ Boundary(oldSweepSeq[c])' <=> Boundary(oldSweepSeq[c])
  <2>1. PICK s : s = nextSeq[c]
    OBVIOUS
  <2>2. PICK t : t = sweepSeq[c]
    OBVIOUS
  <2>3. PICK u : u = oldSweepSeq[c]
    OBVIOUS
  <2>4. At(s)' = At(s) /\ Boundary(t)' = Boundary(t) /\ Boundary(u)' = Boundary(u)
    BY DEF Unmoved
  <2>5. At(nextSeq[c])' = At(s)' /\ Boundary(sweepSeq[c])' = Boundary(t)'
        /\ Boundary(oldSweepSeq[c])' = Boundary(u)'
    BY <1>1, <2>1, <2>2, <2>3
  <2>6. QED
    BY <2>1, <2>2, <2>3, <2>4, <2>5
<1>4. /\ \A e \in Nat : newestEi[c] < e /\ e <= Epoch(nextSeq[c]) => Initialised(e)'
      /\ \A p \in Producers : Writing(p)' /\ Epoch(wret'[p]) >= oldestEi[c] => wret'[p] >= nextSeq[c]
      /\ \A i \in Tables' : Tsent'[i] < nextSeq[c] => Epoch(Tsent'[i]) <= newestEi[c]
      /\ \A e \in Nat : Worked(e)' => e >= oldestEi[c]
  BY DEF Unmoved, ReadingSound
<1>5. /\ cpc'[c] = "work" => At(nextSeq[c]) /\ Epoch(nextSeq[c]) = newestEi[c]
      /\ sweepSeq[c] = 0 \/ (Boundary(sweepSeq[c]) /\ Epoch(sweepSeq[c]) >= newestEi[c])
      /\ oldSweepSeq[c] = 0 \/ (Boundary(oldSweepSeq[c]) /\ Epoch(oldSweepSeq[c]) >= oldestEi[c])
  BY DEF ReadingSound
<1>6. cpc'[c] \in {"clear", "decLeaf", "decRoot"} => \A e \in Nat : Worked(e)' => e > oldestEi[c]
  BY DEF Unmoved
<1>7. QED
  BY <1>1, <1>2, <1>3, <1>4, <1>5, <1>6 DEF ReadingSound

(* A view attaches where no work is behind it.                             *)
LEMMA AttachReading ==
    ASSUME Inv, Unmoved, NEW c \in Consumers, Attach(c)
    PROVE  ReadingSound(c)'
<1>0. /\ TypeInv /\ Layout /\ QuotaSound /\ KeptSound /\ AttemptsInv /\ SlotsSound
      /\ EpochsBegun /\ PendingStale /\ EpochsSplit
      /\ at[c] \in Nat /\ seqtRead[c] \in Nat /\ Epoch(seqtRead[c]) \in Nat /\ Slot(at[c]) \in Slots
      /\ Wt \in Nat /\ Epoch(Wt) \in Nat /\ K \in Nat
  BY ViewTypes, LayoutTypes, EpochType, GeometryAssumption DEF Inv, Base, EpochInv, ViewInv
<1>1. /\ cpc[c] = "subLeaf" /\ cpc'[c] \in {"subRoot", "unpinAll"} /\ SameCursors(c)
      /\ nextSeq'[c] = seqtRead[c] /\ oldestEi'[c] = at[c] /\ newestEi'[c] = at[c]
  BY <1>0, AttachStep
<1>2. /\ seqtRead[c] = Seqt[Slot(at[c])] /\ at[c] <= Epoch(seqtRead[c])
      /\ Initialised(Epoch(seqtRead[c]))
      /\ \A e \in Nat : Worked(e) => e >= at[c]
      /\ sweepSeq[c] = 0 /\ oldSweepSeq[c] = 0
  BY <1>0, <1>1 DEF AttemptsInv, AttemptSound, Validated, Scanning, Candidate, Attached, SubscribePhases
<1>3. Kept(at[c]) /\ Protected(at[c])
  BY <1>1 DEF Protected, Kept, Claims
<1>4. Initialised(at[c]) /\ InWindow(at[c])
  BY <1>0, <1>3, Windows DEF KeptSound
<1>5. EpochSplit(at[c])
  BY <1>0, <1>4 DEF EpochsSplit
<1>6. seqtRead[c] <= Wt
  BY <1>0, <1>2 DEF SlotsSound, SlotSound
<1>7. Epoch(seqtRead[c]) <= Epoch(Wt)
  BY <1>0, <1>6, EpochMonotone
<1>8. InWindow(Epoch(seqtRead[c]))
  BY <1>0, <1>2, <1>4, <1>7 DEF InWindow
<1>9. ASSUME NEW f \in Nat, at[c] < f, f <= Epoch(seqtRead[c]) PROVE Initialised(f)
  <2>1. InWindow(f)
    BY <1>0, <1>4, <1>7, <1>9 DEF InWindow
  <2>2. SUFFICES ASSUME NEW p \in Producers, Pending(p, f) PROVE FALSE
    BY <1>0, <2>1 DEF EpochsBegun
  <2>3. /\ Writing(p) /\ Epoch(wret[p]) < f /\ f <= Epoch(wtprime(p)) /\ ppc[p] \in Crossing
        /\ ppc[p] # "check" => fresh[p] <= f
        /\ wret[p] \in Nat /\ wtprime(p) \in Nat /\ fresh[p] \in Nat
        /\ Epoch(wret[p]) \in Nat /\ Epoch(wtprime(p)) \in Nat
    BY <1>0, <2>2, LayoutTypes, EpochType DEF Pending, Crosses
  <2>4. Split(at[c], wret[p], wtprime(p))
    BY <1>5, <2>3 DEF EpochSplit
  <2>5. CASE Epoch(wret[p]) >= at[c]
    <3>1. wret[p] >= seqtRead[c]
      BY <1>2, <2>4, <2>5 DEF Split
    <3>2. Epoch(seqtRead[c]) <= Epoch(wret[p])
      BY <1>0, <2>3, <3>1, EpochMonotone
    <3>3. QED
      BY <1>0, <1>9, <2>3, <3>2
  <2>6. CASE Epoch(wret[p]) < at[c]
    <3>1. wtprime(p) = seqtRead[c]
      BY <1>0, <1>2, <1>9, <2>3, <2>4, <2>6 DEF Split
    <3>2. Pending(p, Epoch(seqtRead[c]))
      BY <1>0, <1>9, <2>3, <3>1 DEF Pending, Crosses
    <3>3. Es[Slot(Epoch(seqtRead[c]))] < Epoch(seqtRead[c])
      BY <1>0, <1>8, <3>2 DEF PendingStale
    <3>4. QED
      BY <1>0, <1>2, <3>3 DEF Initialised
  <2>7. QED
    BY <1>0, <2>3, <2>5, <2>6
<1>10. ASSUME NEW p \in Producers, Writing(p), Epoch(wret[p]) >= at[c] PROVE wret[p] >= seqtRead[c]
  BY <1>2, <1>5, <1>10 DEF EpochSplit, Split
<1>11. ASSUME NEW i \in Tables, Tsent[i] < seqtRead[c] PROVE Epoch(Tsent[i]) <= at[c]
  <2>1. Tsent[i] \in Nat /\ Epoch(Tsent[i]) \in Nat
    BY <1>0, TableRanges
  <2>2. Split(at[c], Tsent[i], Tnext[i])
    BY <1>5 DEF EpochSplit
  <2>3. QED
    BY <1>0, <1>2, <1>11, <2>1, <2>2 DEF Split
<1>12. /\ \A e \in Nat : at[c] < e /\ e <= Epoch(seqtRead[c]) => Initialised(e)'
       /\ \A p \in Producers : Writing(p)' /\ Epoch(wret'[p]) >= at[c] => wret'[p] >= seqtRead[c]
       /\ \A i \in Tables' : Tsent'[i] < seqtRead[c] => Epoch(Tsent'[i]) <= at[c]
       /\ \A e \in Nat : Worked(e)' => e >= at[c]
  BY <1>2, <1>9, <1>10, <1>11 DEF Unmoved
<1>13. sweepSeq'[c] = 0 /\ oldSweepSeq'[c] = 0
  BY <1>1, <1>2 DEF SameCursors
<1>14. QED
  BY <1>1, <1>12, <1>13 DEF ReadingSound, Moving

(* The position passes a table: what that table crosses into is            *)
(* initialised, and nothing lies between it and the next one.              *)
LEMMA PassReading ==
    ASSUME Inv, Unmoved, NEW c \in Consumers, Reading(c), SameRange(c), SameCursors(c),
           At(nextSeq[c]), Epoch(nextSeq[c]) = newestEi[c], Passed(c)
    PROVE  ReadingSound(c)'
<1>0. /\ TypeInv /\ Layout /\ QuotaSound /\ RangesSound /\ EpochsBegun /\ ReadingSound(c)
      /\ oldestEi[c] \in Nat /\ newestEi[c] \in Nat /\ nextSeq[c] \in Nat
      /\ Wt \in Nat /\ Epoch(Wt) \in Nat /\ K \in Nat
  BY ViewTypes, LayoutTypes, EpochType, GeometryAssumption
  DEF Inv, Base, EpochInv, ViewInv, ReadingsSound
<1>1. InWindow(oldestEi[c]) /\ oldestEi[c] <= newestEi[c]
  BY <1>0, ReadingHolds
<1>2. PICK i \in Tables : i = Idx(nextSeq[c]) /\ Tsent[i] = nextSeq[c]
  BY DEF At
<1>3. PICK t \in Nat : t = Tnext[i]
  BY <1>0, TableRanges
<1>4. /\ nextSeq'[c] = t /\ nextSeq[c] < t /\ t <= Wt /\ Epoch(t) \in Nat
      /\ Epoch(nextSeq[c]) <= Epoch(t)
      /\ \A p \in Producers : Writing(p) => Apart(nextSeq[c], t, wret[p], wtprime(p))
      /\ \A j \in Tables : j # i => Apart(nextSeq[c], t, Tsent[j], Tnext[j])
  BY <1>0, <1>2, <1>3, TableRanges, PassedRange, EpochType DEF Passed, Layout, TablesSound, TableSound
<1>5. Epoch(t) <= Epoch(Wt)
  BY <1>0, <1>4, EpochMonotone
<1>6. ASSUME NEW e \in Nat, newestEi[c] < e, e <= Epoch(t) PROVE Initialised(e)
  <2>1. InWindow(e)
    BY <1>0, <1>1, <1>5, <1>4, <1>6 DEF InWindow
  <2>2. SUFFICES ASSUME NEW p \in Producers, Pending(p, e) PROVE FALSE
    BY <1>0, <2>1 DEF EpochsBegun
  <2>3. /\ Writing(p) /\ Epoch(wret[p]) < e /\ e <= Epoch(wtprime(p))
        /\ wret[p] \in Nat /\ wtprime(p) \in Nat
        /\ Epoch(wret[p]) \in Nat /\ Epoch(wtprime(p)) \in Nat
    BY <1>0, <2>2, LayoutTypes, EpochType DEF Pending, Crosses
  <2>4. t <= wret[p] \/ wtprime(p) <= nextSeq[c]
    BY <1>4, <2>3 DEF Apart
  <2>5. CASE t <= wret[p]
    <3>1. Epoch(t) <= Epoch(wret[p])
      BY <2>3, <2>5, EpochMonotone
    <3>2. QED
      BY <1>4, <1>6, <2>3, <3>1
  <2>6. CASE wtprime(p) <= nextSeq[c]
    <3>1. Epoch(wtprime(p)) <= Epoch(nextSeq[c])
      BY <1>0, <2>3, <2>6, EpochMonotone
    <3>2. QED
      BY <1>0, <1>6, <2>3, <3>1
  <2>7. QED
    BY <2>4, <2>5, <2>6
<1>7. ASSUME NEW p \in Producers, Writing(p), Epoch(wret[p]) >= oldestEi[c] PROVE wret[p] >= t
  <2>1. wret[p] >= nextSeq[c]
    BY <1>0, <1>7 DEF ReadingSound
  <2>2. wret[p] \in Nat /\ wtprime(p) \in Nat /\ size[p] >= 1 /\ wtprime(p) = wret[p] + size[p]
        /\ size[p] \in Nat
    BY <1>0, <1>7, LayoutTypes DEF Layout, WriterRanges
  <2>3. t <= wret[p] \/ wtprime(p) <= nextSeq[c]
    BY <1>4, <1>7 DEF Apart
  <2>4. QED
    BY <1>0, <2>1, <2>2, <2>3
<1>8. ASSUME NEW j \in Tables, Tsent[j] < t PROVE Epoch(Tsent[j]) <= newestEi[c]
  <2>1. Tsent[j] \in Nat /\ Tnext[j] \in Nat /\ Tsent[j] < Tnext[j]
    BY <1>0, TableRanges
  <2>2. CASE j = i
    <3>1. Epoch(Tsent[j]) = newestEi[c]
      BY <1>2, <2>2
    <3>2. QED
      BY <1>0, <3>1
  <2>3. CASE j # i
    <3>1. Tsent[j] < nextSeq[c]
      BY <1>0, <1>4, <1>8, <2>1, <2>3 DEF Apart
    <3>2. QED
      BY <1>0, <3>1 DEF ReadingSound
  <2>4. QED
    BY <2>2, <2>3
<1>9. /\ \A e \in Nat : newestEi[c] < e /\ e <= Epoch(t) => Initialised(e)'
      /\ \A p \in Producers : Writing(p)' /\ Epoch(wret'[p]) >= oldestEi[c] => wret'[p] >= t
      /\ \A j \in Tables' : Tsent'[j] < t => Epoch(Tsent'[j]) <= newestEi[c]
      /\ \A e \in Nat : Worked(e)' => e >= oldestEi[c]
  BY <1>0, <1>6, <1>7, <1>8 DEF Unmoved, ReadingSound
<1>10. /\ oldestEi'[c] = oldestEi[c] /\ newestEi'[c] = newestEi[c]
       /\ sweepSeq'[c] = sweepSeq[c] /\ oldSweepSeq'[c] = oldSweepSeq[c]
  BY DEF SameRange, SameCursors
<1>11. /\ sweepSeq[c] = 0 \/ (Boundary(sweepSeq[c])' /\ Epoch(sweepSeq[c]) >= newestEi[c])
       /\ oldSweepSeq[c] = 0 \/ (Boundary(oldSweepSeq[c])' /\ Epoch(oldSweepSeq[c]) >= oldestEi[c])
  <2>1. PICK a : a = sweepSeq[c]
    OBVIOUS
  <2>2. PICK b : b = oldSweepSeq[c]
    OBVIOUS
  <2>3. Boundary(a)' = Boundary(a) /\ Boundary(b)' = Boundary(b)
    BY DEF Unmoved
  <2>4. Boundary(sweepSeq[c])' = Boundary(a)' /\ Boundary(oldSweepSeq[c])' = Boundary(b)'
    BY <1>10, <2>1, <2>2
  <2>5. QED
    BY <1>0, <2>1, <2>2, <2>3, <2>4 DEF ReadingSound
<1>12. cpc'[c] \notin {"work", "clear", "decLeaf", "decRoot"} \cup Moving
       /\ (cpc'[c] = "sweepOldest" => Behind(c)')
  BY <1>10 DEF Passed, Rested, RestPhases, Moving, Behind
<1>13. QED
  BY <1>4, <1>9, <1>10, <1>11, <1>12 DEF ReadingSound

(* What follows the table a view is at is a place to go on from.           *)
LEMMA WalkedBoundary ==
    ASSUME Inv, NEW c \in Consumers, Reading(c), At(tseq[c]), oldestEi[c] <= Epoch(tseq[c])
    PROVE  /\ Boundary(Tnext[Idx(tseq[c])]) /\ Tnext[Idx(tseq[c])] \in Nat
           /\ Epoch(tseq[c]) <= Epoch(Tnext[Idx(tseq[c])])
<1>0. /\ TypeInv /\ Layout /\ QuotaSound /\ RangesSound /\ tseq[c] \in Nat /\ oldestEi[c] \in Nat
      /\ Wt \in Nat /\ Lap \in Nat /\ Epoch(tseq[c]) \in Nat
  BY ViewTypes, LayoutTypes DEF Inv, Base, ViewInv
<1>1. PICK i \in Tables : i = Idx(tseq[c]) /\ Tsent[i] = tseq[c]
  BY DEF At
<1>2. Tnext[i] \in Nat /\ tseq[c] < Tnext[i]
  BY <1>0, <1>1, TableRanges
<1>3. Wt < tseq[c] + Lap
  BY <1>0, ReadingHolds, WithinLap DEF InWindow
<1>4. Recent(Tnext[i])
  BY <1>0, <1>2, <1>3 DEF Recent
<1>5. Boundary(Tnext[i])
  BY <1>0, <1>4 DEF Layout, Chained
<1>6. QED
  BY <1>0, <1>1, <1>2, <1>5, EpochMonotone

LEMMA MoveReading ==
    ASSUME Inv, Unmoved, NEW c \in Consumers, Reading(c), cpc[c] \in Moving,
           oldestEi'[c] = oldestEi[c], oldSweepSeq'[c] = oldSweepSeq[c],
           nextSeq'[c] = nextSeq[c], ret'[c] = ret[c],
           \/ /\ cpc'[c] = "moveRoot" /\ at'[c] = at[c] /\ newestEi'[c] = newestEi[c]
              /\ sweepSeq'[c] = sweepSeq[c]
           \/ Advanced(c)
    PROVE  ReadingSound(c)'
<1>0. /\ TypeInv /\ RangesSound /\ ReadingSound(c)
      /\ oldestEi[c] \in Nat /\ newestEi[c] \in Nat /\ nextSeq[c] \in Nat /\ at[c] \in Nat
      /\ Epoch(nextSeq[c]) \in Nat /\ Layout
  BY ViewTypes DEF Inv, Base, ViewInv, ReadingsSound
<1>1. newestEi[c] < at[c] /\ at[c] <= Epoch(nextSeq[c])
  BY <1>0 DEF RangesSound, RangeSound, Reading
<1>2. /\ \A e \in Nat : newestEi[c] < e /\ e <= Epoch(nextSeq[c]) => Initialised(e)'
      /\ \A p \in Producers : Writing(p)' /\ Epoch(wret'[p]) >= oldestEi[c] => wret'[p] >= nextSeq[c]
      /\ \A i \in Tables' : Tsent'[i] < nextSeq[c] => Epoch(Tsent'[i]) <= newestEi[c]
      /\ \A e \in Nat : Worked(e)' => e >= oldestEi[c]
      /\ ret[c] = "work" => At(nextSeq[c])
  BY <1>0 DEF Unmoved, ReadingSound
<1>3. /\ sweepSeq[c] = 0 \/ (Boundary(sweepSeq[c]) /\ Epoch(sweepSeq[c]) >= newestEi[c])
      /\ oldSweepSeq[c] = 0 \/ (Boundary(oldSweepSeq[c]) /\ Epoch(oldSweepSeq[c]) >= oldestEi[c])
  BY <1>0 DEF ReadingSound
<1>4. PICK a : a = sweepSeq[c]
  OBVIOUS
<1>5. PICK b : b = oldSweepSeq[c]
  OBVIOUS
<1>6. PICK s : s = nextSeq[c]
  OBVIOUS
<1>7. Boundary(a)' = Boundary(a) /\ Boundary(b)' = Boundary(b) /\ At(s)' = At(s)
  BY DEF Unmoved
<1>8. /\ Boundary(oldSweepSeq[c])' = Boundary(oldSweepSeq[c]) /\ At(nextSeq[c])' = At(nextSeq[c])
      /\ sweepSeq'[c] = sweepSeq[c] => Boundary(sweepSeq[c])' = Boundary(sweepSeq[c])
  <2>1. Boundary(oldSweepSeq[c])' = Boundary(b)' /\ At(nextSeq[c])' = At(s)'
    BY <1>5, <1>6
  <2>2. sweepSeq'[c] = sweepSeq[c] => Boundary(sweepSeq[c])' = Boundary(a)'
    BY <1>4
  <2>3. QED
    BY <1>4, <1>5, <1>6, <1>7, <2>1, <2>2
<1>9. CASE /\ cpc'[c] \in Moving /\ newestEi'[c] = newestEi[c]
           /\ sweepSeq'[c] = sweepSeq[c]
  BY <1>2, <1>3, <1>8, <1>9 DEF ReadingSound, Moving
<1>10. CASE /\ ~(at[c] < Epoch(nextSeq[c]))
            /\ cpc'[c] = IF ret[c] = "work" THEN "work" ELSE "release"
            /\ newestEi'[c] = at[c] /\ sweepSeq'[c] = 0
  <2>1. at[c] = Epoch(nextSeq[c])
    BY <1>0, <1>1, <1>10
  <2>2. \A i \in Tables' : Tsent'[i] < nextSeq[c] => Epoch(Tsent'[i]) <= at[c]
    <3>1. SUFFICES ASSUME NEW i \in Tables, Tsent[i] < nextSeq[c] PROVE Epoch(Tsent[i]) <= at[c]
      BY DEF Unmoved
    <3>2. Epoch(Tsent[i]) <= newestEi[c] /\ Epoch(Tsent[i]) \in Nat
      BY <1>0, <3>1, TableRanges DEF ReadingSound
    <3>3. QED
      BY <1>0, <1>1, <3>2
  <2>3. \A e \in Nat : at[c] < e /\ e <= Epoch(nextSeq[c]) => Initialised(e)'
    BY <1>0, <2>1
  <2>4. cpc'[c] \in {"work", "release"} /\ (cpc'[c] = "work" => ret[c] = "work")
    BY <1>10
  <2>5. QED
    BY <1>2, <1>3, <1>8, <1>10, <2>1, <2>2, <2>3, <2>4 DEF ReadingSound, Moving
<1>11. QED
  BY <1>9, <1>10 DEF Advanced, Moving

(* The table a view works at or walks to, whether or not it has looked at  *)
(* its sentinel.                                                           *)
LEMMA WalkedAt ==
    ASSUME Inv, NEW c \in Consumers, Walk(c) \/ WorkStep(c)
    PROVE  /\ Reading(c) /\ At(tseq[c]) /\ oldestEi[c] <= Epoch(tseq[c])
           /\ job[c] = "position" => newestEi[c] <= Epoch(tseq[c])
           /\ job[c] \in {"visit", "carried"} => tseq[c] = nextSeq[c] /\ Epoch(tseq[c]) = newestEi[c]
<1>0. /\ TypeInv /\ Layout /\ QuotaSound /\ RangesSound /\ WalkSound(c) /\ tseq[c] \in Nat
      /\ oldestEi[c] \in Nat /\ newestEi[c] \in Nat /\ Epoch(tseq[c]) \in Nat
  BY ViewTypes DEF Inv, Base, ViewInv, WalksSound
<1>1. cpc[c] \in ClaimPhases \cup {"walk"}
  BY <1>0, WalkStep, WorkSteps
<1>2. Reading(c)
  BY <1>0, <1>1, ClaimingReads
<1>3. oldestEi[c] <= newestEi[c] /\ Protected(oldestEi[c])
  BY <1>0, <1>2, ReadingHolds
<1>4. CASE WorkStep(c)
  <2>1. cpc[c] \in ClaimPhases
    BY <1>0, <1>4, WorkSteps
  <2>2. QED
    BY <1>0, <1>2, <2>1 DEF WalkSound
<1>5. CASE Walk(c)
  <2>1. cpc[c] = "walk" /\ Published(tseq[c])
    BY <1>0, <1>5, WalkStep
  <2>2. /\ job[c] \in {"position", "trailing"}
        /\ job[c] = "position" => Epoch(tseq[c]) >= newestEi[c]
        /\ job[c] = "trailing" => Epoch(tseq[c]) >= oldestEi[c]
    BY <1>0, <2>1 DEF WalkSound
  <2>3. oldestEi[c] <= Epoch(tseq[c]) /\ (job[c] = "position" => newestEi[c] <= Epoch(tseq[c]))
    BY <1>0, <1>3, <2>2
  <2>4. At(tseq[c])
    BY <1>0, <1>3, <2>1, <2>3, PublishedAt
  <2>5. QED
    BY <1>2, <2>2, <2>3, <2>4
<1>6. QED
  BY <1>4, <1>5

LEMMA WalkReading ==
    ASSUME Inv, Unmoved, NEW c \in Consumers, Walk(c) \/ WorkStep(c), SameRange(c), WalkedPast(c)
    PROVE  ReadingSound(c)'
<1>0. /\ TypeInv /\ ReadingSound(c)
      /\ tseq[c] \in Nat /\ oldestEi[c] \in Nat /\ newestEi[c] \in Nat /\ Epoch(tseq[c]) \in Nat
  BY ViewTypes DEF Inv, Base, ReadingsSound
<1>1. /\ Reading(c) /\ At(tseq[c]) /\ oldestEi[c] <= Epoch(tseq[c])
      /\ job[c] = "position" => newestEi[c] <= Epoch(tseq[c])
  BY WalkedAt
<1>2. PICK t \in Nat : t = Tnext[Idx(tseq[c])]
  BY <1>1, WalkedBoundary
<1>3. Boundary(t) /\ Epoch(tseq[c]) <= Epoch(t) /\ Epoch(t) \in Nat
  BY <1>1, <1>2, WalkedBoundary, EpochType
<1>4. tseq'[c] = t /\ nextSeq'[c] = nextSeq[c] /\ ret'[c] = ret[c] /\ cpc'[c] = "walk"
      /\ oldestEi'[c] = oldestEi[c] /\ newestEi'[c] = newestEi[c]
  BY <1>2 DEF WalkedPast, SameRange
<1>5. PICK a : a = sweepSeq[c]
  OBVIOUS
<1>6. PICK b : b = oldSweepSeq[c]
  OBVIOUS
<1>7. Boundary(a)' = Boundary(a) /\ Boundary(b)' = Boundary(b) /\ Boundary(t)' = Boundary(t)
  BY DEF Unmoved
<1>8. sweepSeq'[c] = 0 \/ (Boundary(sweepSeq[c])' /\ Epoch(sweepSeq'[c]) >= newestEi[c])
  <2>1. a = 0 \/ (Boundary(a) /\ Epoch(a) >= newestEi[c])
    BY <1>0, <1>1, <1>5 DEF ReadingSound
  <2>2. CASE sweepSeq'[c] = a
    <3>1. Boundary(sweepSeq[c])' = Boundary(a)'
      BY <2>2
    <3>2. QED
      BY <1>7, <2>1, <2>2, <3>1
  <2>3. CASE job[c] = "position" /\ sweepSeq'[c] = t
    <3>1. Boundary(sweepSeq[c])' = Boundary(t)'
      BY <2>3
    <3>2. Epoch(t) >= newestEi[c]
      BY <1>0, <1>1, <1>3, <2>3
    <3>3. QED
      BY <1>3, <1>7, <2>3, <3>1, <3>2
  <2>4. QED
    BY <1>4, <1>5, <2>2, <2>3 DEF WalkedPast
<1>9. oldSweepSeq'[c] = 0 \/ (Boundary(oldSweepSeq[c])' /\ Epoch(oldSweepSeq'[c]) >= oldestEi[c])
  <2>1. b = 0 \/ (Boundary(b) /\ Epoch(b) >= oldestEi[c])
    BY <1>0, <1>1, <1>6 DEF ReadingSound
  <2>2. CASE oldSweepSeq'[c] = b
    <3>1. Boundary(oldSweepSeq[c])' = Boundary(b)'
      BY <2>2
    <3>2. QED
      BY <1>7, <2>1, <2>2, <3>1
  <2>3. CASE oldSweepSeq'[c] = t
    <3>1. Boundary(oldSweepSeq[c])' = Boundary(t)'
      BY <2>3
    <3>2. Epoch(t) >= oldestEi[c]
      BY <1>0, <1>1, <1>3
    <3>3. QED
      BY <1>3, <1>7, <2>3, <3>1, <3>2
  <2>4. QED
    BY <1>4, <1>6, <2>2, <2>3 DEF WalkedPast
<1>10. /\ \A e \in Nat : newestEi[c] < e /\ e <= Epoch(nextSeq[c]) => Initialised(e)'
       /\ \A p \in Producers : Writing(p)' /\ Epoch(wret'[p]) >= oldestEi[c] => wret'[p] >= nextSeq[c]
       /\ \A i \in Tables' : Tsent'[i] < nextSeq[c] => Epoch(Tsent'[i]) <= newestEi[c]
       /\ \A e \in Nat : Worked(e)' => e >= oldestEi[c]
  BY <1>0, <1>1 DEF Unmoved, ReadingSound
<1>11. QED
  BY <1>4, <1>8, <1>9, <1>10 DEF ReadingSound, Moving

(* It drops an epoch that has no work left.                                *)
LEMMA DropReading ==
    ASSUME Inv, Unmoved, NEW c \in Consumers, Reading(c), DecLeaf(c) \/ DecRoot(c)
    PROVE  ReadingSound(c)'
<1>0. /\ TypeInv /\ ReadingSound(c) /\ oldestEi[c] \in Nat /\ newestEi[c] \in Nat
  BY ViewTypes DEF Inv, Base, ReadingsSound
<1>1. /\ cpc[c] \in {"decLeaf", "decRoot"}
      /\ ret'[c] = ret[c] /\ nextSeq'[c] = nextSeq[c] /\ newestEi'[c] = newestEi[c]
      /\ sweepSeq'[c] = sweepSeq[c]
      /\ \/ cpc'[c] = "decRoot" /\ SameRange(c) /\ SameCursors(c)
         \/ /\ oldestEi'[c] = oldestEi[c] + 1 /\ oldSweepSeq'[c] = 0
            /\ cpc'[c] = IF ret[c] = "leaving" THEN "leaving" ELSE "release"
  BY <1>0, DropStep
<1>2. Behind(c) /\ \A e \in Nat : Worked(e) => e > oldestEi[c]
  BY <1>0, <1>1 DEF ReadingSound
<1>3. CASE cpc'[c] = "decRoot" /\ SameRange(c) /\ SameCursors(c)
  <2>1. cpc'[c] \notin Moving /\ cpc'[c] # "sweepOldest" /\ cpc'[c] # "work"
    BY <1>3 DEF Moving
  <2>2. QED
    BY <1>0, <1>1, <1>2, <1>3, <2>1, KeptReading
<1>4. CASE /\ oldestEi'[c] = oldestEi[c] + 1 /\ oldSweepSeq'[c] = 0
           /\ cpc'[c] = IF ret[c] = "leaving" THEN "leaving" ELSE "release"
  <2>1. PICK a : a = sweepSeq[c]
    OBVIOUS
  <2>2. Boundary(a)' = Boundary(a) /\ Boundary(sweepSeq[c])' = Boundary(a)'
    BY <1>1, <2>1 DEF Unmoved
  <2>3. sweepSeq[c] = 0 \/ (Boundary(sweepSeq[c])' /\ Epoch(sweepSeq[c]) >= newestEi[c])
    BY <1>0, <2>1, <2>2 DEF ReadingSound
  <2>4. /\ \A e \in Nat : newestEi[c] < e /\ e <= Epoch(nextSeq[c]) => Initialised(e)'
        /\ \A p \in Producers : Writing(p)' /\ Epoch(wret'[p]) >= oldestEi[c] => wret'[p] >= nextSeq[c]
        /\ \A i \in Tables' : Tsent'[i] < nextSeq[c] => Epoch(Tsent'[i]) <= newestEi[c]
    BY <1>0 DEF Unmoved, ReadingSound
  <2>5. \A e \in Nat : Worked(e)' => e >= oldestEi[c] + 1
    BY <1>0, <1>2 DEF Unmoved
  <2>6. \A p \in Producers : Writing(p)' /\ Epoch(wret'[p]) >= oldestEi[c] + 1 => wret'[p] >= nextSeq[c]
    <3>1. SUFFICES ASSUME NEW p \in Producers, Writing(p)', Epoch(wret'[p]) >= oldestEi[c] + 1
                   PROVE  Epoch(wret'[p]) >= oldestEi[c]
      BY <2>4
    <3>2. wret'[p] = wret[p] /\ Epoch(wret[p]) \in Nat
      BY <1>0, LayoutTypes, EpochType DEF Unmoved
    <3>3. QED
      BY <1>0, <3>1, <3>2
  <2>7. cpc'[c] \notin Moving \cup {"work", "sweepOldest", "clear", "decLeaf", "decRoot"}
    BY <1>4 DEF Moving
  <2>8. QED
    BY <1>1, <1>4, <2>3, <2>4, <2>5, <2>6, <2>7 DEF ReadingSound
<1>5. QED
  BY <1>1, <1>3, <1>4

(* The steps of a view that neither moves, nor passes, nor drops.          *)
LEMMA RestReading ==
    ASSUME Inv, TypeInv', Unmoved, NEW c \in Consumers, Reading(c)',
           \/ Poll(c) \/ Migrate(c) \/ Release(c) \/ ClearLive(c) \/ LeavingStep(c)
           \/ SweepOldest(c) \/ SweepPosition(c) \/ EndWalk(c)
    PROVE  ReadingSound(c)'
<1>0. /\ TypeInv /\ Layout /\ QuotaSound /\ RangesSound /\ ReadingSound(c) /\ RangeSound(c)
      /\ SlotsSound /\ EpochsSplit /\ SdSound
      /\ oldestEi[c] \in Nat /\ newestEi[c] \in Nat /\ nextSeq[c] \in Nat
  BY ViewTypes DEF Inv, Base, EpochInv, ViewInv, WorkInv, ReadingsSound, RangesSound
<1>1. /\ cpc[c] \in {"ready", "migrate", "release", "clear", "leave", "leaving", "sweepOldest",
                     "sweepPosition", "walk"}
      /\ Attached(c)
  BY DEF Poll, Migrate, Release, ClearLive, LeavingStep, Unsubscribe, Leave, LeaveEpoch,
     SweepOldest, SweepPosition, EndWalk, Attached, SubscribePhases
<1>2. ret[c] = "leaving" => ret'[c] = "leaving"
  BY <1>0, PollStep, MigrateStep, ReleaseStep, ClearLiveStep, LeaveSteps, SweepSteps, EndWalkStep, <1>1
  DEF TypeInv, LeavingSound, LeavingPhases, LeavingStep, Poll, Migrate, SweepOldest, SweepPosition,
      EndWalk, Unsubscribe, Leave, LeaveEpoch, ClearLive, Release
<1>3. Reading(c) /\ ret'[c] # "leaving"
  BY <1>1, <1>2 DEF Reading
<1>4. cpc[c] # "leaving"
  BY <1>0, <1>3 DEF TypeInv, LeavingSound, Reading
<1>5. SameRange(c) /\ SameCursors(c) /\ nextSeq'[c] = nextSeq[c]
  <2>1. CASE ClearLive(c)
    BY <1>0, <2>1, ClearLiveStep DEF SameRange, SameCursors, viewVars
  <2>2. CASE ~ClearLive(c)
    BY <1>0, <2>2, PollStep, MigrateStep, ReleaseStep, LeaveSteps, SweepSteps, EndWalkStep
    DEF SameView, LeavingStep
  <2>3. QED
    BY <2>1, <2>2
<1>6. ASSUME \/ Rested(c)
             \/ cpc'[c] \in {"migrate", "walk", "release"}
      PROVE  ReadingSound(c)'
  <2>1. /\ cpc'[c] \notin Moving \cup {"work", "clear", "decLeaf", "decRoot"}
        /\ cpc'[c] = "sweepOldest" => Behind(c)
    BY <1>6 DEF Rested, RestPhases, Moving
  <2>2. QED
    BY <1>0, <1>3, <1>5, <2>1, KeptReading
<1>7. ASSUME cpc'[c] = "moveLeaf", ret'[c] = "work" => At(nextSeq[c])
      PROVE  ReadingSound(c)'
  <2>1. cpc'[c] \notin {"work", "clear", "decLeaf", "decRoot", "sweepOldest"}
    BY <1>7
  <2>2. QED
    BY <1>0, <1>3, <1>5, <1>7, <2>1, KeptReading
<1>8. ASSUME cpc'[c] \in {"clear", "decLeaf"},
             Behind(c) /\ \A e \in Nat : Worked(e) => e > oldestEi[c]
      PROVE  ReadingSound(c)'
  <2>1. cpc'[c] \notin Moving \cup {"work", "sweepOldest"}
    BY <1>8 DEF Moving
  <2>2. QED
    BY <1>0, <1>3, <1>5, <1>8, <2>1, KeptReading
<1>9. CASE Poll(c)
  <2>1. ASSUME Published(nextSeq[c]) PROVE At(nextSeq[c])
    <3>1. oldestEi[c] \in Nat /\ Protected(oldestEi[c]) /\ oldestEi[c] <= Epoch(nextSeq[c])
      <4>1. oldestEi[c] \in Nat /\ Protected(oldestEi[c]) /\ oldestEi[c] <= newestEi[c]
            /\ newestEi[c] <= Epoch(nextSeq[c]) /\ Epoch(nextSeq[c]) \in Nat
        BY <1>0, <1>3, ReadingHolds, EpochType
      <4>2. QED
        BY <1>0, <4>1
    <3>2. QED
      BY <1>0, <2>1, <3>1, PublishedAt
  <2>2. QED
    BY <1>0, <1>6, <1>7, <1>9, <2>1, PollStep
<1>10. CASE Migrate(c)
  <2>1. ret[c] # "work" /\ cpc[c] = "migrate"
    BY <1>0, <1>1, <1>10, MigrateStep DEF RangeSound
  <2>2. QED
    BY <1>0, <1>6, <1>7, <1>10, <2>1, MigrateStep
<1>11. CASE Release(c)
  <2>1. ASSUME Behind(c), Confirmed(oldestEi[c]) PROVE \A e \in Nat : Worked(e) => e > oldestEi[c]
    <3>1. InWindow(oldestEi[c])
      BY <1>0, <1>3, ReadingHolds
    <3>2. ~Worked(oldestEi[c])
      BY <1>0, <2>1, <3>1, ConfirmedDone
    <3>3. ASSUME NEW e \in Nat, Worked(e) PROVE e > oldestEi[c]
      <4>1. e >= oldestEi[c]
        BY <1>0, <1>3, <3>3 DEF ReadingSound
      <4>2. e # oldestEi[c]
        BY <3>2, <3>3
      <4>3. QED
        BY <1>0, <4>1, <4>2
    <3>4. QED
      BY <3>3
  <2>2. QED
    BY <1>0, <1>6, <1>8, <1>11, <2>1, ReleaseStep
<1>12. CASE ClearLive(c)
  <2>1. cpc[c] = "clear" /\ cpc'[c] = "decLeaf"
    BY <1>0, <1>12, ClearLiveStep
  <2>2. Behind(c) /\ \A e \in Nat : Worked(e) => e > oldestEi[c]
    BY <1>0, <1>3, <2>1 DEF ReadingSound
  <2>3. QED
    BY <1>8, <2>1, <2>2
<1>13. CASE LeavingStep(c)
  BY <1>0, <1>3, <1>4, <1>6, <1>13, LeaveSteps DEF LeavingStep
<1>14. CASE SweepOldest(c) \/ SweepPosition(c)
  BY <1>0, <1>6, <1>14, SweepSteps
<1>15. CASE EndWalk(c)
  BY <1>0, <1>6, <1>15, EndWalkStep
<1>16. QED
  BY <1>9, <1>10, <1>11, <1>12, <1>13, <1>14, <1>15

LEMMA EnteredReading ==
    ASSUME Inv, Unmoved, NEW c \in Consumers, Reading(c), SameRange(c), SameCursors(c),
           nextSeq'[c] = nextSeq[c], cpc'[c] \in ClaimPhases
    PROVE  ReadingSound(c)'
<1>1. TypeInv /\ ReadingSound(c)
  BY DEF Inv, Base, ReadingsSound
<1>2. cpc'[c] \notin Moving \cup {"work", "sweepOldest", "clear", "decLeaf", "decRoot"}
  BY DEF Moving, ClaimPhases
<1>3. QED
  BY <1>1, <1>2, KeptReading

LEMMA ReadingStep ==
    ASSUME Inv, TypeInv', Unmoved, NEW c \in Consumers, ConsumerNext(c)
    PROVE  ReadingSound(c)'
<1>0. TypeInv /\ ReadingSound(c)
  BY DEF Inv, Base, ReadingsSound
<1>1. SUFFICES ASSUME Reading(c)' PROVE ReadingSound(c)'
  BY DEF ReadingSound
<1>2. Attached(c)' /\ ret'[c] # "leaving"
  BY <1>1 DEF Reading
<1>3. CASE ScanStep(c)
  BY <1>0, <1>2, <1>3, ScanSteps
<1>4. CASE Attach(c)
  BY <1>4, AttachReading
<1>5. CASE AttachedStep(c)
  <2>1. /\ SameRange(c) /\ SameCursors(c) /\ nextSeq'[c] = nextSeq[c] /\ ret'[c] = ret[c]
        /\ cpc[c] \in {"subRoot", "unpinAll", "retry"} /\ cpc'[c] \in {"unpinAll", "retry", "ready", "off"}
        /\ cpc[c] = "retry" <=> cpc'[c] \in {"retry", "off"}
    BY <1>0, <1>5, AttachedStays
  <2>2. cpc'[c] \in {"unpinAll", "ready"} /\ cpc[c] # "retry"
    BY <1>2, <2>1 DEF Attached, SubscribePhases
  <2>3. Reading(c)
    BY <1>2, <2>1, <2>2 DEF Reading, Attached, SubscribePhases
  <2>4. cpc'[c] \notin Moving \cup {"work", "sweepOldest", "clear", "decLeaf", "decRoot"}
    BY <2>2 DEF Moving
  <2>5. QED
    BY <1>0, <2>1, <2>3, <2>4, KeptReading
<1>6. CASE MoveLeaf(c) \/ MoveRoot(c)
  <2>1. cpc[c] \in Moving
    BY <1>6 DEF MoveLeaf, MoveRoot, Moving
  <2>2. /\ oldestEi'[c] = oldestEi[c] /\ oldSweepSeq'[c] = oldSweepSeq[c]
        /\ nextSeq'[c] = nextSeq[c] /\ ret'[c] = ret[c]
        /\ \/ /\ cpc'[c] = "moveRoot" /\ at'[c] = at[c] /\ newestEi'[c] = newestEi[c]
              /\ sweepSeq'[c] = sweepSeq[c]
           \/ Advanced(c)
    BY <1>0, <1>6, MoveLeafStep, MoveRootStep
  <2>3. Reading(c)
    BY <1>2, <2>1, <2>2 DEF Reading, Attached, SubscribePhases, Moving
  <2>4. QED
    BY <2>1, <2>2, <2>3, MoveReading
<1>7. CASE Visit(c)
  <2>1. At(nextSeq[c]) /\ Epoch(nextSeq[c]) = newestEi[c] /\ Reading(c)
    BY <1>0, <1>7, VisitStep, VisitedAt
  <2>2. SameRange(c) /\ SameCursors(c)
    BY <1>0, <1>7, VisitStep
  <2>3. CASE Passed(c)
    BY <2>1, <2>2, <2>3, PassReading
  <2>4. CASE \E j \in {"visit", "carried"} : Entered(c, nextSeq[c], j)
    BY <2>1, <2>2, <2>4, EnteredReading DEF Entered, ClaimPhases
  <2>5. QED
    BY <1>0, <1>7, <2>3, <2>4, VisitStep
<1>8. CASE Walk(c)
  <2>1. SameRange(c) /\ Reading(c)
    BY <1>0, <1>8, WalkStep, WalkedAt
  <2>2. CASE WalkedPast(c)
    BY <1>8, <2>1, <2>2, WalkReading
  <2>3. CASE Entered(c, tseq[c], job[c])
    BY <2>1, <2>3, EnteredReading DEF Entered, ClaimPhases
  <2>4. QED
    BY <1>0, <1>8, <2>2, <2>3, WalkStep
<1>9. CASE WorkStep(c)
  <2>1. /\ SameRange(c) /\ Reading(c) /\ At(tseq[c])
        /\ job[c] \in {"visit", "carried"} => tseq[c] = nextSeq[c] /\ Epoch(tseq[c]) = newestEi[c]
    BY <1>0, <1>9, WorkSteps, WalkedAt
  <2>2. CASE job[c] \in {"visit", "carried"} /\ Passed(c) /\ SameCursors(c)
    BY <2>1, <2>2, PassReading
  <2>3. CASE WalkedPast(c)
    BY <1>9, <2>1, <2>3, WalkReading
  <2>4. CASE cpc'[c] \in ClaimPhases /\ SameView(c)
    BY <2>1, <2>4, EnteredReading DEF SameView
  <2>5. QED
    BY <1>0, <1>9, <2>2, <2>3, <2>4, WorkSteps DEF Done
<1>10. CASE DecLeaf(c) \/ DecRoot(c)
  <2>1. Reading(c)
    BY <1>0, <1>2, <1>10, DropStep DEF Reading, Attached, SubscribePhases
  <2>2. QED
    BY <1>10, <2>1, DropReading
<1>11. CASE Left(c)
  BY <1>0, <1>2, <1>11, LeftStep DEF Attached
<1>12. QED
  BY <1>1, <1>3, <1>4, <1>5, <1>6, <1>7, <1>8, <1>9, <1>10, <1>11, ConsumerCases, RestReading DEF ScanStep

LEMMA ConsumerReadings ==
    ASSUME Inv, TypeInv', NEW c \in Consumers, ConsumerNext(c), UNCHANGED producerVars
    PROVE  ReadingsSound'
<1>0. TypeInv /\ ReadingsSound /\ Unmoved
  BY UnmovedStep DEF Inv, Base
<1>1. ASSUME NEW d \in Consumers PROVE ReadingSound(d)'
  <2>1. CASE d = c
    BY <1>0, <2>1, ReadingStep
  <2>2. CASE d # c
    <3>1. ViewStill(d)
      BY <1>0, <2>2, OthersAlone
    <3>2. Reading(d)' <=> Reading(d)
      BY <3>1 DEF ViewStill, Reading, Attached
    <3>3. CASE Reading(d)
      <4>1. SameRange(d) /\ SameCursors(d)
        BY <3>1 DEF ViewStill, SameRange, SameCursors
      <4>2. ReadingSound(d)
        BY <1>0 DEF ReadingsSound
      <4>3. /\ cpc'[d] = "work" => cpc[d] = "work"
            /\ cpc'[d] \in Moving /\ ret'[d] = "work" => At(nextSeq[d])
            /\ cpc'[d] = "sweepOldest" => Behind(d)
        BY <3>1, <3>3, <4>2 DEF ViewStill, ReadingSound
      <4>4. cpc'[d] \in {"clear", "decLeaf", "decRoot"} =>
              Behind(d) /\ \A e \in Nat : Worked(e) => e > oldestEi[d]
        BY <3>1, <3>3, <4>2 DEF ViewStill, ReadingSound
      <4>5. nextSeq'[d] = nextSeq[d]
        BY <3>1 DEF ViewStill
      <4>6. QED
        BY <1>0, <3>3, <4>1, <4>2, <4>3, <4>4, <4>5, KeptReading
    <3>4. CASE ~Reading(d)
      BY <3>2, <3>4 DEF ReadingSound
    <3>5. QED
      BY <3>3, <3>4
  <2>3. QED
    BY <2>1, <2>2
<1>2. QED
  BY <1>1 DEF ReadingsSound

-----------------------------------------------------------------------------
(* Walks.                                                                  *)

(* Only these steps lead to a table, or to a place to look for one.        *)
LEMMA WalkEntries ==
    ASSUME TypeInv, NEW c \in Consumers, ConsumerNext(c), cpc'[c] \in ClaimPhases \cup {"walk"}
    PROVE  Visit(c) \/ Walk(c) \/ WorkStep(c) \/ SweepOldest(c) \/ SweepPosition(c)
<1>1. CASE ScanStep(c)
  <2>1. ~Attached(c)'
    BY <1>1, ScanSteps
  <2>2. QED
    BY <2>1 DEF Attached, SubscribePhases, ClaimPhases
<1>2. CASE Attach(c)
  BY <1>2, AttachStep DEF ClaimPhases
<1>3. CASE AttachedStep(c)
  BY <1>3, AttachedStays DEF ClaimPhases
<1>4. CASE Poll(c)
  BY <1>4, PollStep DEF ClaimPhases, Rested, RestPhases
<1>5. CASE MoveLeaf(c)
  BY <1>5, MoveLeafStep DEF ClaimPhases, Advanced
<1>6. CASE MoveRoot(c)
  BY <1>6, MoveRootStep DEF ClaimPhases, Advanced
<1>7. CASE Migrate(c)
  BY <1>7, MigrateStep DEF ClaimPhases, Rested, RestPhases
<1>8. CASE Release(c)
  BY <1>8, ReleaseStep DEF ClaimPhases, Rested, RestPhases
<1>9. CASE ClearLive(c)
  BY <1>9, ClearLiveStep DEF ClaimPhases
<1>10. CASE DecLeaf(c) \/ DecRoot(c)
  BY <1>10, DropStep DEF ClaimPhases
<1>11. CASE LeavingStep(c)
  BY <1>11, LeaveSteps DEF LeavingStep, ClaimPhases, Rested, RestPhases
<1>12. CASE Left(c)
  BY <1>12, LeftStep DEF ClaimPhases
<1>13. CASE EndWalk(c)
  BY <1>13, EndWalkStep DEF ClaimPhases, Rested, RestPhases
<1>14. QED
  BY <1>1, <1>2, <1>3, <1>4, <1>5, <1>6, <1>7, <1>8, <1>9, <1>10, <1>11, <1>12, <1>13,
     ConsumerCases DEF ScanStep

(* A re-walk starts from a place.                                          *)
LEMMA WalkStarts ==
    ASSUME Inv, NEW c \in Consumers, SweepOldest(c) \/ SweepPosition(c), cpc'[c] = "walk"
    PROVE  /\ job'[c] \in {"position", "trailing"}
           /\ \E s \in Nat :
                /\ tseq'[c] = s /\ Boundary(s)
                /\ job'[c] = "position" => Epoch(s) >= newestEi[c]
                /\ job'[c] = "trailing" => Epoch(s) >= oldestEi[c] /\ Behind(c)
<1>0. /\ TypeInv /\ Layout /\ QuotaSound /\ KeptSound /\ RangesSound /\ ReadingSound(c)
      /\ SlotsSound /\ EpochsSplit
      /\ oldestEi[c] \in Nat /\ newestEi[c] \in Nat
      /\ sweepSeq[c] \in Nat /\ oldSweepSeq[c] \in Nat
  BY ViewTypes DEF Inv, Base, EpochInv, ViewInv, ReadingsSound
<1>1. cpc[c] \in {"sweepOldest", "sweepPosition"} /\ Attached(c) /\ cpc[c] \notin LeavingPhases
  BY DEF SweepOldest, SweepPosition, Attached, SubscribePhases, LeavingPhases
<1>2. Reading(c)
  BY <1>0, <1>1, ReadsUnless
<1>3. oldestEi[c] <= newestEi[c]
  BY <1>0, <1>2, ReadingHolds
<1>4. Held(c, oldestEi[c]) /\ Held(c, newestEi[c])
  BY <1>0, <1>1, <1>3, RangeHeld
<1>5. ASSUME NEW e \in Nat, Held(c, e)
      PROVE  /\ Seqt[Slot(e)] \in Nat /\ Boundary(Seqt[Slot(e)])
             /\ Epoch(Seqt[Slot(e)]) >= e
  <2>1. Initialised(e) /\ InWindow(e)
    BY <1>0, <1>5, HeldKept
  <2>2. EpochSplit(e) /\ e <= Epoch(Seqt[Slot(e)])
    BY <1>0, <2>1, BegunBefore DEF EpochsSplit
  <2>3. Slot(e) \in Slots /\ Seqt[Slot(e)] \in Nat
    BY <1>0, StatTypes
  <2>4. Epoch(Seqt[Slot(e)]) \in Nat
    BY <2>3, EpochType
  <2>5. QED
    BY <2>2, <2>3, <2>4 DEF EpochSplit
<1>6. ASSUME NEW e \in Nat, Held(c, e), NEW n \in Nat, n = 0 \/ (Boundary(n) /\ Epoch(n) >= e)
      PROVE  \E s \in Nat : s = Larger(Seqt[Slot(e)], n) /\ Boundary(s) /\ Epoch(s) >= e
  <2>1. PICK m \in Nat : m = Seqt[Slot(e)] /\ Boundary(m) /\ Epoch(m) >= e
    BY <1>5, <1>6
  <2>2. Larger(m, n) \in {m, n} /\ (n = 0 => Larger(m, n) = m)
    BY DEF Larger
  <2>3. QED
    BY <1>6, <2>1, <2>2
<1>7. CASE /\ cpc[c] = "sweepOldest" /\ job'[c] = "trailing"
           /\ tseq'[c] = Larger(Seqt[Slot(oldestEi[c])], oldSweepSeq[c])
  <2>1. Behind(c) /\ (oldSweepSeq[c] = 0 \/ (Boundary(oldSweepSeq[c]) /\ Epoch(oldSweepSeq[c]) >= oldestEi[c]))
    BY <1>0, <1>2, <1>7 DEF ReadingSound
  <2>2. \E s \in Nat : s = Larger(Seqt[Slot(oldestEi[c])], oldSweepSeq[c]) /\ Boundary(s) /\ Epoch(s) >= oldestEi[c]
    BY <1>0, <1>4, <1>6, <2>1
  <2>3. QED
    BY <1>7, <2>1, <2>2
<1>8. CASE /\ cpc[c] = "sweepPosition" /\ job'[c] = "position"
           /\ tseq'[c] = Larger(Seqt[Slot(newestEi[c])], sweepSeq[c])
  <2>1. sweepSeq[c] = 0 \/ (Boundary(sweepSeq[c]) /\ Epoch(sweepSeq[c]) >= newestEi[c])
    BY <1>0, <1>2 DEF ReadingSound
  <2>2. \E s \in Nat : s = Larger(Seqt[Slot(newestEi[c])], sweepSeq[c]) /\ Boundary(s) /\ Epoch(s) >= newestEi[c]
    BY <1>0, <1>4, <1>6, <2>1
  <2>3. QED
    BY <1>8, <2>2
<1>9. QED
  BY <1>0, <1>7, <1>8, SweepSteps DEF Rested, RestPhases

LEMMA WalkOn ==
    ASSUME Inv, TypeInv', Unmoved, NEW c \in Consumers, Walk(c) \/ WorkStep(c), SameRange(c),
           WalkedPast(c), job[c] \in {"position", "trailing"}
    PROVE  WalkSound(c)'
<1>0. /\ TypeInv /\ WalkSound(c)
      /\ tseq[c] \in Nat /\ oldestEi[c] \in Nat /\ newestEi[c] \in Nat /\ Epoch(tseq[c]) \in Nat
  BY ViewTypes DEF Inv, Base, WalksSound
<1>1. /\ Reading(c) /\ At(tseq[c]) /\ oldestEi[c] <= Epoch(tseq[c])
      /\ job[c] = "position" => newestEi[c] <= Epoch(tseq[c])
  BY WalkedAt
<1>2. PICK t \in Nat : t = Tnext[Idx(tseq[c])]
  BY <1>1, WalkedBoundary
<1>3. Boundary(t) /\ Epoch(tseq[c]) <= Epoch(t) /\ Epoch(t) \in Nat
  BY <1>1, <1>2, WalkedBoundary, EpochType
<1>4. tseq'[c] = t /\ job'[c] = job[c] /\ cpc'[c] = "walk"
      /\ oldestEi'[c] = oldestEi[c] /\ newestEi'[c] = newestEi[c]
  BY <1>2 DEF WalkedPast, SameRange
<1>5. Boundary(tseq[c])'
  <2>1. Boundary(t)' = Boundary(t) /\ Boundary(tseq[c])' = Boundary(t)'
    BY <1>4 DEF Unmoved
  <2>2. QED
    BY <1>3, <2>1
<1>6. job[c] = "trailing" => Behind(c)
  <2>1. cpc[c] \in ClaimPhases \cup {"walk"}
    BY <1>0, WalkStep, WorkSteps
  <2>2. QED
    BY <1>0, <2>1 DEF WalkSound
<1>7. /\ job[c] = "position" => Epoch(t) >= newestEi[c]
      /\ job[c] = "trailing" => Epoch(t) >= oldestEi[c]
  BY <1>0, <1>1, <1>3
<1>8. Behind(c)' <=> Behind(c)
  BY <1>4 DEF Behind
<1>9. QED
  BY <1>4, <1>5, <1>6, <1>7, <1>8 DEF WalkSound, ClaimPhases

LEMMA AtStill ==
    ASSUME Unmoved, NEW c \in Consumers, tseq'[c] = tseq[c]
    PROVE  At(tseq[c])' = At(tseq[c]) /\ Boundary(tseq[c])' = Boundary(tseq[c])
<1>1. PICK t : t = tseq[c]
  OBVIOUS
<1>2. At(t)' = At(t) /\ Boundary(t)' = Boundary(t)
  BY DEF Unmoved
<1>3. At(tseq[c])' = At(t)' /\ Boundary(tseq[c])' = Boundary(t)'
  BY <1>1
<1>4. QED
  BY <1>1, <1>2, <1>3

LEMMA WalkStays ==
    ASSUME Unmoved, NEW c \in Consumers, WalkSound(c), SameRange(c), SameClaim(c),
           nextSeq'[c] = nextSeq[c],
           cpc[c] \in ClaimPhases <=> cpc'[c] \in ClaimPhases,
           cpc[c] = "walk" <=> cpc'[c] = "walk"
    PROVE  WalkSound(c)'
<1>1. At(tseq[c])' = At(tseq[c]) /\ Boundary(tseq[c])' = Boundary(tseq[c])
  BY AtStill DEF SameClaim
<1>2. /\ tseq'[c] = tseq[c] /\ job'[c] = job[c]
      /\ oldestEi'[c] = oldestEi[c] /\ newestEi'[c] = newestEi[c]
  BY DEF SameRange, SameClaim
<1>3. Behind(c)' <=> Behind(c)
  BY <1>2 DEF Behind
<1>4. QED
  BY <1>1, <1>2, <1>3 DEF WalkSound

LEMMA VisitWalk ==
    ASSUME Inv, TypeInv', Unmoved, NEW c \in Consumers, Visit(c), cpc'[c] \in ClaimPhases \cup {"walk"}
    PROVE  WalkSound(c)'
<1>0. /\ TypeInv /\ Layout /\ QuotaSound /\ RangesSound
      /\ oldestEi[c] \in Nat /\ newestEi[c] \in Nat
  BY ViewTypes DEF Inv, Base, ViewInv
<1>1. At(nextSeq[c]) /\ Epoch(nextSeq[c]) = newestEi[c] /\ Reading(c)
  BY <1>0, VisitStep, VisitedAt
<1>2. SameRange(c)
  BY <1>0, VisitStep
<1>3. PICK j \in {"visit", "carried"} : Entered(c, nextSeq[c], j)
  BY <1>0, VisitStep DEF Passed, Rested, RestPhases, ClaimPhases
<1>4. /\ cpc'[c] = "claim" /\ job'[c] = j /\ tseq'[c] = nextSeq[c] /\ nextSeq'[c] = nextSeq[c]
      /\ oldestEi'[c] = oldestEi[c] /\ newestEi'[c] = newestEi[c] /\ oldestEi[c] <= newestEi[c]
  BY <1>0, <1>1, <1>2, <1>3, ReadingHolds DEF Entered, SameRange
<1>5. At(tseq[c])'
  <2>1. PICK s : s = nextSeq[c]
    OBVIOUS
  <2>2. At(s)' = At(s) /\ At(tseq[c])' = At(s)'
    BY <1>4, <2>1 DEF Unmoved
  <2>3. QED
    BY <1>1, <2>1, <2>2
<1>6. QED
  BY <1>0, <1>1, <1>4, <1>5 DEF WalkSound, ClaimPhases

LEMMA WalkStops ==
    ASSUME Inv, TypeInv', Unmoved, NEW c \in Consumers, Walk(c), Entered(c, tseq[c], job[c])
    PROVE  WalkSound(c)'
<1>0. /\ TypeInv /\ Layout /\ QuotaSound /\ RangesSound /\ WalkSound(c) /\ ReadingSound(c)
      /\ oldestEi[c] \in Nat /\ newestEi[c] \in Nat /\ tseq[c] \in Nat /\ Epoch(tseq[c]) \in Nat
  BY ViewTypes DEF Inv, Base, ViewInv, WalksSound, ReadingsSound
<1>1. /\ Reading(c) /\ At(tseq[c]) /\ oldestEi[c] <= Epoch(tseq[c])
      /\ job[c] = "position" => newestEi[c] <= Epoch(tseq[c])
  BY WalkedAt
<1>2. SameRange(c) /\ cpc[c] = "walk" /\ tseq[c] < WalkEnd(c)
  BY <1>0, WalkStep
<1>3. /\ cpc'[c] = "claim" /\ job'[c] = job[c] /\ tseq'[c] = tseq[c]
      /\ oldestEi'[c] = oldestEi[c] /\ newestEi'[c] = newestEi[c] /\ oldestEi[c] <= newestEi[c]
  BY <1>0, <1>1, <1>2, ReadingHolds DEF Entered, SameRange
<1>4. At(tseq[c])'
  BY <1>1, <1>3, AtStill
<1>5. job[c] \in {"position", "trailing"} /\ (job[c] = "trailing" => Behind(c))
  BY <1>0, <1>2 DEF WalkSound
<1>6. CASE job[c] = "position"
  <2>1. tseq[c] < nextSeq[c]
    BY <1>2, <1>6 DEF WalkEnd
  <2>2. PICK i \in Tables : Tsent[i] = tseq[c]
    BY <1>1 DEF At
  <2>3. Epoch(tseq[c]) <= newestEi[c]
    BY <1>0, <1>1, <2>1, <2>2 DEF ReadingSound
  <2>4. Epoch(tseq[c]) = newestEi[c]
    BY <1>0, <1>1, <1>6, <2>3
  <2>5. QED
    BY <1>0, <1>1, <1>3, <1>4, <1>6, <2>4 DEF WalkSound, ClaimPhases
<1>7. CASE job[c] = "trailing"
  <2>1. tseq[c] < (oldestEi[c] + 1) * SegCap
    BY <1>2, <1>7 DEF WalkEnd
  <2>2. Epoch(tseq[c]) <= oldestEi[c]
    BY <1>0, <2>1, EpochEnds
  <2>3. Epoch(tseq[c]) = oldestEi[c] /\ Behind(c)
    BY <1>0, <1>1, <1>5, <1>7, <2>2
  <2>4. Behind(c)'
    BY <1>3, <2>3 DEF Behind
  <2>5. QED
    BY <1>0, <1>1, <1>3, <1>4, <1>7, <2>3, <2>4 DEF WalkSound, ClaimPhases
<1>8. QED
  BY <1>5, <1>6, <1>7

LEMMA WalkSoundStep ==
    ASSUME Inv, TypeInv', Unmoved, NEW c \in Consumers, ConsumerNext(c)
    PROVE  WalkSound(c)'
<1>0. TypeInv /\ WalkSound(c) /\ job[c] \in Jobs
  BY ViewTypes DEF Inv, Base, WalksSound
<1>1. CASE cpc'[c] \notin ClaimPhases \cup {"walk"}
  BY <1>1 DEF WalkSound
<1>2. CASE Visit(c) /\ cpc'[c] \in ClaimPhases \cup {"walk"}
  BY <1>2, VisitWalk
<1>3. CASE Walk(c)
  <2>1. SameRange(c) /\ (WalkedPast(c) \/ Entered(c, tseq[c], job[c])) /\ cpc[c] = "walk"
    BY <1>0, <1>3, WalkStep
  <2>2. job[c] \in {"position", "trailing"}
    BY <1>0, <2>1 DEF WalkSound
  <2>3. QED
    BY <1>3, <2>1, <2>2, WalkOn, WalkStops
<1>4. CASE WorkStep(c)
  <2>1. /\ SameRange(c) /\ cpc[c] \in ClaimPhases
        /\ \/ Done(c)
           \/ cpc'[c] \in ClaimPhases /\ SameView(c) /\ SameClaim(c)
    BY <1>0, <1>4, WorkSteps
  <2>2. job[c] # "none"
    BY <1>0, <2>1 DEF WalkSound
  <2>3. CASE cpc'[c] \in ClaimPhases /\ SameView(c) /\ SameClaim(c)
    <3>1. cpc[c] # "walk" /\ cpc'[c] # "walk"
      BY <2>1, <2>3 DEF ClaimPhases
    <3>2. QED
      BY <1>0, <2>1, <2>3, <3>1, WalkStays DEF SameView
  <2>4. CASE job[c] \in {"visit", "carried"} /\ Passed(c)
    <3>1. cpc'[c] \notin ClaimPhases \cup {"walk"}
      BY <2>4 DEF Passed, Rested, RestPhases, ClaimPhases
    <3>2. QED
      BY <1>1, <3>1
  <2>5. CASE ~(job[c] \in {"visit", "carried"}) /\ WalkedPast(c)
    <3>1. job[c] \in {"position", "trailing"}
      BY <1>0, <2>2, <2>5 DEF Jobs
    <3>2. QED
      BY <1>4, <2>1, <2>5, <3>1, WalkOn
  <2>6. QED
    BY <2>1, <2>3, <2>4, <2>5 DEF Done
<1>5. CASE (SweepOldest(c) \/ SweepPosition(c)) /\ cpc'[c] \in ClaimPhases \cup {"walk"}
  <2>1. cpc'[c] = "walk" /\ SameView(c)
    BY <1>0, <1>5, SweepSteps DEF Rested, RestPhases, ClaimPhases
  <2>2. PICK s \in Nat :
          /\ tseq'[c] = s /\ Boundary(s) /\ job'[c] \in {"position", "trailing"}
          /\ job'[c] = "position" => Epoch(s) >= newestEi[c]
          /\ job'[c] = "trailing" => Epoch(s) >= oldestEi[c] /\ Behind(c)
    BY <1>5, <2>1, WalkStarts
  <2>3. Boundary(tseq[c])'
    <3>1. Boundary(s)' = Boundary(s) /\ Boundary(tseq[c])' = Boundary(s)'
      BY <2>2 DEF Unmoved
    <3>2. QED
      BY <2>2, <3>1
  <2>4. oldestEi'[c] = oldestEi[c] /\ newestEi'[c] = newestEi[c]
    BY <2>1 DEF SameView, SameRange
  <2>5. Behind(c)' <=> Behind(c)
    BY <2>4 DEF Behind
  <2>6. QED
    BY <2>1, <2>2, <2>3, <2>4, <2>5 DEF WalkSound, ClaimPhases
<1>6. QED
  BY <1>0, <1>1, <1>2, <1>3, <1>4, <1>5, WalkEntries

LEMMA ConsumerWalks ==
    ASSUME Inv, TypeInv', NEW c \in Consumers, ConsumerNext(c), UNCHANGED producerVars
    PROVE  WalksSound'
<1>0. TypeInv /\ WalksSound /\ Unmoved
  BY UnmovedStep DEF Inv, Base
<1>1. ASSUME NEW d \in Consumers PROVE WalkSound(d)'
  <2>1. CASE d = c
    BY <1>0, <2>1, WalkSoundStep
  <2>2. CASE d # c
    <3>1. ViewStill(d)
      BY <1>0, <2>2, OthersAlone
    <3>2. SameRange(d) /\ SameClaim(d) /\ nextSeq'[d] = nextSeq[d] /\ cpc'[d] = cpc[d]
      BY <3>1 DEF ViewStill, SameRange, SameClaim
    <3>3. WalkSound(d)
      BY <1>0 DEF WalksSound
    <3>4. QED
      BY <1>0, <3>2, <3>3, WalkStays
  <2>3. QED
    BY <2>1, <2>2
<1>2. QED
  BY <1>1 DEF WalksSound

-----------------------------------------------------------------------------
(* Tallies.                                                                *)

(* The tallies, step by step.                                              *)
LEMMA TallyTypes ==
    ASSUME TypeInv
    PROVE  /\ Lt \in [Slots -> [Leaves -> Int]] /\ Count \in [Slots -> Int] /\ Sub \in [Slots -> Int]
           /\ \A k \in Slots : Count[k] \in Int /\ Sub[k] \in Int /\ \A l \in Leaves : Lt[k][l] \in Int
<1>1. Lt \in [Slots -> [Leaves -> Int]] /\ Count \in [Slots -> Int] /\ Sub \in [Slots -> Int]
  BY DEF TypeInv, TypeOK, FarmTypeOK, RootTypeOK
<1>2. QED
  BY <1>1

LEMMA TallyFrame ==
    ASSUME TypeInv, NEW c \in Consumers, ConsumerNext(c)
    PROVE  /\ ~Attach(c) /\ ~MoveLeaf(c) /\ ~DecLeaf(c) => Lt' = Lt
           /\ ~AttachRoot(c) /\ ~MoveRoot(c) /\ ~DecRoot(c) => Count' = Count
           /\ ~PinTail(c) /\ ~PinCandidate(c) /\ ~UnpinCandidate(c) /\ ~UnpinAll(c) =>
                Sub' = Sub /\ subs' = subs
<1>1. CASE SubscriberNext(c)
  BY <1>1 DEF SubscriberNext, CountConsumer, RefuseConsumer, ProbeTail, PinTail, Hint,
      PinCandidate, CandidateEs, CandidateRt, UnpinCandidate, ValidateEs, ValidateSeqt,
      ValidateWt, ValidateNext, Attach, AttachRoot, UnpinAll, Subscribed,
      RetrySubscribe, farmVars, tailVars, rootVars, attemptVars
<1>2. CASE ViewNext(c) \/ Unsubscribe(c)
  <2>1. CASE Poll(c) \/ MoveLeaf(c) \/ MoveRoot(c) \/ Visit(c) \/ Migrate(c)
             \/ Release(c) \/ ClearLive(c) \/ DecLeaf(c) \/ DecRoot(c) \/ Leave(c)
             \/ LeaveEpoch(c) \/ Left(c) \/ SweepOldest(c) \/ SweepPosition(c)
             \/ Walk(c) \/ EndWalk(c) \/ Yield(c) \/ Unsubscribe(c)
    BY <2>1 DEF Poll, MoveLeaf, MoveRoot, Visit, Migrate, Release, ClearLive, DecLeaf, DecRoot,
        Leave, LeaveEpoch, Left, SweepOldest, SweepPosition, Walk, EndWalk, Yield, Unsubscribe,
        farmVars, tailVars, rootVars, attemptVars, stillVars
  <2>2. CASE Claim(c) \/ Complete(c) \/ Progress(c) \/ Account(c)
    BY <2>2 DEF Claim, Complete, Progress, Account, tailVars, rootVars, attemptVars, stillVars
  <2>3. QED
    BY <1>2, <2>1, <2>2 DEF ViewNext
<1>3. QED
  BY <1>1, <1>2 DEF ConsumerNext

Raising(c) == cpc[c] \in {"subRoot", "moveRoot"}

LEMMA RaiseLeafStep ==
    ASSUME TypeInv, TypeInv', NEW c \in Consumers, Attach(c) \/ MoveLeaf(c),
           NEW k, k = Slot(at[c])
    PROVE  \E l \in Leaves :
             /\ k \in Slots
             /\ Lt'[k][l] = Lt[k][l] + 1
             /\ \A m \in Leaves \ {l} : Lt'[k][m] = Lt[k][m]
             /\ \A j \in Slots \ {k} : Lt'[j] = Lt[j]
             /\ ltiRing'[c][k] = l
             /\ \A j \in Slots \ {k} : ltiRing'[c][j] = ltiRing[c][j]
             /\ Lt[k][l] = 0 => cpc'[c] \in {"subRoot", "moveRoot"} /\ at'[c] = at[c]
             /\ Lt[k][l] # 0 => cpc'[c] \notin {"subRoot", "moveRoot"}
             /\ cpc[c] \in {"subLeaf", "moveLeaf"} /\ cpc'[c] # "decRoot"
<1>0. k \in Slots
  BY ViewTypes
<1>1. PICK l : /\ Lt' = [Lt EXCEPT ![k][l] = @ + 1] /\ ltiRing' = [ltiRing EXCEPT ![c][k] = l]
               /\ Lt[k][l] = 0 => cpc'[c] \in {"subRoot", "moveRoot"} /\ at'[c] = at[c]
               /\ Lt[k][l] # 0 => cpc'[c] \notin {"subRoot", "moveRoot"}
               /\ cpc[c] \in {"subLeaf", "moveLeaf"} /\ cpc'[c] # "decRoot"
  <2>1. CASE Attach(c)
    BY <2>1, ConsumerFunctions DEF Attach, IncLeaf, Goto
  <2>2. CASE MoveLeaf(c)
    <3>1. PICK l : /\ Lt' = [Lt EXCEPT ![k][l] = @ + 1] /\ ltiRing' = [ltiRing EXCEPT ![c][k] = l]
                   /\ IF Lt[k][l] = 0
                      THEN Goto(c, "moveRoot") /\ UNCHANGED <<at, newestEi, sweepSeq>>
                      ELSE Moved(c)
                   /\ cpc[c] = "moveLeaf"
      BY <2>2 DEF MoveLeaf
    <3>2. CASE Lt[k][l] = 0
      BY <3>1, <3>2, ConsumerFunctions DEF Goto
    <3>3. CASE Lt[k][l] # 0
      <4>1. Advanced(c)
        BY <3>1, <3>3, MovedAdvances
      <4>2. QED
        BY <3>1, <3>3, <4>1 DEF Advanced
    <3>4. QED
      BY <3>2, <3>3
  <2>3. QED
    BY <2>1, <2>2
<1>2. ltiRing'[c] = [ltiRing[c] EXCEPT ![k] = l] /\ ltiRing[c] \in [Slots -> Leaves]
  BY <1>1, ConsumerFunctions
<1>3. ltiRing'[c][k] = l /\ \A j \in Slots \ {k} : ltiRing'[c][j] = ltiRing[c][j]
  BY <1>0, <1>2
<1>4. ltiRing' \in [Consumers -> [Slots -> Leaves]]
  BY DEF TypeInv, TypeOK, ConsumerTypeOK, ViewTypeOK
<1>5. l \in Leaves
  BY <1>0, <1>3, <1>4
<1>6. Lt'[k] = [Lt[k] EXCEPT ![l] = Lt[k][l] + 1] /\ \A j \in Slots \ {k} : Lt'[j] = Lt[j]
  BY <1>0, <1>1, TallyTypes
<1>7. Lt[k] \in [Leaves -> Int]
  BY <1>0, TallyTypes
<1>8. Lt'[k][l] = Lt[k][l] + 1 /\ \A m \in Leaves \ {l} : Lt'[k][m] = Lt[k][m]
  BY <1>5, <1>6, <1>7
<1>9. QED
  BY <1>0, <1>1, <1>3, <1>5, <1>6, <1>8

LEMMA LowerLeafStep ==
    ASSUME TypeInv, NEW c \in Consumers, DecLeaf(c), NEW k, k = Slot(oldestEi[c]),
           NEW l, l = ltiRing[c][k]
    PROVE  /\ k \in Slots /\ l \in Leaves /\ Lt[k][l] > 0
           /\ Lt'[k][l] = Lt[k][l] - 1
           /\ \A m \in Leaves \ {l} : Lt'[k][m] = Lt[k][m]
           /\ \A j \in Slots \ {k} : Lt'[j] = Lt[j]
           /\ ltiRing'[c] = ltiRing[c]
           /\ Lt[k][l] = 1 => cpc'[c] = "decRoot" /\ oldestEi'[c] = oldestEi[c]
           /\ Lt[k][l] # 1 => cpc'[c] # "decRoot"
           /\ cpc[c] = "decLeaf" /\ cpc'[c] \notin {"subRoot", "moveRoot"}
<1>0. k \in Slots /\ l \in Leaves
  BY ViewTypes
<1>1. Lt' = [Lt EXCEPT ![k][l] = @ - 1] /\ Lt[k][l] > 0
  BY DEF DecLeaf
<1>2. Lt'[k] = [Lt[k] EXCEPT ![l] = Lt[k][l] - 1] /\ \A j \in Slots \ {k} : Lt'[j] = Lt[j]
  BY <1>0, <1>1, TallyTypes
<1>3. Lt[k] \in [Leaves -> Int]
  BY <1>0, TallyTypes
<1>4. Lt'[k][l] = Lt[k][l] - 1 /\ \A m \in Leaves \ {l} : Lt'[k][m] = Lt[k][m]
  BY <1>0, <1>2, <1>3
<1>5. ltiRing'[c] = ltiRing[c] /\ cpc[c] \in {"decLeaf", "decRoot"}
  BY DropStep
<1>6. cpc[c] = "decLeaf"
  BY DEF DecLeaf
<1>7. /\ Lt[k][l] = 1 => cpc'[c] = "decRoot" /\ oldestEi'[c] = oldestEi[c]
      /\ Lt[k][l] # 1 => cpc'[c] # "decRoot"
      /\ cpc'[c] \notin {"subRoot", "moveRoot"}
  BY DropStep DEF LastOut, SameRange
<1>8. QED
  BY <1>0, <1>1, <1>2, <1>4, <1>5, <1>6, <1>7

LEMMA RootSteps ==
    ASSUME TypeInv, NEW c \in Consumers
    PROVE  /\ AttachRoot(c) \/ MoveRoot(c) =>
                LET k == Slot(at[c]) IN
                /\ k \in Slots /\ Count'[k] = Count[k] + 1
                /\ \A j \in Slots \ {k} : Count'[j] = Count[j]
                /\ cpc[c] \in {"subRoot", "moveRoot"}
                /\ cpc'[c] \notin {"subRoot", "moveRoot", "decRoot"}
           /\ DecRoot(c) =>
                LET k == Slot(oldestEi[c]) IN
                /\ k \in Slots /\ Count[k] > 0 /\ Count'[k] = Count[k] - 1
                /\ \A j \in Slots \ {k} : Count'[j] = Count[j]
                /\ cpc[c] = "decRoot" /\ cpc'[c] \notin {"subRoot", "moveRoot", "decRoot"}
<1>1. Slot(at[c]) \in Slots /\ Slot(oldestEi[c]) \in Slots /\ Count \in [Slots -> Int]
  BY ViewTypes, TallyTypes
<1>2. CASE AttachRoot(c)
  BY <1>1, <1>2, ConsumerFunctions DEF AttachRoot, TakeRootCount, Goto, DecRoot
<1>3. CASE MoveRoot(c)
  <2>1. cpc[c] = "moveRoot" /\ Advanced(c)
    BY <1>3, MoveRootStep
  <2>2. cpc'[c] \notin {"subRoot", "moveRoot", "decRoot"}
    BY <2>1 DEF Advanced
  <2>3. Count' = [Count EXCEPT ![Slot(at[c])] = @ + 1]
    BY <1>3 DEF MoveRoot, TakeRootCount
  <2>4. ~DecRoot(c)
    BY <2>1 DEF DecRoot
  <2>5. QED
    BY <1>1, <2>1, <2>2, <2>3, <2>4
<1>4. CASE DecRoot(c)
  BY <1>1, <1>4, ConsumerFunctions DEF DecRoot, Dropped, Goto, AttachRoot, MoveRoot
<1>5. QED
  BY <1>2, <1>3, <1>4

LEMMA LowestIsHeld ==
    ASSUME TypeInv, NEW c \in Consumers, subs[c] # {}
    PROVE  LowestSub(c) \in subs[c]
<1>1. subs[c] \subseteq Nat
  BY ViewTypes, GeometryAssumption DEF Slots
<1>2. PICK k \in subs[c] : \A j \in subs[c] : ~(<<j, k>> \in OpToRel(<, Nat))
  BY <1>1, NatLessThanWellFounded, WFMin
<1>3. ASSUME NEW j \in subs[c] PROVE k <= j
  <2>1. SUFFICES ASSUME j < k PROVE FALSE
    BY <1>1
  <2>2. <<j, k>> \in Nat \X Nat
    BY <1>1
  <2>3. <<j, k>> \in OpToRel(<, Nat)
    BY <2>1, <2>2 DEF OpToRel
  <2>4. QED
    BY <1>2, <2>3
<1>4. QED
  BY <1>3 DEF LowestSub

(* Attaching and pinning take one epoch, dropping loses one, and nothing   *)
(* else moves what a view holds, ...                                       *)
LEMMA HoldsStep ==
    ASSUME TypeInv, RangesSound, NEW c \in Consumers, ConsumerNext(c), NEW e \in Nat
    PROVE  /\ Attach(c) \/ MoveLeaf(c) =>
                /\ Holds(c, e)' <=> (Holds(c, e) \/ e = at[c])
                /\ Holds(c, e) => MoveLeaf(c) /\ oldestEi[c] <= e /\ e < at[c]
           /\ DecLeaf(c) =>
                /\ Holds(c, e)' <=> (Holds(c, e) /\ e # oldestEi[c])
                /\ e = oldestEi[c] => Holds(c, e)
           /\ ~Attach(c) /\ ~MoveLeaf(c) /\ ~DecLeaf(c) => (Holds(c, e)' <=> Holds(c, e))
<1>0. /\ at[c] \in Nat /\ oldestEi[c] \in Nat /\ newestEi[c] \in Nat /\ cpc[c] \in CPhases
      /\ Epoch(nextSeq[c]) \in Nat /\ e \in Nat
  BY ViewTypes
<1>1. CASE ScanStep(c)
  <2>1. cpc[c] \notin {"subLeaf", "moveLeaf", "decLeaf"}
    BY <1>1, ScanSteps DEF Attached, SubscribePhases, ScanStep, EnterStep, CandidateStep, ValidateStep,
           CountConsumer, RefuseConsumer, ProbeTail,
           PinTail, Hint, PinCandidate, CandidateEs, CandidateRt, UnpinCandidate, ValidateEs,
           ValidateSeqt, ValidateWt, ValidateNext
  <2>2. QED
    BY <1>1, <2>1, ScanSteps DEF Holds, Attach, MoveLeaf, DecLeaf
<1>2. CASE Attach(c)
  <2>1. oldestEi'[c] = at[c] /\ newestEi'[c] = at[c] /\ cpc'[c] \in {"subRoot", "unpinAll"}
        /\ cpc[c] = "subLeaf"
    BY <1>2, AttachStep
  <2>2. ~Holds(c, e)
    BY <2>1 DEF Holds, Attached, SubscribePhases
  <2>3. Holds(c, e)' <=> e = at[c]
    BY <1>0, <2>1 DEF Holds, Attached, SubscribePhases
  <2>4. ~DecLeaf(c)
    BY <2>1 DEF DecLeaf
  <2>5. QED
    BY <1>2, <2>2, <2>3, <2>4
<1>3. CASE AttachedStep(c)
  <2>1. SameRange(c) /\ cpc[c] \in {"subRoot", "unpinAll", "retry"}
        /\ cpc'[c] \in {"unpinAll", "retry", "ready", "off"}
        /\ (cpc[c] = "retry" <=> cpc'[c] \in {"retry", "off"})
    BY <1>3, AttachedStays
  <2>2. ~Attach(c) /\ ~MoveLeaf(c) /\ ~DecLeaf(c)
    BY <2>1 DEF Attach, MoveLeaf, DecLeaf
  <2>3. QED
    BY <1>0, <2>1, <2>2 DEF SameRange, Holds, Attached, SubscribePhases
<1>4. CASE MoveLeaf(c)
  <2>1. cpc[c] = "moveLeaf" /\ oldestEi'[c] = oldestEi[c]
        /\ \/ cpc'[c] = "moveRoot" /\ at'[c] = at[c] /\ newestEi'[c] = newestEi[c]
           \/ Advanced(c)
    BY <1>4, MoveLeafStep
  <2>2. oldestEi[c] <= newestEi[c] /\ newestEi[c] < at[c]
    BY <2>1 DEF RangesSound, RangeSound, Moving, Attached, SubscribePhases
  <2>3. Holds(c, e) <=> oldestEi[c] <= e /\ e < at[c]
    BY <1>0, <2>1, <2>2 DEF Holds, Attached, SubscribePhases
  <2>4. Holds(c, e)' <=> oldestEi[c] <= e /\ e <= at[c]
    BY <1>0, <2>1, <2>2 DEF Holds, Attached, SubscribePhases, Advanced
  <2>5. ~DecLeaf(c) /\ ~Attach(c)
    BY <2>1 DEF DecLeaf, Attach
  <2>6. QED
    BY <1>0, <1>4, <2>2, <2>3, <2>4, <2>5
<1>5. CASE DecLeaf(c) \/ DecRoot(c)
  <2>1. /\ cpc[c] = IF DecLeaf(c) THEN "decLeaf" ELSE "decRoot"
        /\ newestEi'[c] = newestEi[c]
        /\ \/ /\ DecLeaf(c)
              /\ cpc'[c] = "decRoot" /\ oldestEi'[c] = oldestEi[c]
           \/ /\ oldestEi'[c] = oldestEi[c] + 1
              /\ cpc'[c] \in {"leaving", "release"}
    BY <1>5, DropStep DEF SameRange, DecLeaf, DecRoot
  <2>2. oldestEi[c] <= newestEi[c] + 1 /\ oldestEi[c] <= newestEi[c]
    BY <2>1 DEF RangesSound, RangeSound, Attached, SubscribePhases
  <2>3. ~Attach(c) /\ ~MoveLeaf(c)
    BY <2>1 DEF Attach, MoveLeaf
  <2>4. QED
    BY <1>0, <1>5, <2>1, <2>2, <2>3 DEF Holds, Attached, SubscribePhases
<1>6. CASE Left(c)
  BY <1>0, <1>6, LeftStep DEF Holds, Attached, Attach, MoveLeaf, DecLeaf
<1>7. ASSUME ~ScanStep(c), ~Attach(c), ~AttachedStep(c), ~MoveLeaf(c), ~DecLeaf(c), ~DecRoot(c), ~Left(c)
      PROVE  Holds(c, e)' <=> Holds(c, e)
  <2>1. CASE Poll(c)
    BY <1>0, <2>1, PollStep DEF SameView, SameRange, Holds, Attached, SubscribePhases, Rested, RestPhases
  <2>2. CASE MoveRoot(c)
    <3>1. oldestEi[c] <= newestEi[c] /\ newestEi[c] < at[c]
      BY <2>2, MoveRootStep DEF RangesSound, RangeSound, Moving, Attached, SubscribePhases
    <3>2. QED
      BY <1>0, <2>2, <3>1, MoveRootStep DEF Holds, Attached, SubscribePhases, Advanced
  <2>3. CASE Visit(c)
    BY <1>0, <2>3, VisitStep DEF SameRange, Holds, Attached, SubscribePhases,
       Entered, Passed, Rested, RestPhases
  <2>4. CASE Migrate(c)
    BY <1>0, <2>4, MigrateStep DEF SameView, SameRange, Holds, Attached, SubscribePhases,
       Rested, RestPhases
  <2>5. CASE Release(c)
    BY <1>0, <2>5, ReleaseStep DEF SameView, SameRange, Holds, Attached, SubscribePhases,
       Rested, RestPhases
  <2>6. CASE ClearLive(c)
    BY <1>0, <2>6, ClearLiveStep DEF viewVars, Holds, Attached, SubscribePhases
  <2>7. CASE LeavingStep(c)
    BY <1>0, <2>7, LeaveSteps DEF LeavingStep, SameView, SameRange, Holds, Attached,
       SubscribePhases, Rested, RestPhases
  <2>8. CASE SweepOldest(c) \/ SweepPosition(c)
    BY <1>0, <2>8, SweepSteps DEF SameView, SameRange, Holds, Attached,
       SubscribePhases, Rested, RestPhases
  <2>9. CASE Walk(c)
    BY <1>0, <2>9, WalkStep DEF SameRange, Holds, Attached, SubscribePhases, WalkedPast, Entered
  <2>10. CASE EndWalk(c)
    BY <1>0, <2>10, EndWalkStep DEF SameView, SameRange, Holds, Attached,
       SubscribePhases, Rested, RestPhases
  <2>11. CASE WorkStep(c)
    BY <1>0, <2>11, WorkSteps DEF SameRange, Holds, Attached,
       SubscribePhases, ClaimPhases, Done, Passed, WalkedPast, Rested, RestPhases
  <2>12. QED
    BY <1>7, <2>1, <2>2, <2>3, <2>4, <2>5, <2>6, <2>7, <2>8, <2>9, <2>10, <2>11, ConsumerCases DEF ScanStep
<1>8. QED
  BY <1>1, <1>2, <1>3, <1>4, <1>5, <1>6, <1>7

(* ... nor through which leaf it does.                                     *)
LEMMA LeafStays ==
    ASSUME TypeInv, NEW c \in Consumers, ConsumerNext(c), ~Attach(c), ~MoveLeaf(c)
    PROVE  Left(c) \/ ltiRing'[c] = ltiRing[c]
<1>1. CASE ScanStep(c)
  BY <1>1, ScanSteps DEF SameRange
<1>2. CASE AttachedStep(c)
  BY <1>2, AttachedStays DEF SameRange
<1>3. CASE Poll(c)
  BY <1>3, PollStep DEF SameView, SameRange
<1>4. CASE MoveRoot(c)
  BY <1>4, MoveRootStep
<1>5. CASE Visit(c)
  BY <1>5, VisitStep DEF SameRange
<1>6. CASE Migrate(c)
  BY <1>6, MigrateStep DEF SameView, SameRange
<1>7. CASE Release(c)
  BY <1>7, ReleaseStep DEF SameView, SameRange
<1>8. CASE ClearLive(c)
  BY <1>8, ClearLiveStep DEF viewVars
<1>9. CASE DecLeaf(c) \/ DecRoot(c)
  BY <1>9, DropStep
<1>10. CASE LeavingStep(c)
  BY <1>10, LeaveSteps DEF LeavingStep, SameView, SameRange
<1>11. CASE SweepOldest(c) \/ SweepPosition(c)
  BY <1>11, SweepSteps DEF SameView, SameRange
<1>12. CASE Walk(c)
  BY <1>12, WalkStep DEF SameRange
<1>13. CASE EndWalk(c)
  BY <1>13, EndWalkStep DEF SameView, SameRange
<1>14. CASE WorkStep(c)
  BY <1>14, WorkSteps DEF SameRange
<1>15. QED
  BY <1>1, <1>2, <1>3, <1>4, <1>5, <1>6, <1>7, <1>8, <1>9, <1>10, <1>11, <1>12, <1>13, <1>14,
     ConsumerCases DEF ScanStep

(* Only an edge of a leaf sends a view to the root, only the root's own    *)
(* step brings it back.                                                    *)
LEMMA EdgesStep ==
    ASSUME TypeInv, RangesSound, NEW c \in Consumers, ConsumerNext(c)
    PROVE  /\ cpc'[c] \in {"subRoot", "moveRoot"} => Attach(c) \/ MoveLeaf(c)
           /\ cpc[c] \in {"subRoot", "moveRoot"} => AttachRoot(c) \/ MoveRoot(c)
           /\ cpc'[c] = "decRoot" => DecLeaf(c)
           /\ cpc[c] = "decRoot" => DecRoot(c)
<1>1. CASE ScanStep(c)
  BY <1>1, ScanSteps DEF Attached, SubscribePhases, ScanStep, EnterStep, CandidateStep, ValidateStep,
         CountConsumer, RefuseConsumer, ProbeTail, Goto,
         PinTail, Hint, PinCandidate, CandidateEs, CandidateRt, UnpinCandidate, ValidateEs,
         ValidateSeqt, ValidateWt, ValidateNext
<1>2. CASE AttachedStep(c)
  <2>1. cpc'[c] \in {"unpinAll", "retry", "ready", "off"} /\ cpc[c] \in {"subRoot", "unpinAll", "retry"}
    BY <1>2, AttachedStays
  <2>2. cpc[c] = "subRoot" => AttachRoot(c)
    BY <1>2 DEF AttachedStep, UnpinAll, Subscribed, RetrySubscribe
  <2>3. QED
    BY <2>1, <2>2
<1>3. CASE Poll(c)
  BY <1>3, PollStep DEF Rested, RestPhases
<1>4. CASE MoveRoot(c)
  BY <1>4, MoveRootStep DEF Advanced
<1>5. CASE Visit(c)
  BY <1>5, VisitStep DEF Entered, Passed, Rested, RestPhases
<1>6. CASE Migrate(c)
  BY <1>6, MigrateStep DEF Rested, RestPhases
<1>7. CASE Release(c)
  BY <1>7, ReleaseStep DEF Rested, RestPhases
<1>8. CASE ClearLive(c)
  BY <1>8, ClearLiveStep
<1>9. CASE DecLeaf(c)
  <2>1. cpc[c] = "decLeaf"
    BY <1>9 DEF DecLeaf
  <2>2. QED
    BY <1>9, <2>1, DropStep
<1>10. CASE DecRoot(c)
  <2>1. cpc[c] = "decRoot" /\ ~DecLeaf(c)
    BY <1>10 DEF DecLeaf, DecRoot
  <2>2. QED
    BY <1>10, <2>1, DropStep
<1>11. CASE LeavingStep(c)
  BY <1>11, LeaveSteps DEF LeavingStep, Rested, RestPhases
<1>12. CASE SweepOldest(c) \/ SweepPosition(c)
  BY <1>12, SweepSteps DEF Rested, RestPhases
<1>13. CASE Walk(c)
  BY <1>13, WalkStep DEF WalkedPast, Entered
<1>14. CASE EndWalk(c)
  BY <1>14, EndWalkStep DEF Rested, RestPhases
<1>15. CASE WorkStep(c)
  BY <1>15, WorkSteps DEF ClaimPhases, Done, Passed, WalkedPast, Rested, RestPhases
<1>16. CASE Attach(c) \/ MoveLeaf(c)
  BY <1>16, AttachStep, MoveLeafStep DEF Advanced
<1>17. CASE Left(c)
  BY <1>17, LeftStep
<1>18. QED
  BY <1>1, <1>2, <1>3, <1>4, <1>5, <1>6, <1>7, <1>8, <1>9, <1>10, <1>11, <1>12, <1>13, <1>14,
     <1>15, <1>16, <1>17, ConsumerCases DEF ScanStep

HoldsSlot(c, k) == \E e \in Epochs : Slot(e) = k /\ Holds(c, e)

LEMMA EpochsNat ==
    ASSUME TypeInv
    PROVE  /\ Epochs \subseteq Nat
           /\ \A e \in Nat : e <= Epoch(MaxSeq) => e \in Epochs
<1>1. MaxSeq \in Nat /\ K \in Nat
  BY GeometryAssumption
<1>2. Epoch(MaxSeq) \in Nat
  BY <1>1, EpochType
<1>3. QED
  BY <1>1, <1>2 DEF Epochs

LEMMA HoldsAlone ==
    ASSUME TypeInv, NEW c \in Consumers, ConsumerNext(c), NEW d \in Consumers, d # c
    PROVE  /\ \A e : Holds(d, e)' <=> Holds(d, e)
           /\ \A k : HoldsSlot(d, k)' <=> HoldsSlot(d, k)
           /\ ltiRing'[d] = ltiRing[d] /\ cpc'[d] = cpc[d] /\ at'[d] = at[d] /\ oldestEi'[d] = oldestEi[d]
           /\ subs'[d] = subs[d]
<1>1. ViewStill(d)
  BY OthersAlone
<1>2. \A e : Holds(d, e)' <=> Holds(d, e)
  BY <1>1 DEF ViewStill, Holds, Attached
<1>3. QED
  BY <1>1, <1>2 DEF ViewStill, HoldsSlot

(* A view holds at most one epoch of a slot.                               *)
LEMMA OneOfASlot ==
    ASSUME TypeInv, Layout, QuotaSound, KeptSound, NEW c \in Consumers,
           NEW e \in Nat, NEW f \in Nat, Holds(c, e), Holds(c, f), Slot(e) = Slot(f)
    PROVE  e = f
<1>1. Held(c, e) /\ Held(c, f)
  BY DEF Held
<1>2. InWindow(e) /\ InWindow(f)
  BY <1>1, HeldKept
<1>3. QED
  BY <1>2, WindowSlots

(* The epoch a view is about to take is none whose slot it holds.          *)
LEMMA SlotTaken ==
    ASSUME Inv, NEW c \in Consumers, ConsumerNext(c), Attach(c) \/ MoveLeaf(c),
           NEW k, k = Slot(at[c])
    PROVE  /\ ~HoldsSlot(c, k) /\ HoldsSlot(c, k)'
           /\ \A j \in Slots \ {k} : HoldsSlot(c, j)' <=> HoldsSlot(c, j)
<1>0. /\ TypeInv /\ Layout /\ RangesSound /\ WritersSound /\ QuotaSound /\ AttemptsInv
      /\ at[c] \in Nat /\ oldestEi[c] \in Nat /\ newestEi[c] \in Nat /\ Epoch(nextSeq[c]) \in Nat
      /\ probe[c] \in Nat /\ K \in Nat /\ Epoch(Wt) \in Nat /\ Wt \in Nat
  BY ViewTypes, StatTypes, LayoutTypes, EpochType DEF Inv, Base, ViewInv
<1>1. ~HoldsSlot(c, k)
  <2>1. SUFFICES ASSUME NEW e \in Epochs, Slot(e) = k, Holds(c, e) PROVE FALSE
    BY DEF HoldsSlot
  <2>2. e \in Nat
    BY <1>0, EpochsNat
  <2>3. MoveLeaf(c) /\ oldestEi[c] <= e /\ e < at[c]
    BY <1>0, <2>1, <2>2, HoldsStep
  <2>4. cpc[c] \in Moving /\ Epoch(nextSeq[c]) - oldestEi[c] + 1 <= K
    BY <2>3 DEF MoveLeaf, MoveChecks, Moving
  <2>5. at[c] <= Epoch(nextSeq[c])
    BY <1>0, <2>4, PinnedSafe
  <2>6. at[c] < e + K /\ e < at[c] + K
    BY <1>0, <2>2, <2>3, <2>4, <2>5
  <2>7. Slot(at[c]) = Slot(e)
    BY <2>1
  <2>8. at[c] = e
    BY <1>0, <2>2, <2>6, <2>7, SlotsApart
  <2>9. QED
    BY <2>3, <2>8, <1>0
<1>2. at[c] \in Epochs
  <2>1. at[c] <= Epoch(Wt)
    <3>1. CASE MoveLeaf(c)
      <4>1. cpc[c] \in Moving
        BY <3>1 DEF MoveLeaf, Moving
      <4>2. QED
        BY <1>0, <4>1, PinnedSafe
    <3>2. CASE Attach(c)
      <4>1. cpc[c] \in Scanning
        BY <3>2 DEF Attach, Scanning, Candidate
      <4>2. probe[c] <= Epoch(Wt) /\ at[c] <= probe[c]
        BY <1>0, <4>1 DEF AttemptsInv, AttemptSound
      <4>3. QED
        BY <1>0, <4>2
    <3>3. QED
      BY <3>1, <3>2
  <2>2. MaxSeq \in Nat /\ Wt <= MaxSeq
    BY <1>0, GeometryAssumption DEF Layout, TailBounded
  <2>3. Epoch(Wt) <= Epoch(MaxSeq) /\ Epoch(MaxSeq) \in Nat
    BY <1>0, <2>2, EpochMonotone, EpochType
  <2>4. at[c] <= Epoch(MaxSeq)
    BY <1>0, <2>1, <2>3
  <2>5. QED
    BY <1>0, <2>4, EpochsNat
<1>3. \A e \in Epochs : Holds(c, e)' <=> (Holds(c, e) \/ e = at[c])
  <2>1. SUFFICES ASSUME NEW e \in Epochs PROVE Holds(c, e)' <=> (Holds(c, e) \/ e = at[c])
    OBVIOUS
  <2>2. e \in Nat
    BY <1>0, EpochsNat
  <2>3. QED
    BY <1>0, <2>2, HoldsStep
<1>4. PICK a \in Epochs : a = at[c]
  BY <1>2
<1>5. Holds(c, a)'
  BY <1>3, <1>4
<1>6. HoldsSlot(c, k)'
  BY <1>4, <1>5 DEF HoldsSlot
<1>7. \A j \in Slots \ {k} : HoldsSlot(c, j)' <=> HoldsSlot(c, j)
  BY <1>3 DEF HoldsSlot
<1>8. QED
  BY <1>1, <1>6, <1>7

LEMMA SlotLost ==
    ASSUME Inv, NEW c \in Consumers, ConsumerNext(c), DecLeaf(c), NEW k, k = Slot(oldestEi[c])
    PROVE  /\ HoldsSlot(c, k) /\ ~HoldsSlot(c, k)'
           /\ \A j \in Slots \ {k} : HoldsSlot(c, j)' <=> HoldsSlot(c, j)
<1>0. /\ TypeInv /\ Layout /\ RangesSound /\ QuotaSound /\ KeptSound /\ oldestEi[c] \in Nat
  BY ViewTypes DEF Inv, Base, ViewInv
<1>1. \A e \in Nat : /\ Holds(c, e)' <=> (Holds(c, e) /\ e # oldestEi[c])
                     /\ e = oldestEi[c] => Holds(c, e)
  BY <1>0, HoldsStep
<1>2. PICK o \in Nat : o = oldestEi[c]
  BY <1>0
<1>3. Holds(c, o)
  BY <1>1, <1>2
<1>4. o \in Epochs
  BY <1>0, <1>3, HeldSound
<1>5. HoldsSlot(c, k)
  BY <1>2, <1>3, <1>4 DEF HoldsSlot
<1>6. ~HoldsSlot(c, k)'
  <2>1. SUFFICES ASSUME NEW e \in Epochs, Slot(e) = k, Holds(c, e)' PROVE FALSE
    BY DEF HoldsSlot
  <2>2. e \in Nat
    BY <1>0, EpochsNat
  <2>3. Holds(c, e) /\ e # o
    BY <1>1, <1>2, <2>1, <2>2
  <2>4. Slot(e) = Slot(o)
    BY <1>2, <2>1
  <2>5. QED
    BY <1>0, <1>3, <2>2, <2>3, <2>4, OneOfASlot
<1>7. \A j \in Slots \ {k} : HoldsSlot(c, j)' <=> HoldsSlot(c, j)
  <2>1. \A e \in Epochs : Slot(e) # k => (Holds(c, e)' <=> Holds(c, e))
    BY <1>0, <1>1, EpochsNat
  <2>2. QED
    BY <2>1 DEF HoldsSlot
<1>8. QED
  BY <1>5, <1>6, <1>7

LEMMA SlotStays ==
    ASSUME Inv, NEW c \in Consumers, ConsumerNext(c), ~Attach(c), ~MoveLeaf(c), ~DecLeaf(c)
    PROVE  /\ \A k : HoldsSlot(c, k)' <=> HoldsSlot(c, k)
           /\ \A k : HoldsSlot(c, k) => ltiRing'[c] = ltiRing[c]
<1>0. TypeInv /\ RangesSound
  BY DEF Inv, Base, ViewInv
<1>1. \A e \in Epochs : Holds(c, e)' <=> Holds(c, e)
  <2>1. SUFFICES ASSUME NEW e \in Epochs PROVE Holds(c, e)' <=> Holds(c, e)
    OBVIOUS
  <2>2. e \in Nat
    BY <1>0, EpochsNat
  <2>3. QED
    BY <1>0, <2>2, HoldsStep
<1>2. \A k : HoldsSlot(c, k)' <=> HoldsSlot(c, k)
  BY <1>1 DEF HoldsSlot
<1>3. ASSUME NEW k, HoldsSlot(c, k) PROVE ltiRing'[c] = ltiRing[c]
  <2>1. ~Left(c)
    <3>1. ~Attached(c)' => ~HoldsSlot(c, k)'
      BY DEF HoldsSlot, Holds
    <3>2. QED
      BY <1>0, <1>2, <1>3, <3>1, LeftStep DEF Attached
  <2>2. QED
    BY <1>0, <2>1, LeafStays
<1>4. QED
  BY <1>2, <1>3

(* Who holds a slot through a leaf.                                        *)
LEMMA HoldersAre ==
    /\ \A k, l : Holders(k, l) = {c \in Consumers : ltiRing[c][k] = l /\ HoldsSlot(c, k)}
    /\ \A k, l : Holders(k, l)' = {c \in Consumers : ltiRing'[c][k] = l /\ HoldsSlot(c, k)'}
<1>1. \A k, l : Holders(k, l) = {c \in Consumers : ltiRing[c][k] = l /\ HoldsSlot(c, k)}
  BY DEF Holders, HoldsSlot
<1>2. \A k, l : Holders(k, l)' = {c \in Consumers : ltiRing'[c][k] = l /\ HoldsSlot(c, k)'}
  BY DEF Holders, HoldsSlot
<1>3. QED
  BY <1>1, <1>2

LEMMA HoldersRaised ==
    ASSUME Inv, NEW c \in Consumers, ConsumerNext(c), Attach(c) \/ MoveLeaf(c), TypeInv',
           NEW k, k = Slot(at[c]), NEW l, l = ltiRing'[c][k]
    PROVE  /\ c \notin Holders(k, l) /\ Holders(k, l)' = Holders(k, l) \cup {c}
           /\ \A m : m # l => Holders(k, m)' = Holders(k, m)
           /\ \A j \in Slots \ {k} : \A m : Holders(j, m)' = Holders(j, m)
<1>0. TypeInv
  BY DEF Inv, Base
<1>1. /\ ~HoldsSlot(c, k) /\ HoldsSlot(c, k)'
      /\ \A j \in Slots \ {k} : HoldsSlot(c, j)' <=> HoldsSlot(c, j)
  BY SlotTaken
<1>2. \A j \in Slots \ {k} : ltiRing'[c][j] = ltiRing[c][j]
  BY <1>0, RaiseLeafStep
<1>3. \A d \in Consumers \ {c} : /\ ltiRing'[d] = ltiRing[d]
                                /\ \A j : HoldsSlot(d, j)' <=> HoldsSlot(d, j)
  BY <1>0, HoldsAlone
<1>4. c \notin Holders(k, l)
  BY <1>1, HoldersAre
<1>5. Holders(k, l)' = Holders(k, l) \cup {c}
  BY <1>1, <1>3, HoldersAre
<1>6. \A m : m # l => Holders(k, m)' = Holders(k, m)
  BY <1>1, <1>3, HoldersAre
<1>7. \A j \in Slots \ {k} : \A m : Holders(j, m)' = Holders(j, m)
  BY <1>1, <1>2, <1>3, HoldersAre
<1>8. QED
  BY <1>4, <1>5, <1>6, <1>7

LEMMA HoldersLowered ==
    ASSUME Inv, NEW c \in Consumers, ConsumerNext(c), DecLeaf(c),
           NEW k, k = Slot(oldestEi[c]), NEW l, l = ltiRing[c][k]
    PROVE  /\ c \in Holders(k, l) /\ Holders(k, l)' = Holders(k, l) \ {c}
           /\ \A m : m # l => Holders(k, m)' = Holders(k, m)
           /\ \A j \in Slots \ {k} : \A m : Holders(j, m)' = Holders(j, m)
<1>0. TypeInv
  BY DEF Inv, Base
<1>1. /\ HoldsSlot(c, k) /\ ~HoldsSlot(c, k)'
      /\ \A j \in Slots \ {k} : HoldsSlot(c, j)' <=> HoldsSlot(c, j)
  BY SlotLost
<1>2. ltiRing'[c] = ltiRing[c]
  BY <1>0, LowerLeafStep
<1>3. \A d \in Consumers \ {c} : /\ ltiRing'[d] = ltiRing[d]
                                /\ \A j : HoldsSlot(d, j)' <=> HoldsSlot(d, j)
  BY <1>0, HoldsAlone
<1>4. c \in Holders(k, l)
  BY <1>1, HoldersAre
<1>5. Holders(k, l)' = Holders(k, l) \ {c}
  BY <1>1, <1>3, HoldersAre
<1>6. \A m : m # l => Holders(k, m)' = Holders(k, m)
  BY <1>1, <1>3, HoldersAre
<1>7. \A j \in Slots \ {k} : \A m : Holders(j, m)' = Holders(j, m)
  BY <1>1, <1>2, <1>3, HoldersAre
<1>8. QED
  BY <1>4, <1>5, <1>6, <1>7

LEMMA HoldersStay ==
    ASSUME Inv, NEW c \in Consumers, ConsumerNext(c), ~Attach(c), ~MoveLeaf(c), ~DecLeaf(c)
    PROVE  \A k, l : Holders(k, l)' = Holders(k, l)
<1>0. TypeInv
  BY DEF Inv, Base
<1>1. \A k : (HoldsSlot(c, k)' <=> HoldsSlot(c, k)) /\ (HoldsSlot(c, k) => ltiRing'[c] = ltiRing[c])
  BY SlotStays
<1>2. \A d \in Consumers \ {c} : /\ ltiRing'[d] = ltiRing[d]
                                /\ \A j : HoldsSlot(d, j)' <=> HoldsSlot(d, j)
  BY <1>0, HoldsAlone
<1>3. QED
  BY <1>1, <1>2, HoldersAre

(* Cardinalities, an element more or less.                                 *)
LEMMA OneMore ==
    ASSUME NEW S, NEW c \in Consumers, S \subseteq Consumers
    PROVE  /\ c \notin S => Cardinality(S \cup {c}) = Cardinality(S) + 1
           /\ c \in S => Cardinality(S \ {c}) = Cardinality(S) - 1
           /\ Cardinality(S) \in Nat /\ (c \in S => Cardinality(S) > 0)
<1>1. IsFiniteSet(S) /\ Cardinality(S) \in Nat
  BY SetsFinite
<1>2. c \notin S => Cardinality(S \cup {c}) = Cardinality(S) + 1
  BY <1>1, FS_AddElement
<1>3. c \in S => Cardinality(S \ {c}) = Cardinality(S) - 1
  BY <1>1, FS_RemoveElement
<1>4. c \in S => Cardinality(S) > 0
  BY SetsFinite
<1>5. QED
  BY <1>1, <1>2, <1>3, <1>4

LEMMA ConsumerLeaves ==
    ASSUME Inv, NEW c \in Consumers, ConsumerNext(c), TypeInv'
    PROVE  LeavesAgree'
<1>0. TypeInv /\ LeavesAgree
  BY DEF Inv, Base, ViewInv, TallyInv
<1>1. SUFFICES ASSUME NEW j \in Slots, NEW m \in Leaves
               PROVE  Lt'[j][m] = Cardinality(Holders(j, m)')
  BY DEF LeavesAgree
<1>2. Lt[j][m] = Cardinality(Holders(j, m)) /\ Lt[j][m] \in Int /\ Holders(j, m) \subseteq Consumers
  BY <1>0, TallyTypes DEF LeavesAgree, Holders
<1>3. CASE Attach(c) \/ MoveLeaf(c)
  <2>0. PICK k : k = Slot(at[c])
    OBVIOUS
  <2>1. PICK l \in Leaves :
               /\ Lt'[k][l] = Lt[k][l] + 1 /\ ltiRing'[c][k] = l
               /\ \A n \in Leaves \ {l} : Lt'[k][n] = Lt[k][n]
               /\ \A n \in Slots \ {k} : Lt'[n] = Lt[n]
    BY <1>0, <1>3, <2>0, RaiseLeafStep
  <2>2. /\ c \notin Holders(k, l) /\ Holders(k, l)' = Holders(k, l) \cup {c}
        /\ \A n : n # l => Holders(k, n)' = Holders(k, n)
        /\ \A i \in Slots \ {k} : \A n : Holders(i, n)' = Holders(i, n)
    BY <1>3, <2>0, <2>1, HoldersRaised
  <2>3. CASE j = k /\ m = l
    <3>1. Cardinality(Holders(j, m) \cup {c}) = Cardinality(Holders(j, m)) + 1
      BY <1>2, <2>2, <2>3, OneMore
    <3>2. Holders(j, m)' = Holders(j, m) \cup {c}
      BY <2>2, <2>3
    <3>3. QED
      BY <1>2, <2>1, <2>3, <3>1, <3>2
  <2>4. CASE j # k \/ m # l
    <3>1. Holders(j, m)' = Holders(j, m)
      BY <2>2, <2>4
    <3>2. Lt'[j][m] = Lt[j][m]
      BY <2>1, <2>4
    <3>3. QED
      BY <1>2, <3>1, <3>2
  <2>5. QED
    BY <2>3, <2>4
<1>4. CASE DecLeaf(c)
  <2>0. PICK k, l : k = Slot(oldestEi[c]) /\ l = ltiRing[c][k]
    OBVIOUS
  <2>1. /\ Lt'[k][l] = Lt[k][l] - 1
        /\ \A n \in Leaves \ {l} : Lt'[k][n] = Lt[k][n]
        /\ \A n \in Slots \ {k} : Lt'[n] = Lt[n]
    BY <1>0, <1>4, <2>0, LowerLeafStep
  <2>2. /\ c \in Holders(k, l) /\ Holders(k, l)' = Holders(k, l) \ {c}
        /\ \A n : n # l => Holders(k, n)' = Holders(k, n)
        /\ \A i \in Slots \ {k} : \A n : Holders(i, n)' = Holders(i, n)
    BY <1>4, <2>0, HoldersLowered
  <2>3. CASE j = k /\ m = l
    <3>1. Cardinality(Holders(j, m) \ {c}) = Cardinality(Holders(j, m)) - 1
      BY <1>2, <2>2, <2>3, OneMore
    <3>2. Holders(j, m)' = Holders(j, m) \ {c}
      BY <2>2, <2>3
    <3>3. QED
      BY <1>2, <2>1, <2>3, <3>1, <3>2
  <2>4. CASE j # k \/ m # l
    <3>1. Holders(j, m)' = Holders(j, m)
      BY <2>2, <2>4
    <3>2. Lt'[j][m] = Lt[j][m]
      BY <2>1, <2>4
    <3>3. QED
      BY <1>2, <3>1, <3>2
  <2>5. QED
    BY <2>3, <2>4
<1>5. CASE ~Attach(c) /\ ~MoveLeaf(c) /\ ~DecLeaf(c)
  <2>1. Lt' = Lt
    BY <1>0, <1>5, TallyFrame
  <2>2. Holders(j, m)' = Holders(j, m)
    BY <1>5, HoldersStay
  <2>3. QED
    BY <1>2, <2>1, <2>2
<1>6. QED
  BY <1>3, <1>4, <1>5

(* The edges between leaves and roots.                                     *)
LEMMA RaiserHolds ==
    ASSUME TypeInv, Layout, RangesSound, NEW d \in Consumers, NEW k \in Slots, RaisingRoot(d, k)
    PROVE  HoldsSlot(d, k) /\ d \in Holders(k, ltiRing[d][k])
<1>1. PICK a \in Nat : a = at[d]
  BY ViewTypes
<1>2. Attached(d)
  BY DEF RaisingRoot, Attached, SubscribePhases
<1>3. Holds(d, a)
  <2>1. CASE cpc[d] = "moveRoot"
    BY <1>1, <1>2, <2>1 DEF Holds
  <2>2. CASE cpc[d] = "subRoot"
    <3>1. at[d] = oldestEi[d] /\ at[d] = newestEi[d]
      BY <1>2, <2>2 DEF RangesSound, RangeSound
    <3>2. QED
      BY <1>1, <1>2, <2>2, <3>1 DEF Holds
  <2>3. QED
    BY <2>1, <2>2 DEF RaisingRoot
<1>4. a \in Epochs
  BY <1>3, HeldSound
<1>5. Slot(a) = k
  BY <1>1 DEF RaisingRoot
<1>6. HoldsSlot(d, k)
  BY <1>3, <1>4, <1>5 DEF HoldsSlot
<1>7. QED
  BY <1>6, HoldersAre

LEMMA RaisersStep ==
    ASSUME Inv, NEW c \in Consumers, ConsumerNext(c), TypeInv'
    PROVE  /\ Attach(c) \/ MoveLeaf(c) =>
                \A k : k = Slot(at[c]) =>
                    /\ \A j : c \notin Raisers(j)
                    /\ \A j : j # k => Raisers(j)' = Raisers(j)
                    /\ Lt[k][ltiRing'[c][k]] = 0 => Raisers(k)' = Raisers(k) \cup {c}
                    /\ Lt[k][ltiRing'[c][k]] # 0 => Raisers(k)' = Raisers(k)
           /\ AttachRoot(c) \/ MoveRoot(c) =>
                \A k : k = Slot(at[c]) =>
                    /\ c \in Raisers(k) /\ Raisers(k)' = Raisers(k) \ {c}
                    /\ \A j : j # k => Raisers(j)' = Raisers(j)
           /\ ~Attach(c) /\ ~MoveLeaf(c) /\ ~AttachRoot(c) /\ ~MoveRoot(c) =>
                \A j : Raisers(j)' = Raisers(j)
<1>0. TypeInv /\ RangesSound
  BY DEF Inv, Base, ViewInv
<1>1. \A d \in Consumers \ {c} : \A j : RaisingRoot(d, j)' <=> RaisingRoot(d, j)
  BY <1>0, HoldsAlone DEF RaisingRoot
<1>2. ASSUME Attach(c) \/ MoveLeaf(c), NEW k, k = Slot(at[c])
      PROVE  /\ \A j : c \notin Raisers(j)
             /\ \A j : j # k => Raisers(j)' = Raisers(j)
             /\ Lt[k][ltiRing'[c][k]] = 0 => Raisers(k)' = Raisers(k) \cup {c}
             /\ Lt[k][ltiRing'[c][k]] # 0 => Raisers(k)' = Raisers(k)
  <2>1. PICK l \in Leaves :
               /\ ltiRing'[c][k] = l
               /\ Lt[k][l] = 0 => cpc'[c] \in {"subRoot", "moveRoot"} /\ at'[c] = at[c]
               /\ Lt[k][l] # 0 => cpc'[c] \notin {"subRoot", "moveRoot"}
               /\ cpc[c] \in {"subLeaf", "moveLeaf"}
    BY <1>0, <1>2, RaiseLeafStep
  <2>2. \A j : ~RaisingRoot(c, j)
    BY <2>1 DEF RaisingRoot
  <2>3. \A j : RaisingRoot(c, j)' <=> (j = k /\ Lt[k][l] = 0)
    BY <1>2, <2>1 DEF RaisingRoot
  <2>4. QED
    BY <1>1, <2>1, <2>2, <2>3 DEF Raisers
<1>3. ASSUME AttachRoot(c) \/ MoveRoot(c), NEW k, k = Slot(at[c])
      PROVE  /\ c \in Raisers(k) /\ Raisers(k)' = Raisers(k) \ {c}
             /\ \A j : j # k => Raisers(j)' = Raisers(j)
  <2>1. /\ cpc[c] \in {"subRoot", "moveRoot"} /\ cpc'[c] \notin {"subRoot", "moveRoot"}
    BY <1>0, <1>3, RootSteps
  <2>2. \A j : /\ RaisingRoot(c, j) <=> j = k
               /\ ~RaisingRoot(c, j)'
    BY <1>3, <2>1 DEF RaisingRoot
  <2>3. QED
    BY <1>1, <2>2 DEF Raisers
<1>4. ASSUME ~Attach(c), ~MoveLeaf(c), ~AttachRoot(c), ~MoveRoot(c)
      PROVE  \A j : Raisers(j)' = Raisers(j)
  <2>1. cpc[c] \notin {"subRoot", "moveRoot"} /\ cpc'[c] \notin {"subRoot", "moveRoot"}
    BY <1>0, <1>4, EdgesStep
  <2>2. \A j : ~RaisingRoot(c, j) /\ ~RaisingRoot(c, j)'
    BY <2>1 DEF RaisingRoot
  <2>3. QED
    BY <1>1, <2>2 DEF Raisers
<1>5. QED
  BY <1>2, <1>3, <1>4

LEMMA LowerersStep ==
    ASSUME Inv, NEW c \in Consumers, ConsumerNext(c)
    PROVE  /\ DecLeaf(c) =>
                \A k, l : k = Slot(oldestEi[c]) /\ l = ltiRing[c][k] =>
                    /\ \A j : c \notin Lowerers(j)
                    /\ \A j : j # k => Lowerers(j)' = Lowerers(j)
                    /\ Lt[k][l] = 1 => Lowerers(k)' = Lowerers(k) \cup {c}
                    /\ Lt[k][l] # 1 => Lowerers(k)' = Lowerers(k)
           /\ DecRoot(c) =>
                \A k : k = Slot(oldestEi[c]) =>
                    /\ c \in Lowerers(k) /\ Lowerers(k)' = Lowerers(k) \ {c}
                    /\ \A j : j # k => Lowerers(j)' = Lowerers(j)
           /\ ~DecLeaf(c) /\ ~DecRoot(c) => \A j : Lowerers(j)' = Lowerers(j)
<1>0. TypeInv /\ RangesSound
  BY DEF Inv, Base, ViewInv
<1>1. \A d \in Consumers \ {c} : \A j : LoweringRoot(d, j)' <=> LoweringRoot(d, j)
  BY <1>0, HoldsAlone DEF LoweringRoot
<1>2. ASSUME DecLeaf(c), NEW k, NEW l, k = Slot(oldestEi[c]), l = ltiRing[c][k]
      PROVE  /\ \A j : c \notin Lowerers(j)
             /\ \A j : j # k => Lowerers(j)' = Lowerers(j)
             /\ Lt[k][l] = 1 => Lowerers(k)' = Lowerers(k) \cup {c}
             /\ Lt[k][l] # 1 => Lowerers(k)' = Lowerers(k)
  <2>1. /\ Lt[k][l] = 1 => cpc'[c] = "decRoot" /\ oldestEi'[c] = oldestEi[c]
        /\ Lt[k][l] # 1 => cpc'[c] # "decRoot"
        /\ cpc[c] = "decLeaf"
    BY <1>0, <1>2, LowerLeafStep
  <2>2. \A j : ~LoweringRoot(c, j)
    BY <2>1 DEF LoweringRoot
  <2>3. \A j : LoweringRoot(c, j)' <=> (j = k /\ Lt[k][l] = 1)
    BY <1>2, <2>1 DEF LoweringRoot
  <2>4. QED
    BY <1>1, <2>2, <2>3 DEF Lowerers
<1>3. ASSUME DecRoot(c), NEW k, k = Slot(oldestEi[c])
      PROVE  /\ c \in Lowerers(k) /\ Lowerers(k)' = Lowerers(k) \ {c}
             /\ \A j : j # k => Lowerers(j)' = Lowerers(j)
  <2>1. cpc[c] = "decRoot" /\ cpc'[c] # "decRoot"
    BY <1>0, <1>3, RootSteps
  <2>2. \A j : /\ LoweringRoot(c, j) <=> j = k
               /\ ~LoweringRoot(c, j)'
    BY <1>3, <2>1 DEF LoweringRoot
  <2>3. QED
    BY <1>1, <2>2 DEF Lowerers
<1>4. ASSUME ~DecLeaf(c), ~DecRoot(c) PROVE \A j : Lowerers(j)' = Lowerers(j)
  <2>1. cpc[c] # "decRoot" /\ cpc'[c] # "decRoot"
    BY <1>0, <1>4, EdgesStep
  <2>2. \A j : ~LoweringRoot(c, j) /\ ~LoweringRoot(c, j)'
    BY <2>1 DEF LoweringRoot
  <2>3. QED
    BY <1>1, <2>2 DEF Lowerers
<1>5. QED
  BY <1>2, <1>3, <1>4

(* The edge of a leaf is on its way to the root once at a time.            *)
LEMMA ConsumerRaisers ==
    ASSUME Inv, NEW c \in Consumers, ConsumerNext(c), TypeInv'
    PROVE  RaisersApart'
<1>0. TypeInv /\ Layout /\ RangesSound /\ LeavesAgree /\ RaisersApart
  BY DEF Inv, Base, ViewInv, TallyInv
<1>1. SUFFICES ASSUME NEW d \in Consumers, NEW b \in Consumers, NEW j \in Slots,
                      RaisingRoot(d, j)', RaisingRoot(b, j)',
                      ltiRing'[d][j] = ltiRing'[b][j], d # b
               PROVE  FALSE
  BY DEF RaisersApart
<1>2. \A x \in Consumers \ {c} : /\ RaisingRoot(x, j)' <=> RaisingRoot(x, j)
                                /\ ltiRing'[x] = ltiRing[x]
  BY <1>0, HoldsAlone DEF RaisingRoot
<1>3. CASE d # c /\ b # c
  BY <1>0, <1>1, <1>2, <1>3 DEF RaisersApart
<1>4. ASSUME NEW x \in Consumers \ {c}, RaisingRoot(c, j)', RaisingRoot(x, j)',
             ltiRing'[c][j] = ltiRing'[x][j]
      PROVE  FALSE
  <2>1. Attach(c) \/ MoveLeaf(c)
    BY <1>0, <1>4, EdgesStep DEF RaisingRoot
  <2>2. PICK k : k = Slot(at[c])
    OBVIOUS
  <2>3. PICK l \in Leaves :
               /\ ltiRing'[c][k] = l
               /\ Lt[k][l] = 0 => cpc'[c] \in {"subRoot", "moveRoot"} /\ at'[c] = at[c]
               /\ Lt[k][l] # 0 => cpc'[c] \notin {"subRoot", "moveRoot"}
    BY <1>0, <2>1, <2>2, RaiseLeafStep
  <2>4. j = k /\ Lt[j][l] = 0
    BY <1>4, <2>2, <2>3 DEF RaisingRoot
  <2>5. RaisingRoot(x, j) /\ ltiRing[x][j] = l
    BY <1>2, <1>4, <2>3, <2>4
  <2>6. x \in Holders(j, l)
    BY <1>0, <2>5, RaiserHolds
  <2>7. Cardinality(Holders(j, l)) > 0 /\ Lt[j][l] = Cardinality(Holders(j, l))
    BY <1>0, <2>6, OneMore DEF Holders, LeavesAgree
  <2>8. QED
    BY <2>4, <2>7
<1>5. QED
  BY <1>1, <1>3, <1>4

LEMMA OneMoreLeaf ==
    ASSUME NEW S, NEW l \in Leaves, S \subseteq Leaves
    PROVE  /\ l \notin S => Cardinality(S \cup {l}) = Cardinality(S) + 1
           /\ l \in S => Cardinality(S \ {l}) = Cardinality(S) - 1
           /\ Cardinality(S) \in Nat
<1>1. IsFiniteSet(Leaves)
  BY FS_Interval, ConsumerAssumption DEF Leaves
<1>2. IsFiniteSet(S)
  BY <1>1, FS_Subset
<1>3. Cardinality(S) \in Nat
  BY <1>2, FS_CardinalityType
<1>4. l \notin S => Cardinality(S \cup {l}) = Cardinality(S) + 1
  BY <1>2, FS_AddElement
<1>5. l \in S => Cardinality(S \ {l}) = Cardinality(S) - 1
  BY <1>2, FS_RemoveElement
<1>6. QED
  BY <1>3, <1>4, <1>5

LEMMA TouchedAre == \A k : Touched(k)' = {l \in Leaves : Lt'[k][l] > 0}
  BY DEF Touched

LEMMA LeavesNotNegative ==
    ASSUME LeavesAgree
    PROVE  \A k \in Slots : \A l \in Leaves : Lt[k][l] \in Nat
<1>1. \A k, l : Cardinality(Holders(k, l)) \in Nat
  BY SetsFinite DEF Holders
<1>2. QED
  BY <1>1 DEF LeavesAgree

LEMMA ConsumerRoot ==
    ASSUME Inv, NEW c \in Consumers, ConsumerNext(c), TypeInv', NEW j \in Slots
    PROVE  (Count[j] + Cardinality(Raisers(j)) = Cardinality(Touched(j)) + Cardinality(Lowerers(j)))'
<1>0. TypeInv /\ LeavesAgree /\ RootsAgree
  BY DEF Inv, Base, ViewInv, TallyInv
<1>2. /\ Count[j] + Cardinality(Raisers(j)) = Cardinality(Touched(j)) + Cardinality(Lowerers(j))
      /\ Count[j] \in Int
      /\ Raisers(j) \subseteq Consumers /\ Lowerers(j) \subseteq Consumers /\ Touched(j) \subseteq Leaves
  BY <1>0, TallyTypes DEF RootsAgree, Raisers, Lowerers, Touched
<1>3. /\ Cardinality(Raisers(j)) \in Nat /\ Cardinality(Lowerers(j)) \in Nat
      /\ Cardinality(Touched(j)) \in Nat
  BY <1>2, SetsFinite
<1>4. CASE Attach(c) \/ MoveLeaf(c)
  <2>0. PICK k : k = Slot(at[c])
    OBVIOUS
  <2>1. PICK l \in Leaves :
               /\ k \in Slots /\ Lt'[k][l] = Lt[k][l] + 1 /\ ltiRing'[c][k] = l
               /\ \A n \in Leaves \ {l} : Lt'[k][n] = Lt[k][n]
               /\ \A n \in Slots \ {k} : Lt'[n] = Lt[n]
               /\ cpc[c] \in {"subLeaf", "moveLeaf"}
    BY <1>0, <1>4, <2>0, RaiseLeafStep
  <2>2. /\ \A i : c \notin Raisers(i)
        /\ \A i : i # k => Raisers(i)' = Raisers(i)
        /\ Lt[k][l] = 0 => Raisers(k)' = Raisers(k) \cup {c}
        /\ Lt[k][l] # 0 => Raisers(k)' = Raisers(k)
    BY <1>4, <2>0, <2>1, RaisersStep
  <2>3. ~AttachRoot(c) /\ ~MoveRoot(c) /\ ~DecRoot(c) /\ ~DecLeaf(c)
    BY <2>1 DEF AttachRoot, MoveRoot, DecRoot, DecLeaf
  <2>4. Count' = Count /\ Lowerers(j)' = Lowerers(j)
    BY <1>0, <2>3, TallyFrame, LowerersStep
  <2>5. Lt[k][l] \in Nat
    BY <1>0, <2>1, LeavesNotNegative
  <2>6. CASE j # k \/ Lt[k][l] # 0
    <3>1. Touched(j)' = Touched(j)
      <4>1. \A n \in Leaves : Lt'[j][n] > 0 <=> Lt[j][n] > 0
        BY <2>1, <2>5, <2>6
      <4>2. QED
        BY <4>1, TouchedAre DEF Touched
    <3>2. Raisers(j)' = Raisers(j)
      BY <2>2, <2>6
    <3>3. QED
      BY <1>2, <2>4, <3>1, <3>2
  <2>7. CASE j = k /\ Lt[k][l] = 0
    <3>1. Touched(j)' = Touched(j) \cup {l} /\ l \notin Touched(j)
      <4>1. \A n \in Leaves : Lt'[j][n] > 0 <=> Lt[j][n] > 0 \/ n = l
        BY <2>1, <2>7
      <4>2. ~(Lt[j][l] > 0)
        BY <2>7
      <4>3. QED
        BY <4>1, <4>2, TouchedAre DEF Touched
    <3>2. Raisers(j)' = Raisers(j) \cup {c} /\ c \notin Raisers(j)
      BY <2>2, <2>7
    <3>3. Cardinality(Touched(j) \cup {l}) = Cardinality(Touched(j)) + 1
      BY <1>2, <2>1, <3>1, OneMoreLeaf
    <3>4. Cardinality(Raisers(j) \cup {c}) = Cardinality(Raisers(j)) + 1
      BY <1>2, <3>2, OneMore
    <3>5. Cardinality(Touched(j)') = Cardinality(Touched(j)) + 1 /\ Cardinality(Raisers(j)') = Cardinality(Raisers(j)) + 1
      BY <3>1, <3>2, <3>3, <3>4
    <3>6. QED
      BY <1>2, <1>3, <2>4, <3>5
  <2>8. QED
    BY <2>6, <2>7
<1>5. CASE DecLeaf(c)
  <2>0. PICK k, l : k = Slot(oldestEi[c]) /\ l = ltiRing[c][k]
    OBVIOUS
  <2>1. /\ k \in Slots /\ l \in Leaves /\ Lt[k][l] > 0 /\ Lt'[k][l] = Lt[k][l] - 1
        /\ \A n \in Leaves \ {l} : Lt'[k][n] = Lt[k][n]
        /\ \A n \in Slots \ {k} : Lt'[n] = Lt[n]
        /\ cpc[c] = "decLeaf"
    BY <1>0, <1>5, <2>0, LowerLeafStep
  <2>2. /\ \A i : c \notin Lowerers(i)
        /\ \A i : i # k => Lowerers(i)' = Lowerers(i)
        /\ Lt[k][l] = 1 => Lowerers(k)' = Lowerers(k) \cup {c}
        /\ Lt[k][l] # 1 => Lowerers(k)' = Lowerers(k)
    BY <1>5, <2>0, LowerersStep
  <2>3. ~AttachRoot(c) /\ ~MoveRoot(c) /\ ~DecRoot(c) /\ ~Attach(c) /\ ~MoveLeaf(c)
    BY <2>1 DEF AttachRoot, MoveRoot, DecRoot, Attach, MoveLeaf
  <2>4. Count' = Count /\ Raisers(j)' = Raisers(j)
    BY <1>0, <2>3, TallyFrame, RaisersStep
  <2>5. Lt[k][l] \in Nat
    BY <1>0, <2>1, LeavesNotNegative
  <2>6. CASE j # k \/ Lt[k][l] # 1
    <3>1. Touched(j)' = Touched(j)
      <4>1. \A n \in Leaves : Lt'[j][n] > 0 <=> Lt[j][n] > 0
        BY <2>1, <2>5, <2>6
      <4>2. QED
        BY <4>1, TouchedAre DEF Touched
    <3>2. Lowerers(j)' = Lowerers(j)
      BY <2>2, <2>6
    <3>3. QED
      BY <1>2, <2>4, <3>1, <3>2
  <2>7. CASE j = k /\ Lt[k][l] = 1
    <3>1. Touched(j)' = Touched(j) \ {l} /\ l \in Touched(j)
      <4>1. \A n \in Leaves : Lt'[j][n] > 0 <=> Lt[j][n] > 0 /\ n # l
        BY <2>1, <2>7
      <4>2. Lt[j][l] > 0
        BY <2>7
      <4>3. QED
        BY <2>1, <4>1, <4>2, TouchedAre DEF Touched
    <3>2. Lowerers(j)' = Lowerers(j) \cup {c} /\ c \notin Lowerers(j)
      BY <2>2, <2>7
    <3>3. Cardinality(Touched(j) \ {l}) = Cardinality(Touched(j)) - 1
      BY <1>2, <2>1, <3>1, OneMoreLeaf
    <3>4. Cardinality(Lowerers(j) \cup {c}) = Cardinality(Lowerers(j)) + 1
      BY <1>2, <3>2, OneMore
    <3>5. Cardinality(Touched(j)') = Cardinality(Touched(j)) - 1 /\ Cardinality(Lowerers(j)') = Cardinality(Lowerers(j)) + 1
      BY <3>1, <3>2, <3>3, <3>4
    <3>6. QED
      BY <1>2, <1>3, <2>4, <3>5
  <2>8. QED
    BY <2>6, <2>7
<1>6. CASE ~Attach(c) /\ ~MoveLeaf(c) /\ ~DecLeaf(c)
  <2>1. Touched(j)' = Touched(j)
    BY <1>0, <1>6, TallyFrame, TouchedAre DEF Touched
  <2>2. CASE AttachRoot(c) \/ MoveRoot(c)
    <3>0. PICK k : k = Slot(at[c])
      OBVIOUS
    <3>1. /\ k \in Slots /\ Count'[k] = Count[k] + 1
          /\ \A n \in Slots \ {k} : Count'[n] = Count[n]
          /\ cpc[c] \in {"subRoot", "moveRoot"}
      BY <1>0, <2>2, <3>0, RootSteps
    <3>2. /\ c \in Raisers(k) /\ Raisers(k)' = Raisers(k) \ {c}
          /\ \A n : n # k => Raisers(n)' = Raisers(n)
      BY <2>2, <3>0, RaisersStep
    <3>3. ~DecRoot(c)
      BY <3>1 DEF DecRoot
    <3>4. Lowerers(j)' = Lowerers(j)
      BY <1>6, <3>3, LowerersStep
    <3>5. CASE j # k
      BY <1>2, <2>1, <3>1, <3>2, <3>4, <3>5
    <3>6. CASE j = k
      <4>1. Cardinality(Raisers(j) \ {c}) = Cardinality(Raisers(j)) - 1
        BY <1>2, <3>2, <3>6, OneMore
      <4>2. Cardinality(Raisers(j)') = Cardinality(Raisers(j)) - 1
        BY <3>2, <3>6, <4>1
      <4>3. QED
        BY <1>2, <1>3, <2>1, <3>1, <3>4, <3>6, <4>2
    <3>7. QED
      BY <3>5, <3>6
  <2>3. CASE DecRoot(c)
    <3>0. PICK k : k = Slot(oldestEi[c])
      OBVIOUS
    <3>1. /\ k \in Slots /\ Count'[k] = Count[k] - 1
          /\ \A n \in Slots \ {k} : Count'[n] = Count[n]
          /\ cpc[c] = "decRoot"
      BY <1>0, <2>3, <3>0, RootSteps
    <3>2. /\ c \in Lowerers(k) /\ Lowerers(k)' = Lowerers(k) \ {c}
          /\ \A n : n # k => Lowerers(n)' = Lowerers(n)
      BY <2>3, <3>0, LowerersStep
    <3>3. ~AttachRoot(c) /\ ~MoveRoot(c)
      BY <3>1 DEF AttachRoot, MoveRoot
    <3>4. Raisers(j)' = Raisers(j)
      BY <1>6, <3>3, RaisersStep
    <3>5. CASE j # k
      BY <1>2, <2>1, <3>1, <3>2, <3>4, <3>5
    <3>6. CASE j = k
      <4>1. Cardinality(Lowerers(j) \ {c}) = Cardinality(Lowerers(j)) - 1
        BY <1>2, <3>2, <3>6, OneMore
      <4>2. Cardinality(Lowerers(j)') = Cardinality(Lowerers(j)) - 1
        BY <3>2, <3>6, <4>1
      <4>3. QED
        BY <1>2, <1>3, <2>1, <3>1, <3>4, <3>6, <4>2
    <3>7. QED
      BY <3>5, <3>6
  <2>4. CASE ~AttachRoot(c) /\ ~MoveRoot(c) /\ ~DecRoot(c)
    <3>1. Count' = Count
      BY <1>0, <2>4, TallyFrame
    <3>2. Raisers(j)' = Raisers(j) /\ Lowerers(j)' = Lowerers(j)
      BY <1>6, <2>4, RaisersStep, LowerersStep
    <3>3. QED
      BY <1>2, <2>1, <3>1, <3>2
  <2>5. QED
    BY <2>2, <2>3, <2>4
<1>7. QED
  BY <1>4, <1>5, <1>6

LEMMA RootsStay ==
    ASSUME Inv, NEW c \in Consumers, ConsumerNext(c), TypeInv'
    PROVE  RootsAgree'
<1>1. SUFFICES ASSUME NEW j \in Slots
               PROVE  (Count[j] + Cardinality(Raisers(j)) = Cardinality(Touched(j)) + Cardinality(Lowerers(j)))'
  BY DEF RootsAgree
<1>2. QED
  BY ConsumerRoot

(* The provisional pins.                                                   *)
LEMMA PinStep ==
    ASSUME TypeInv, NEW c \in Consumers, NEW k \in Slots, Pin(c, k)
    PROVE  /\ subs'[c] = subs[c] \cup {k}
           /\ Sub'[k] = IF k \in subs[c] THEN Sub[k] ELSE Sub[k] + 1
           /\ \A j \in Slots \ {k} : Sub'[j] = Sub[j]
  BY TallyTypes, ConsumerFunctions DEF Pin, Set

LEMMA UnpinStep ==
    ASSUME TypeInv, NEW c \in Consumers, NEW k \in Slots, Unpin(c, k)
    PROVE  /\ subs'[c] = subs[c] \ {k}
           /\ Sub'[k] = Sub[k] - 1
           /\ \A j \in Slots \ {k} : Sub'[j] = Sub[j]
  BY TallyTypes, ConsumerFunctions DEF Unpin, Set

LEMMA PinsStay ==
    ASSUME Inv, NEW c \in Consumers, ConsumerNext(c)
    PROVE  SubsAgree'
<1>0. TypeInv /\ SubsAgree /\ AttemptsInv
  BY DEF Inv, Base, ViewInv, TallyInv
<1>1. SUFFICES ASSUME NEW j \in Slots PROVE (Sub[j] = Cardinality(Pinners(j)))'
  BY DEF SubsAgree
<1>2. /\ Sub[j] = Cardinality(Pinners(j)) /\ Sub[j] \in Int
      /\ Pinners(j) \subseteq Consumers /\ Cardinality(Pinners(j)) \in Nat
  BY <1>0, TallyTypes, SetsFinite DEF SubsAgree, Pinners
<1>3. \A d \in Consumers \ {c} : subs'[d] = subs[d]
  BY <1>0, HoldsAlone
<1>4. ASSUME NEW k \in Slots, Pin(c, k) PROVE (Sub[j] = Cardinality(Pinners(j)))'
  <2>1. /\ subs'[c] = subs[c] \cup {k}
        /\ Sub'[k] = IF k \in subs[c] THEN Sub[k] ELSE Sub[k] + 1
        /\ \A i \in Slots \ {k} : Sub'[i] = Sub[i]
    BY <1>0, <1>4, PinStep
  <2>2. CASE j # k \/ k \in subs[c]
    <3>1. Pinners(j)' = Pinners(j)
      BY <1>3, <2>1, <2>2 DEF Pinners
    <3>2. QED
      BY <1>2, <2>1, <2>2, <3>1
  <2>3. CASE j = k /\ k \notin subs[c]
    <3>1. Pinners(j)' = Pinners(j) \cup {c} /\ c \notin Pinners(j)
      BY <1>3, <2>1, <2>3 DEF Pinners
    <3>2. Cardinality(Pinners(j) \cup {c}) = Cardinality(Pinners(j)) + 1
      BY <1>2, <3>1, OneMore
    <3>3. Cardinality(Pinners(j)') = Cardinality(Pinners(j)) + 1
      BY <3>1, <3>2
    <3>4. QED
      BY <1>2, <2>1, <2>3, <3>3
  <2>4. QED
    BY <2>2, <2>3
<1>5. ASSUME NEW k \in Slots, k \in subs[c], Unpin(c, k) PROVE (Sub[j] = Cardinality(Pinners(j)))'
  <2>1. /\ subs'[c] = subs[c] \ {k}
        /\ Sub'[k] = Sub[k] - 1
        /\ \A i \in Slots \ {k} : Sub'[i] = Sub[i]
    BY <1>0, <1>5, UnpinStep
  <2>2. CASE j # k
    <3>1. Pinners(j)' = Pinners(j)
      BY <1>3, <2>1, <2>2 DEF Pinners
    <3>2. QED
      BY <1>2, <2>1, <2>2, <3>1
  <2>3. CASE j = k
    <3>1. Pinners(j)' = Pinners(j) \ {c} /\ c \in Pinners(j)
      BY <1>3, <1>5, <2>1, <2>3 DEF Pinners
    <3>2. Cardinality(Pinners(j) \ {c}) = Cardinality(Pinners(j)) - 1
      BY <1>2, <3>1, OneMore
    <3>3. Cardinality(Pinners(j)') = Cardinality(Pinners(j)) - 1
      BY <3>1, <3>2
    <3>4. QED
      BY <1>2, <2>1, <2>3, <3>3
  <2>4. QED
    BY <2>2, <2>3
<1>6. CASE PinTail(c)
  <2>1. Slot(probe[c]) \in Slots
    BY <1>0, ViewTypes, StatTypes
  <2>2. QED
    BY <1>4, <1>6, <2>1 DEF PinTail
<1>7. CASE PinCandidate(c)
  <2>1. Slot(at[c]) \in Slots
    BY <1>0, ViewTypes
  <2>2. QED
    BY <1>4, <1>7, <2>1 DEF PinCandidate
<1>8. CASE UnpinCandidate(c)
  <2>1. Slot(at[c]) \in Slots /\ cpc[c] \in {"unpinCand", "unpinInvalid"}
    BY <1>0, <1>8, ViewTypes DEF UnpinCandidate
  <2>2. Slot(at[c]) \in subs[c]
    BY <1>0, <2>1 DEF AttemptsInv, AttemptSound, Candidate
  <2>3. QED
    BY <1>5, <1>8, <2>1, <2>2 DEF UnpinCandidate
<1>9. CASE UnpinAll(c)
  <2>1. LowestSub(c) \in subs[c] /\ Unpin(c, LowestSub(c))
    BY <1>0, <1>9, LowestIsHeld DEF UnpinAll
  <2>2. LowestSub(c) \in Slots
    BY <1>0, <2>1, ViewTypes
  <2>3. QED
    BY <1>5, <2>1, <2>2
<1>10. CASE ~PinTail(c) /\ ~PinCandidate(c) /\ ~UnpinCandidate(c) /\ ~UnpinAll(c)
  <2>1. Sub' = Sub /\ subs' = subs
    BY <1>0, <1>10, TallyFrame
  <2>2. Pinners(j)' = Pinners(j)
    BY <2>1 DEF Pinners
  <2>3. QED
    BY <1>2, <2>1, <2>2
<1>11. QED
  BY <1>6, <1>7, <1>8, <1>9, <1>10

LEMMA ConsumerTallies ==
    ASSUME Inv, NEW c \in Consumers, ConsumerNext(c), TypeInv'
    PROVE  TallyInv'
  BY ConsumerLeaves, RootsStay, PinsStay, ConsumerRaisers DEF TallyInv

(* A tally that is about to be lowered is positive.                        *)
LEMMA LeafPositive ==
    ASSUME Inv, NEW c \in Consumers, cpc[c] = "decLeaf"
    PROVE  Lt[Slot(oldestEi[c])][ltiRing[c][Slot(oldestEi[c])]] > 0
<1>0. /\ TypeInv /\ Layout /\ RangesSound /\ LeavesAgree
      /\ oldestEi[c] \in Nat /\ newestEi[c] \in Nat /\ Slot(oldestEi[c]) \in Slots
      /\ ltiRing[c][Slot(oldestEi[c])] \in Leaves
  BY ViewTypes DEF Inv, Base, ViewInv, TallyInv
<1>1. Attached(c) /\ oldestEi[c] <= newestEi[c]
  BY <1>0 DEF RangesSound, RangeSound, Attached, SubscribePhases
<1>2. PICK o \in Nat : o = oldestEi[c]
  BY <1>0
<1>3. Holds(c, o)
  BY <1>0, <1>1, <1>2 DEF Holds
<1>4. o \in Epochs
  BY <1>0, <1>3, HeldSound
<1>5. PICK l \in Leaves : l = ltiRing[c][Slot(o)]
  BY <1>0, <1>2
<1>6. c \in Holders(Slot(o), l)
  BY <1>3, <1>4, <1>5 DEF Holders
<1>7. Cardinality(Holders(Slot(o), l)) > 0
  BY <1>6, OneMore DEF Holders
<1>8. Slot(o) \in Slots
  BY <1>0, <1>2
<1>9. Lt[Slot(o)][l] > 0
  BY <1>0, <1>5, <1>7, <1>8 DEF LeavesAgree
<1>10. QED
  BY <1>2, <1>5, <1>9

(* Every edge that has still to reach a root is that of a different leaf.  *)
LEMMA RaisersFew ==
    ASSUME TypeInv, Layout, RangesSound, LeavesAgree, RaisersApart, NEW k \in Slots
    PROVE  Cardinality(Raisers(k)) <= Cardinality(Touched(k))
<1>1. \A d \in Raisers(k) : d \in Consumers /\ RaisingRoot(d, k) /\ ltiRing[d][k] \in Leaves
  BY ViewTypes DEF Raisers
<1>2. \A d \in Raisers(k) : ltiRing[d][k] \in Touched(k)
  <2>1. SUFFICES ASSUME NEW d \in Raisers(k) PROVE ltiRing[d][k] \in Touched(k)
    OBVIOUS
  <2>2. PICK l \in Leaves : l = ltiRing[d][k]
    BY <1>1
  <2>3. d \in Holders(k, l)
    BY <1>1, <2>2, RaiserHolds
  <2>4. Cardinality(Holders(k, l)) > 0
    BY <1>1, <2>3, OneMore DEF Holders
  <2>5. Lt[k][l] > 0
    BY <2>2, <2>4 DEF LeavesAgree
  <2>6. QED
    BY <2>2, <2>5 DEF Touched
<1> DEFINE f == [d \in Raisers(k) |-> ltiRing[d][k]]
<1>3. f \in [Raisers(k) -> Touched(k)]
  BY <1>2
<1>4. \A d, b \in Raisers(k) : f[d] = f[b] => d = b
  BY <1>1 DEF RaisersApart
<1>5. f \in Injection(Raisers(k), Touched(k))
  BY <1>3, <1>4 DEF Injection, IsInjective
<1>6. IsFiniteSet(Touched(k))
  BY SetsFinite
<1> HIDE DEF f
<1>7. QED
  BY <1>5, <1>6, FS_Injection

(* A root that is about to be lowered is positive.                         *)
LEMMA RootPositive ==
    ASSUME Inv, NEW c \in Consumers, cpc[c] = "decRoot"
    PROVE  Count[Slot(oldestEi[c])] > 0
<1>0. /\ TypeInv /\ Layout /\ RangesSound /\ LeavesAgree /\ RootsAgree /\ RaisersApart
      /\ Slot(oldestEi[c]) \in Slots
  BY ViewTypes DEF Inv, Base, ViewInv, TallyInv
<1>1. PICK k \in Slots : k = Slot(oldestEi[c])
  BY <1>0
<1>2. c \in Lowerers(k)
  BY <1>1 DEF Lowerers, LoweringRoot
<1>3. Cardinality(Lowerers(k)) > 0 /\ Cardinality(Lowerers(k)) \in Nat
  BY <1>2, OneMore DEF Lowerers
<1>4. Cardinality(Raisers(k)) <= Cardinality(Touched(k))
  BY <1>0, RaisersFew
<1>5. Cardinality(Raisers(k)) \in Nat /\ Cardinality(Touched(k)) \in Nat /\ Count[k] \in Int
  BY <1>0, SetsFinite, TallyTypes DEF Raisers
<1>6. Count[k] + Cardinality(Raisers(k)) = Cardinality(Touched(k)) + Cardinality(Lowerers(k))
  BY <1>0 DEF RootsAgree
<1>7. QED
  BY <1>1, <1>3, <1>4, <1>5, <1>6

-----------------------------------------------------------------------------
(* Claims and completions.                                                 *)

(* Claims and completions.                                                 *)
Finishing == {"complete", "progress", "account"}

LEMMA OnlyWork ==
    ASSUME TypeInv, NEW c \in Consumers, ConsumerNext(c), ~WorkStep(c)
    PROVE  cpc[c] \notin ClaimPhases /\ cpc'[c] \notin Finishing
<1>1. cpc'[c] \notin Finishing
  <2>1. CASE EnterStep(c)
    BY <2>1, EnterSteps DEF EnterStep, Finishing
  <2>2. CASE CandidateStep(c)
    BY <2>2, CandidateSteps DEF CandidateStep, Scanned, RoundOver, Finishing
  <2>3. CASE ValidateStep(c)
    BY <2>3, ValidateSteps DEF ValidateStep, RoundOver, Finishing
  <2>4. CASE UnpinCandidate(c)
    BY <2>4, UnpinSteps DEF Scanned, RoundOver, Finishing
  <2>5. CASE AttachedStep(c)
    BY <2>5, AttachedStays DEF Finishing
  <2>6. CASE Attach(c)
    BY <2>6, AttachStep DEF Finishing
  <2>7. CASE Poll(c)
    BY <2>7, PollStep DEF Rested, RestPhases, Finishing
  <2>8. CASE MoveLeaf(c) \/ MoveRoot(c)
    BY <2>8, MoveLeafStep, MoveRootStep DEF Advanced, Finishing
  <2>9. CASE Visit(c)
    BY <2>9, VisitStep DEF Entered, Passed, Rested, RestPhases, Finishing
  <2>10. CASE Migrate(c)
    BY <2>10, MigrateStep DEF Rested, RestPhases, Finishing
  <2>11. CASE Release(c)
    <3>1. cpc[c] = "release" /\ (cpc'[c] = "clear" \/ Rested(c))
      BY <2>11, ReleaseStep
    <3>2. QED
      BY <3>1 DEF Rested, RestPhases, Finishing
  <2>12. CASE ClearLive(c)
    BY <2>12, ClearLiveStep DEF Finishing
  <2>13. CASE DecLeaf(c) \/ DecRoot(c)
    BY <2>13, DropStep DEF Finishing
  <2>14. CASE LeavingStep(c)
    BY <2>14, LeaveSteps DEF LeavingStep, Rested, RestPhases, Finishing
  <2>15. CASE Left(c)
    BY <2>15, LeftStep DEF Finishing
  <2>16. CASE SweepOldest(c) \/ SweepPosition(c)
    BY <2>16, SweepSteps DEF Rested, RestPhases, Finishing
  <2>17. CASE Walk(c)
    BY <2>17, WalkStep DEF WalkedPast, Entered, Finishing
  <2>18. CASE EndWalk(c)
    BY <2>18, EndWalkStep DEF Rested, RestPhases, Finishing
  <2>19. QED
    BY <2>1, <2>2, <2>3, <2>4, <2>5, <2>6, <2>7, <2>8, <2>9, <2>10, <2>11, <2>12, <2>13, <2>14,
       <2>15, <2>16, <2>17, <2>18, ConsumerCases
<1>2. cpc[c] \notin ClaimPhases
  <2>1. CASE ScanStep(c) \/ AttachedStep(c) \/ Attach(c)
    BY <2>1, ScanSteps, AttachedStays DEF Attached, SubscribePhases, ClaimPhases, ScanStep, EnterStep, CandidateStep, ValidateStep,
           CountConsumer, RefuseConsumer, ProbeTail, Attach,
           PinTail, Hint, PinCandidate, CandidateEs, CandidateRt, UnpinCandidate, ValidateEs,
           ValidateSeqt, ValidateWt, ValidateNext
  <2>2. CASE ~(ScanStep(c) \/ AttachedStep(c) \/ Attach(c))
    BY <2>2, ConsumerCases DEF ScanStep, LeavingStep, ClaimPhases, Poll, MoveLeaf, MoveRoot, Visit, Migrate,
        Release, ClearLive, DecLeaf, DecRoot,
        Leave, LeaveEpoch, Left, SweepOldest, SweepPosition, Walk, EndWalk, Unsubscribe
  <2>3. QED
    BY <2>1, <2>2
<1>3. QED
  BY <1>1, <1>2

Resting == {"claim", "account", "yield"}

SameCounts == Tclaims' = Tclaims /\ Tcomps' = Tcomps /\ Tprogress' = Tprogress

ClaimedAt(c, i) ==
    /\ cpc[c] = "claim" /\ cpc'[c] = "complete" /\ tseq'[c] = tseq[c]
    /\ Tclaims[i] < Runs /\ Tclaims'[i] = Tclaims[i] + 1
    /\ \A j \in Indices \ {i} : Tclaims'[j] = Tclaims[j]
    /\ Tcomps' = Tcomps /\ Tprogress' = Tprogress

CompletedAt(c, i) ==
    /\ cpc[c] = "complete" /\ tseq'[c] = tseq[c]
    /\ Tcomps[i] = Runs - 1 => cpc'[c] = "progress"
    /\ Tcomps[i] # Runs - 1 => cpc'[c] \in {"claim", "yield"}
    /\ Tcomps'[i] = Tcomps[i] + 1
    /\ \A j \in Indices \ {i} : Tcomps'[j] = Tcomps[j]
    /\ Tclaims' = Tclaims /\ Tprogress' = Tprogress

ProgressedAt(c, i) ==
    /\ cpc[c] = "progress" /\ cpc'[c] = "account" /\ tseq'[c] = tseq[c]
    /\ Tprogress'[i]
    /\ \A j \in Indices \ {i} : Tprogress'[j] = Tprogress[j]
    /\ Tclaims' = Tclaims /\ Tcomps' = Tcomps

LEMMA DonePhase ==
    ASSUME NEW c \in Consumers, Done(c)
    PROVE  cpc'[c] \notin ClaimPhases
  BY DEF Done, Passed, WalkedPast, Rested, RestPhases, ClaimPhases

LEMMA WorkCounts ==
    ASSUME TypeInv, NEW c \in Consumers, WorkStep(c), NEW i \in Indices, i = Idx(tseq[c])
    PROVE  \/ ClaimedAt(c, i) \/ CompletedAt(c, i) \/ ProgressedAt(c, i)
           \/ SameCounts /\ cpc[c] \in Resting /\ cpc'[c] \notin Finishing
<1>0. /\ Tclaims \in [Indices -> Nat] /\ Tcomps \in [Indices -> Nat] /\ Tprogress \in [Indices -> BOOLEAN]
      /\ Runs \in Nat
  BY ConsumerAssumption DEF TypeInv, TypeOK, FarmTypeOK, RingTypeOK
<1>1. CASE Claim(c)
  <2>1. cpc[c] = "claim" /\ Tcomps' = Tcomps /\ Tprogress' = Tprogress
    BY <1>1 DEF Claim
  <2>2. CASE Exhausted(Tclaims[i])
    <3>1. Tclaims' = Tclaims /\ Processed(c, FALSE)
      BY <1>1, <2>2 DEF Claim
    <3>2. cpc'[c] \notin ClaimPhases
      BY <3>1, ProcessedIsDone, DonePhase
    <3>3. QED
      BY <2>1, <3>1, <3>2 DEF SameCounts, Resting, Finishing, ClaimPhases
  <2>3. CASE ~Exhausted(Tclaims[i])
    <3>1. Tclaims' = [Tclaims EXCEPT ![i] = Tclaims[i] + 1] /\ Goto(c, "complete") /\ tseq' = tseq
      BY <1>1, <2>3 DEF Claim
    <3>2. Tclaims[i] < Runs
      BY <1>0, <2>3 DEF Exhausted
    <3>3. QED
      BY <1>0, <2>1, <3>1, <3>2, ConsumerFunctions DEF ClaimedAt, Goto
  <2>4. QED
    BY <2>2, <2>3
<1>2. CASE Complete(c)
  <2>1. /\ cpc[c] = "complete" /\ Tclaims' = Tclaims /\ Tprogress' = Tprogress
        /\ Tcomps' = [Tcomps EXCEPT ![i] = @ + 1]
    BY <1>2 DEF Complete
  <2>2. /\ tseq' = tseq
        /\ cpc' = [cpc EXCEPT ![c] = IF Tcomps[i] = Runs - 1 THEN "progress"
                         ELSE IF job[c] = "visit" /\ firstClaimant[c] THEN "yield"
                         ELSE "claim"]
    BY <1>2 DEF Complete, Claiming, Goto, claimVars
  <2>3. /\ Tcomps[i] = Runs - 1 => cpc'[c] = "progress"
        /\ Tcomps[i] # Runs - 1 => cpc'[c] \in {"claim", "yield"}
    BY <2>2, ConsumerFunctions
  <2>4. QED
    BY <1>0, <2>1, <2>2, <2>3 DEF CompletedAt
<1>3. CASE Progress(c)
  <2>1. /\ cpc[c] = "progress" /\ Tclaims' = Tclaims /\ Tcomps' = Tcomps
        /\ Tprogress' = [Tprogress EXCEPT ![i] = TRUE] /\ tseq' = tseq /\ Goto(c, "account")
    BY <1>3 DEF Progress, Claiming, claimVars
  <2>2. QED
    BY <1>0, <2>1, ConsumerFunctions DEF ProgressedAt, Goto
<1>4. CASE Account(c)
  <2>1. cpc[c] = "account" /\ SameCounts /\ Processed(c, TRUE)
    BY <1>4 DEF Account, ringVars, SameCounts
  <2>2. cpc'[c] \notin ClaimPhases
    BY <2>1, ProcessedIsDone, DonePhase
  <2>3. QED
    BY <2>1, <2>2 DEF Resting, Finishing, ClaimPhases
<1>5. CASE Yield(c)
  <2>1. cpc[c] = "yield" /\ SameCounts
    BY <1>5 DEF Yield, farmVars, ringVars, SameCounts
  <2>2. CASE Processed(c, FALSE)
    <3>1. cpc'[c] \notin ClaimPhases
      BY <2>2, ProcessedIsDone, DonePhase
    <3>2. QED
      BY <2>1, <3>1 DEF Resting, Finishing, ClaimPhases
  <2>3. CASE Claiming(c, "claim")
    BY <2>1, <2>3, ConsumerFunctions DEF Claiming, Goto, Resting, Finishing
  <2>4. QED
    BY <1>5, <2>2, <2>3 DEF Yield
<1>6. QED
  BY <1>1, <1>2, <1>3, <1>4, <1>5 DEF WorkStep

Completers(i) == {c \in Consumers : OnTable(c, i, "complete")}

LEMMA ConsumerRun ==
    ASSUME Inv, NEW c \in Consumers, ConsumerNext(c), UNCHANGED producerVars, NEW i \in Tables
    PROVE  RunSound(i)'
<1>0. /\ TypeInv /\ Layout /\ WalksSound /\ RunSound(i) /\ i \in Indices
      /\ Tclaims[i] \in Nat /\ Tcomps[i] \in Nat /\ Tprogress[i] \in BOOLEAN /\ Runs \in Nat /\ Runs > 0
  BY RunTypes, ConsumerAssumption DEF Inv, Base, WorkInv, RunsSound, Tables
<1>1. Tsent' = Tsent
  BY <1>0, ConsumerFrame
<1>2. \A d \in Consumers \ {c} : \A f : OnTable(d, i, f)' <=> OnTable(d, i, f)
  <2>1. SUFFICES ASSUME NEW d \in Consumers \ {c} PROVE \A f : OnTable(d, i, f)' <=> OnTable(d, i, f)
    OBVIOUS
  <2>2. ViewStill(d)
    BY <1>0, OthersAlone
  <2>3. QED
    BY <1>1, <2>2 DEF ViewStill, OnTable
<1>3. /\ Tclaims[i] <= Runs
      /\ Tcomps[i] + Cardinality(Completers(i)) = Tclaims[i]
      /\ Tprogress[i] => Tcomps[i] = Runs
      /\ \A d \in Consumers : OnTable(d, i, "progress") => Tcomps[i] = Runs /\ ~Tprogress[i]
      /\ Tcomps[i] = Runs /\ ~Tprogress[i] => \E d \in Consumers : OnTable(d, i, "progress")
      /\ \A d \in Consumers : OnTable(d, i, "account") => Tprogress[i]
      /\ \A d, b \in Consumers :
            /\ OnTable(d, i, "progress") /\ OnTable(b, i, "progress") => d = b
            /\ OnTable(d, i, "account") /\ OnTable(b, i, "account") => d = b
  BY <1>0 DEF RunSound, Completers
<1>4. /\ Tclaims'[i] <= Runs
      /\ Tcomps'[i] + Cardinality(Completers(i)') = Tclaims'[i]
      /\ Tprogress'[i] => Tcomps'[i] = Runs
      /\ \A d \in Consumers : OnTable(d, i, "progress")' => Tcomps'[i] = Runs /\ ~Tprogress'[i]
      /\ Tcomps'[i] = Runs /\ ~Tprogress'[i] => \E d \in Consumers : OnTable(d, i, "progress")'
      /\ \A d \in Consumers : OnTable(d, i, "account")' => Tprogress'[i]
      /\ \A d, b \in Consumers :
            /\ OnTable(d, i, "progress")' /\ OnTable(b, i, "progress")' => d = b
            /\ OnTable(d, i, "account")' /\ OnTable(b, i, "account")' => d = b
      => RunSound(i)'
  BY DEF RunSound, Completers
<1>5. Completers(i) \subseteq Consumers /\ Cardinality(Completers(i)) \in Nat
  BY SetsFinite DEF Completers
<1>6. ASSUME Tclaims'[i] = Tclaims[i], Tcomps'[i] = Tcomps[i], Tprogress'[i] = Tprogress[i],
             \A f \in Finishing : OnTable(c, i, f)' <=> OnTable(c, i, f)
      PROVE  RunSound(i)'
  <2>1. \A f \in Finishing : \A d \in Consumers : OnTable(d, i, f)' <=> OnTable(d, i, f)
    BY <1>2, <1>6
  <2>2. /\ \A d \in Consumers : OnTable(d, i, "complete")' <=> OnTable(d, i, "complete")
        /\ \A d \in Consumers : OnTable(d, i, "progress")' <=> OnTable(d, i, "progress")
        /\ \A d \in Consumers : OnTable(d, i, "account")' <=> OnTable(d, i, "account")
    BY <2>1 DEF Finishing
  <2>3. Completers(i)' = Completers(i)
    BY <2>2 DEF Completers
  <2>4. Tcomps'[i] + Cardinality(Completers(i)') = Tclaims'[i]
    BY <1>3, <1>6, <2>3
  <2>5. QED
    BY <1>3, <1>4, <1>6, <2>2, <2>4
<1>7. CASE ~WorkStep(c)
  <2>1. cpc[c] \notin ClaimPhases /\ cpc'[c] \notin Finishing
    BY <1>0, <1>7, OnlyWork
  <2>2. \A f \in Finishing : ~OnTable(c, i, f) /\ ~OnTable(c, i, f)'
    BY <2>1 DEF OnTable, Finishing, ClaimPhases
  <2>3. ~Claim(c) /\ ~Complete(c) /\ ~Progress(c)
    BY <1>7 DEF WorkStep
  <2>4. Tclaims' = Tclaims /\ Tcomps' = Tcomps /\ Tprogress' = Tprogress
    BY <1>0, <2>3, ConsumerFrame
  <2>5. QED
    BY <1>6, <2>2, <2>4
<1>8. CASE WorkStep(c)
  <2>0. PICK k \in Indices : k = Idx(tseq[c])
    BY <1>0, ViewTypes
  <2>1. \/ ClaimedAt(c, k) \/ CompletedAt(c, k) \/ ProgressedAt(c, k)
        \/ SameCounts /\ cpc[c] \in Resting /\ cpc'[c] \notin Finishing
    BY <1>0, <1>8, <2>0, WorkCounts
  <2>2. cpc[c] \in ClaimPhases /\ Tsent[k] = tseq[c] /\ k \in Tables
    <3>1. cpc[c] \in ClaimPhases
      BY <1>0, <1>8, WorkSteps
    <3>2. At(tseq[c])
      BY <1>0, <3>1 DEF WalksSound, WalkSound
    <3>3. QED
      BY <2>0, <3>1, <3>2 DEF At
  <2>3. \A f : OnTable(c, i, f) => i = k
    <3>1. Idx(Tsent[i]) = i
      BY <1>0, TableRanges
    <3>2. QED
      BY <2>0, <3>1 DEF OnTable
  <2>4. CASE SameCounts /\ cpc[c] \in Resting /\ cpc'[c] \notin Finishing
    <3>1. CASE cpc[c] # "account" \/ i # k
      <4>1. \A f \in Finishing : ~OnTable(c, i, f) /\ ~OnTable(c, i, f)'
        BY <2>3, <2>4, <3>1 DEF OnTable, Finishing, Resting
      <4>2. QED
        BY <1>6, <2>4, <4>1 DEF SameCounts
    <3>2. CASE cpc[c] = "account" /\ i = k
      <4>1. /\ ~OnTable(c, i, "complete") /\ ~OnTable(c, i, "progress")
            /\ ~OnTable(c, i, "complete")' /\ ~OnTable(c, i, "progress")' /\ ~OnTable(c, i, "account")'
        BY <2>4, <3>2 DEF OnTable, Finishing
      <4>2. /\ \A d \in Consumers : OnTable(d, i, "complete")' <=> OnTable(d, i, "complete")
            /\ \A d \in Consumers : OnTable(d, i, "progress")' <=> OnTable(d, i, "progress")
            /\ \A d \in Consumers : OnTable(d, i, "account")' => OnTable(d, i, "account")
        BY <1>2, <4>1
      <4>3. Completers(i)' = Completers(i)
        BY <4>2 DEF Completers
      <4>4. Tcomps'[i] + Cardinality(Completers(i)') = Tclaims'[i]
        BY <1>3, <2>4, <4>3 DEF SameCounts
      <4>5. QED
        BY <1>3, <1>4, <2>4, <4>2, <4>4 DEF SameCounts
    <3>3. QED
      BY <3>1, <3>2
  <2>5. CASE i # k /\ (ClaimedAt(c, k) \/ CompletedAt(c, k) \/ ProgressedAt(c, k))
    <3>1. tseq'[c] = tseq[c] /\ Tclaims'[i] = Tclaims[i] /\ Tcomps'[i] = Tcomps[i] /\ Tprogress'[i] = Tprogress[i]
      BY <1>0, <2>5 DEF ClaimedAt, CompletedAt, ProgressedAt
    <3>2. Tsent[i] # tseq[c]
      BY <1>0, <2>0, <2>5, TableRanges
    <3>3. \A f \in Finishing : ~OnTable(c, i, f) /\ ~OnTable(c, i, f)'
      BY <1>1, <3>1, <3>2 DEF OnTable
    <3>4. QED
      BY <1>6, <3>1, <3>3
  <2>6. CASE i = k /\ ClaimedAt(c, k)
    <3>1. /\ ~OnTable(c, i, "complete") /\ OnTable(c, i, "complete")'
          /\ ~OnTable(c, i, "progress") /\ ~OnTable(c, i, "progress")'
          /\ ~OnTable(c, i, "account") /\ ~OnTable(c, i, "account")'
      BY <1>1, <2>2, <2>6 DEF ClaimedAt, OnTable
    <3>2. Completers(i)' = Completers(i) \cup {c} /\ c \notin Completers(i)
      BY <1>2, <3>1 DEF Completers
    <3>3. Cardinality(Completers(i) \cup {c}) = Cardinality(Completers(i)) + 1
      BY <1>5, <3>2, OneMore
    <3>4. Tcomps'[i] + Cardinality(Completers(i)') = Tclaims'[i] /\ Tclaims'[i] <= Runs
      BY <1>0, <1>3, <1>5, <2>6, <3>2, <3>3 DEF ClaimedAt
    <3>5. /\ \A d \in Consumers : OnTable(d, i, "progress")' <=> OnTable(d, i, "progress")
          /\ \A d \in Consumers : OnTable(d, i, "account")' <=> OnTable(d, i, "account")
      BY <1>2, <3>1
    <3>6. Tcomps'[i] = Tcomps[i] /\ Tprogress'[i] = Tprogress[i]
      BY <2>6 DEF ClaimedAt
    <3>7. QED
      BY <1>3, <1>4, <3>4, <3>5, <3>6
  <2>7. CASE i = k /\ CompletedAt(c, k)
    <3>1. /\ OnTable(c, i, "complete") /\ ~OnTable(c, i, "complete")'
          /\ ~OnTable(c, i, "progress") /\ (OnTable(c, i, "progress")' <=> Tcomps[i] = Runs - 1)
          /\ ~OnTable(c, i, "account") /\ ~OnTable(c, i, "account")'
      BY <1>1, <2>2, <2>7 DEF CompletedAt, OnTable
    <3>2. Completers(i)' = Completers(i) \ {c} /\ c \in Completers(i)
      BY <1>2, <3>1 DEF Completers
    <3>3. Cardinality(Completers(i) \ {c}) = Cardinality(Completers(i)) - 1 /\ Cardinality(Completers(i)) > 0
      BY <1>5, <3>2, OneMore
    <3>4. Tcomps'[i] = Tcomps[i] + 1 /\ Tclaims'[i] = Tclaims[i] /\ Tprogress'[i] = Tprogress[i]
      BY <2>7 DEF CompletedAt
    <3>5. Cardinality(Completers(i)') = Cardinality(Completers(i)) - 1
      BY <3>2, <3>3
    <3>6. Tcomps'[i] + Cardinality(Completers(i)') = Tclaims'[i] /\ Tclaims'[i] <= Runs
      BY <1>0, <1>3, <1>5, <3>4, <3>5
    <3>7. Tcomps[i] < Runs
      BY <1>0, <1>3, <1>5, <3>3
    <3>8. ~Tprogress[i] /\ \A d \in Consumers : ~OnTable(d, i, "progress") /\ ~OnTable(d, i, "account")
      BY <1>0, <1>3, <3>7
    <3>9. \A d \in Consumers : /\ OnTable(d, i, "progress")' => d = c /\ Tcomps[i] = Runs - 1
                               /\ ~OnTable(d, i, "account")'
      BY <1>2, <3>1, <3>8
    <3>10. Tcomps'[i] = Runs <=> Tcomps[i] = Runs - 1
      BY <1>0, <3>4
    <3>11. QED
      BY <1>4, <3>1, <3>4, <3>6, <3>8, <3>9, <3>10
  <2>8. CASE i = k /\ ProgressedAt(c, k)
    <3>1. /\ ~OnTable(c, i, "complete") /\ ~OnTable(c, i, "complete")'
          /\ OnTable(c, i, "progress") /\ ~OnTable(c, i, "progress")'
          /\ ~OnTable(c, i, "account") /\ OnTable(c, i, "account")'
      BY <1>1, <2>2, <2>8 DEF ProgressedAt, OnTable
    <3>2. Completers(i)' = Completers(i)
      BY <1>2, <3>1 DEF Completers
    <3>3. Tcomps'[i] = Tcomps[i] /\ Tclaims'[i] = Tclaims[i] /\ Tprogress'[i]
      BY <2>8 DEF ProgressedAt
    <3>4. Tcomps[i] = Runs /\ ~Tprogress[i]
      BY <1>3, <3>1
    <3>5. \A d \in Consumers : ~OnTable(d, i, "account")
      BY <1>3, <3>4
    <3>6. \A d \in Consumers : ~OnTable(d, i, "progress")' /\ (OnTable(d, i, "account")' => d = c)
      BY <1>2, <1>3, <3>1, <3>5
    <3>7. Tcomps'[i] + Cardinality(Completers(i)') = Tclaims'[i]
      BY <1>3, <3>2, <3>3
    <3>8. QED
      BY <1>3, <1>4, <3>3, <3>4, <3>6, <3>7
  <2>9. QED
    BY <2>1, <2>4, <2>5, <2>6, <2>7, <2>8
<1>9. QED
  BY <1>7, <1>8

LEMMA ConsumerRuns ==
    ASSUME Inv, NEW c \in Consumers, ConsumerNext(c), UNCHANGED producerVars
    PROVE  RunsSound'
<1>1. Tables' = Tables
  BY ConsumerLayout DEF Inv, Base
<1>2. QED
  BY <1>1, ConsumerRun DEF RunsSound

-----------------------------------------------------------------------------
(* Accounting.                                                             *)

Finished(i) == Tprogress[i] /\ ~\E d \in Consumers : OnTable(d, i, "account")

LEMMA AccountedFinished ==
    \A e : Accounted(e) = {u \in 0 .. MaxSeq : \E i \in Tables :
               Tsent[i] <= u /\ u < Tnext[i] /\ Epoch(Tsent[i]) = e /\ Finished(i)}
  BY DEF Accounted, Finished, OnTable

LEMMA FinishedStays ==
    ASSUME Inv, NEW c \in Consumers, ConsumerNext(c), UNCHANGED producerVars, ~Account(c), NEW i \in Tables
    PROVE  Finished(i)' <=> Finished(i)
<1>0. TypeInv /\ Layout /\ WalksSound /\ RunSound(i) /\ i \in Indices /\ Tprogress[i] \in BOOLEAN
  BY RunTypes DEF Inv, Base, WorkInv, RunsSound, Tables
<1>1. Tsent' = Tsent
  BY <1>0, ConsumerFrame
<1>2. \A d \in Consumers \ {c} : OnTable(d, i, "account")' <=> OnTable(d, i, "account")
  <2>1. SUFFICES ASSUME NEW d \in Consumers \ {c} PROVE OnTable(d, i, "account")' <=> OnTable(d, i, "account")
    OBVIOUS
  <2>2. ViewStill(d)
    BY <1>0, OthersAlone
  <2>3. QED
    BY <1>1, <2>2 DEF ViewStill, OnTable
<1>3. ASSUME Tprogress'[i] = Tprogress[i], ~OnTable(c, i, "account"), ~OnTable(c, i, "account")'
      PROVE  Finished(i)' <=> Finished(i)
  BY <1>2, <1>3 DEF Finished
<1>4. CASE ~WorkStep(c)
  <2>1. cpc[c] \notin ClaimPhases /\ cpc'[c] \notin Finishing
    BY <1>0, <1>4, OnlyWork
  <2>2. ~OnTable(c, i, "account") /\ ~OnTable(c, i, "account")'
    BY <2>1 DEF OnTable, Finishing, ClaimPhases
  <2>3. Tprogress' = Tprogress
    BY <1>0, <1>4, ConsumerFrame DEF WorkStep
  <2>4. QED
    BY <1>3, <2>2, <2>3
<1>5. CASE WorkStep(c)
  <2>0. PICK k \in Indices : k = Idx(tseq[c])
    BY <1>0, ViewTypes
  <2>1. \/ ClaimedAt(c, k) \/ CompletedAt(c, k) \/ ProgressedAt(c, k)
        \/ SameCounts /\ cpc[c] \in Resting /\ cpc'[c] \notin Finishing
    BY <1>0, <1>5, <2>0, WorkCounts
  <2>2. cpc[c] # "account"
    BY <1>5 DEF WorkStep, Claim, Complete, Progress, Yield
  <2>3. CASE Tprogress' = Tprogress /\ cpc'[c] # "account"
    <3>1. ~OnTable(c, i, "account") /\ ~OnTable(c, i, "account")'
      BY <2>2, <2>3 DEF OnTable
    <3>2. QED
      BY <1>3, <2>3, <3>1
  <2>4. CASE ProgressedAt(c, k)
    <3>1. cpc[c] = "progress" /\ cpc'[c] = "account" /\ tseq'[c] = tseq[c]
      BY <2>4 DEF ProgressedAt
    <3>2. Tsent[k] = tseq[c] /\ k \in Tables
      <4>1. cpc[c] \in ClaimPhases
        BY <1>0, <1>5, WorkSteps
      <4>2. At(tseq[c])
        BY <1>0, <4>1 DEF WalksSound, WalkSound
      <4>3. QED
        BY <2>0, <4>2 DEF At
    <3>3. CASE i = k
      <4>1. OnTable(c, i, "progress") /\ OnTable(c, i, "account")'
        BY <1>1, <3>1, <3>2, <3>3 DEF OnTable
      <4>2. ~Tprogress[i]
        BY <1>0, <4>1 DEF RunSound
      <4>3. QED
        BY <4>1, <4>2 DEF Finished
    <3>4. CASE i # k
      <4>1. Idx(Tsent[i]) = i
        BY <1>0, TableRanges
      <4>2. Tsent[i] # tseq[c]
        BY <2>0, <3>4, <4>1
      <4>3. ~OnTable(c, i, "account") /\ ~OnTable(c, i, "account")'
        BY <1>1, <3>1, <4>2 DEF OnTable
      <4>4. Tprogress'[i] = Tprogress[i]
        BY <1>0, <2>4, <3>4 DEF ProgressedAt
      <4>5. QED
        BY <1>3, <4>3, <4>4
    <3>5. QED
      BY <3>3, <3>4
  <2>5. CASE ClaimedAt(c, k) \/ CompletedAt(c, k) \/ (SameCounts /\ cpc'[c] \notin Finishing)
    <3>1. Tprogress' = Tprogress
      BY <2>5 DEF ClaimedAt, CompletedAt, SameCounts
    <3>2. cpc'[c] # "account"
      BY <1>0, <2>5, RunTypes DEF ClaimedAt, CompletedAt, Finishing
    <3>3. QED
      BY <2>3, <3>1, <3>2
  <2>6. QED
    BY <2>1, <2>4, <2>5
<1>6. QED
  BY <1>4, <1>5

LEMMA FinishedByAccount ==
    ASSUME Inv, NEW c \in Consumers, ConsumerNext(c), UNCHANGED producerVars, Account(c),
           NEW k \in Tables, k = Idx(tseq[c]), Tsent[k] = tseq[c], NEW i \in Tables
    PROVE  (Finished(i)' <=> Finished(i) \/ i = k) /\ ~Finished(k)
<1>0. /\ TypeInv /\ Layout /\ RunSound(k) /\ k \in Indices /\ WorkStep(c)
      /\ cpc[c] = "account"
  BY DEF Inv, Base, WorkInv, RunsSound, Tables, WorkStep, Account
<1>1. Tsent' = Tsent /\ Tprogress' = Tprogress
  BY <1>0, ConsumerFrame DEF Account, Progress
<1>2. \A d \in Consumers \ {c} : OnTable(d, i, "account")' <=> OnTable(d, i, "account")
  <2>1. SUFFICES ASSUME NEW d \in Consumers \ {c} PROVE OnTable(d, i, "account")' <=> OnTable(d, i, "account")
    OBVIOUS
  <2>2. ViewStill(d)
    BY <1>0, OthersAlone
  <2>3. QED
    BY <1>1, <2>2 DEF ViewStill, OnTable
<1>3. cpc'[c] # "account"
  <2>1. cpc'[c] \notin Finishing
    BY <1>0, WorkCounts DEF ClaimedAt, CompletedAt, ProgressedAt
  <2>2. QED
    BY <2>1 DEF Finishing
<1>4. OnTable(c, k, "account") /\ ~OnTable(c, i, "account")'
  BY <1>0, <1>3 DEF OnTable
<1>5. Tprogress[k] /\ \A d \in Consumers : OnTable(d, k, "account") => d = c
  BY <1>0, <1>4 DEF RunSound
<1>6. CASE i = k
  <2>1. ~Finished(k)
    BY <1>4 DEF Finished
  <2>2. Finished(i)'
    BY <1>1, <1>2, <1>4, <1>5, <1>6 DEF Finished
  <2>3. QED
    BY <1>6, <2>1, <2>2
<1>7. CASE i # k
  <2>1. ~Finished(k)
    BY <1>4 DEF Finished
  <2>2. ~OnTable(c, i, "account")
    <3>1. Idx(Tsent[i]) = i
      BY <1>0, TableRanges
    <3>2. QED
      BY <1>7, <3>1 DEF OnTable
  <2>3. Finished(i)' <=> Finished(i)
    BY <1>1, <1>2, <1>4, <2>2 DEF Finished
  <2>4. QED
    BY <1>7, <2>1, <2>3
<1>8. QED
  BY <1>6, <1>7

(* The table c accounts for: a stretch of its epoch no other table shares. *)
LEMMA AccountedMore ==
    ASSUME Inv, NEW c \in Consumers, ConsumerNext(c), UNCHANGED producerVars, Account(c),
           NEW k \in Tables, k = Idx(tseq[c]), Tsent[k] = tseq[c],
           NEW e \in Nat, e = Epoch(tseq[c])
    PROVE  Cardinality(Accounted(e)') = Cardinality(Accounted(e)) + (Tnext[k] - tseq[c])
<1>0. TypeInv /\ Layout
  BY DEF Inv, Base
<1>1. Tsent' = Tsent /\ Tnext' = Tnext /\ Tables' = Tables
  BY <1>0, ConsumerFrame, ConsumerLayout
<1>2. PICK S : S = Tsent[k] .. Tnext[k] - 1
  OBVIOUS
<1>3. /\ Tsent[k] \in Nat /\ Tnext[k] \in Nat /\ Tsent[k] < Tnext[k] /\ Tnext[k] <= MaxSeq /\ MaxSeq \in Nat
  BY <1>0, TableRanges, GeometryAssumption
<1>4. Accounted(e)' = {u \in 0 .. MaxSeq : \E i \in Tables :
               Tsent[i] <= u /\ u < Tnext[i] /\ Epoch(Tsent[i]) = e /\ Finished(i)'}
  <2>1. Accounted(e)' = {u \in 0 .. MaxSeq : \E i \in Tables' :
                 Tsent'[i] <= u /\ u < Tnext'[i] /\ Epoch(Tsent'[i]) = e /\ Finished(i)'}
    BY DEF Accounted, Finished, OnTable
  <2>2. QED
    BY <1>1, <2>1
<1>5. Accounted(e) = {u \in 0 .. MaxSeq : \E i \in Tables :
               Tsent[i] <= u /\ u < Tnext[i] /\ Epoch(Tsent[i]) = e /\ Finished(i)}
  BY AccountedFinished
<1>6. ~Finished(k) /\ \A i \in Tables : Finished(i)' <=> Finished(i) \/ i = k
  BY FinishedByAccount
<1>7. S \subseteq 0 .. MaxSeq /\ \A u : u \in S <=> u \in 0 .. MaxSeq /\ Tsent[k] <= u /\ u < Tnext[k]
  <2>1. \A u : u \in S <=> u \in Int /\ Tsent[k] <= u /\ u <= Tnext[k] - 1
    BY <1>2, <1>3
  <2>2. QED
    BY <1>3, <2>1
<1>8. Accounted(e)' = Accounted(e) \cup S
  BY <1>4, <1>5, <1>6, <1>7
<1>9. Accounted(e) \cap S = {}
  <2>1. SUFFICES ASSUME NEW u \in 0 .. MaxSeq, NEW i \in Tables, Tsent[i] <= u, u < Tnext[i], Finished(i),
                        Tsent[k] <= u, u < Tnext[k]
                 PROVE  FALSE
    BY <1>5, <1>7
  <2>2. i # k
    BY <1>6, <2>1
  <2>3. Apart(Tsent[i], Tnext[i], Tsent[k], Tnext[k])
    BY <1>0, <2>2 DEF Layout, TablesSound, TableSound
  <2>4. Tsent[i] \in Nat /\ Tnext[i] \in Nat /\ u \in Int
    BY <1>0, TableRanges
  <2>5. QED
    BY <1>3, <2>1, <2>3, <2>4 DEF Apart
<1>10. IsFiniteSet(S) /\ Cardinality(S) = Tnext[k] - Tsent[k]
  <2>1. Tsent[k] \in Int /\ Tnext[k] - 1 \in Int
    BY <1>3
  <2>2. /\ IsFiniteSet(S)
        /\ Cardinality(S) = IF Tsent[k] > Tnext[k] - 1 THEN 0 ELSE (Tnext[k] - 1) - Tsent[k] + 1
    BY <1>2, <2>1, FS_Interval
  <2>3. ~(Tsent[k] > Tnext[k] - 1) /\ (Tnext[k] - 1) - Tsent[k] + 1 = Tnext[k] - Tsent[k]
    BY <1>3
  <2>4. Cardinality(S) = (Tnext[k] - 1) - Tsent[k] + 1
    BY <2>2, <2>3
  <2>5. QED
    BY <2>2, <2>3, <2>4
<1>11. IsFiniteSet(Accounted(e)) /\ Cardinality(Accounted(e)) \in Nat
  <2>1. IsFiniteSet(0 .. MaxSeq)
    <3>1. 0 \in Int /\ MaxSeq \in Int
      BY <1>3
    <3>2. QED
      BY <3>1, FS_Interval
  <2>2. Accounted(e) \in SUBSET (0 .. MaxSeq)
    BY DEF Accounted
  <2>3. IsFiniteSet(Accounted(e))
    BY <2>1, <2>2, FS_Subset
  <2>4. QED
    BY <2>3, FS_CardinalityType
<1>12. Cardinality(Accounted(e) \cup S)
         = Cardinality(Accounted(e)) + Cardinality(S) - Cardinality(Accounted(e) \cap S)
  BY <1>10, <1>11, FS_Union
<1>13. Cardinality(Accounted(e) \cap S) = 0
  BY <1>9, FS_EmptySet
<1>14. Cardinality(Accounted(e)') = Cardinality(Accounted(e)) + Cardinality(S) - 0
  BY <1>8, <1>12, <1>13
<1>15. QED
  BY <1>3, <1>10, <1>11, <1>14

LEMMA ConsumerDischarges ==
    ASSUME Inv, NEW c \in Consumers, ConsumerNext(c), UNCHANGED producerVars
    PROVE  SdSound'
<1>0. /\ TypeInv /\ Layout /\ QuotaSound /\ KeptSound /\ RangesSound /\ WalksSound /\ SdSound
  BY DEF Inv, Base, ViewInv, WorkInv
<1>1. /\ Tsent' = Tsent /\ Tnext' = Tnext /\ Tables' = Tables
      /\ \A e : Initialised(e)' = Initialised(e) /\ InWindow(e)' = InWindow(e)
  BY <1>0, ConsumerFrame, ConsumerLayout
<1>2. SUFFICES ASSUME NEW e \in Nat, InWindow(e), Initialised(e)
               PROVE  Sd'[Slot(e)] = Cardinality(Accounted(e)')
  BY <1>1 DEF SdSound
<1>3. Sd[Slot(e)] = Cardinality(Accounted(e)) /\ Slot(e) \in Slots
  BY <1>0, <1>2, StatTypes DEF SdSound
<1>4. Accounted(e)' = {u \in 0 .. MaxSeq : \E i \in Tables :
               Tsent[i] <= u /\ u < Tnext[i] /\ Epoch(Tsent[i]) = e /\ Finished(i)'}
  <2>1. Accounted(e)' = {u \in 0 .. MaxSeq : \E i \in Tables' :
                 Tsent'[i] <= u /\ u < Tnext'[i] /\ Epoch(Tsent'[i]) = e /\ Finished(i)'}
    BY DEF Accounted, Finished, OnTable
  <2>2. QED
    BY <1>1, <2>1
<1>5. Accounted(e) = {u \in 0 .. MaxSeq : \E i \in Tables :
               Tsent[i] <= u /\ u < Tnext[i] /\ Epoch(Tsent[i]) = e /\ Finished(i)}
  BY AccountedFinished
<1>6. CASE ~Account(c)
  <2>1. \A i \in Tables : Finished(i)' <=> Finished(i)
    BY <1>6, FinishedStays
  <2>2. Accounted(e)' = Accounted(e)
    BY <1>4, <1>5, <2>1
  <2>3. Sd' = Sd
    BY <1>0, <1>6, ConsumerFrame
  <2>4. QED
    BY <1>3, <2>2, <2>3
<1>7. CASE Account(c)
  <2>1. cpc[c] = "account" /\ cpc[c] \in ClaimPhases
    BY <1>7 DEF Account, ClaimPhases
  <2>2. /\ At(tseq[c]) /\ tseq[c] \in Nat /\ Epoch(tseq[c]) \in Nat /\ InWindow(Epoch(tseq[c]))
    BY <1>0, <2>1, ClaimedHeld
  <2>3. PICK k \in Tables : k = Idx(tseq[c]) /\ Tsent[k] = tseq[c]
    BY <2>2 DEF At
  <2>4. /\ Sd'[Slot(Epoch(tseq[c]))] = Sd[Slot(Epoch(tseq[c]))] + Tnext[k] - tseq[c]
        /\ \A j \in Slots \ {Slot(Epoch(tseq[c]))} : Sd'[j] = Sd[j]
    BY <1>0, <1>7, <2>3, AccountStep
  <2>5. CASE e = Epoch(tseq[c])
    <3>1. Cardinality(Accounted(e)') = Cardinality(Accounted(e)) + (Tnext[k] - tseq[c])
      BY <1>7, <2>3, <2>5, AccountedMore
    <3>2. Tnext[k] \in Nat /\ Sd[Slot(e)] \in Int
      BY <1>0, <1>3, <2>3, TableRanges, StatTypes
    <3>3. Sd'[Slot(e)] = Sd[Slot(e)] + Tnext[k] - tseq[c]
      BY <2>4, <2>5
    <3>4. Sd[Slot(e)] + Tnext[k] - tseq[c] = Sd[Slot(e)] + (Tnext[k] - tseq[c])
      BY <2>2, <3>2
    <3>5. QED
      BY <1>3, <3>1, <3>3, <3>4
  <2>6. CASE e # Epoch(tseq[c])
    <3>1. Slot(e) # Slot(Epoch(tseq[c]))
      BY <1>0, <1>2, <2>2, <2>6, WindowSlots
    <3>2. Sd'[Slot(e)] = Sd[Slot(e)]
      BY <1>3, <2>4, <3>1
    <3>3. \A i \in Tables : Epoch(Tsent[i]) = e => i # k
      BY <2>3, <2>6
    <3>4. \A i \in Tables : Finished(i)' <=> Finished(i) \/ i = k
      BY <1>7, <2>3, FinishedByAccount
    <3>5. Accounted(e)' = Accounted(e)
      BY <1>4, <1>5, <3>3, <3>4
    <3>6. QED
      BY <1>3, <3>2, <3>5
  <2>7. QED
    BY <2>5, <2>6
<1>8. QED
  BY <1>6, <1>7

-----------------------------------------------------------------------------
(* The invariant is inductive.                                             *)

(* A view's step preserves the invariant.                                  *)
LEMMA ConsumerInv ==
    ASSUME Inv, TypeInv', NEW c \in Consumers, ConsumerNext(c), UNCHANGED producerVars
    PROVE  Inv'
<1>1. Layout' /\ WritersSound'
  BY ConsumerWriters
<1>2. QuotaSound' /\ KeptSound'
  BY ConsumerQuota
<1>3. Base'
  BY <1>1, <1>2, ConsumerEpochs DEF Base
<1>4. ViewInv'
  BY <1>2, ConsumerAttempts, ConsumerRanges, ConsumerTallies DEF ViewInv
<1>5. ReadingsSound' /\ WalksSound'
  BY ConsumerReadings, ConsumerWalks
<1>6. WorkInv'
  BY ConsumerRuns, ConsumerDischarges DEF WorkInv
<1>7. QED
  BY <1>3, <1>4, <1>5, <1>6 DEF Inv

(* A stutter changes none of it.                                           *)
LEMMA StutterInv ==
    ASSUME Inv, TypeInv', UNCHANGED vars
    PROVE  Inv'
<1>1. /\ Wt' = Wt /\ Cf' = Cf /\ Reqs_c' = Reqs_c /\ Live' = Live /\ Sub' = Sub /\ Count' = Count /\ Lt' = Lt
      /\ Es' = Es /\ Seqt' = Seqt /\ SqCs' = SqCs /\ Sd' = Sd
      /\ Tsent' = Tsent /\ Tnext' = Tnext /\ Tsq' = Tsq
      /\ Tclaims' = Tclaims /\ Tcomps' = Tcomps /\ Tprogress' = Tprogress
  BY DEF vars, farmVars, tailVars, rootVars, statVars, ringVars
<1>2. /\ ppc' = ppc /\ quotaLeft' = quotaLeft /\ size' = size /\ sq' = sq
      /\ anchor' = anchor /\ swept' = swept /\ wret' = wret /\ fresh' = fresh
  BY DEF vars, producerVars
<1>3. /\ cpc' = cpc /\ ret' = ret /\ job' = job /\ nextSeq' = nextSeq
      /\ oldestEi' = oldestEi /\ newestEi' = newestEi /\ ltiRing' = ltiRing
      /\ sweepSeq' = sweepSeq /\ oldSweepSeq' = oldSweepSeq /\ subs' = subs
      /\ probe' = probe /\ at' = at /\ seqtRead' = seqtRead /\ sqRead' = sqRead /\ tseq' = tseq
  BY DEF vars, consumerVars, viewVars, attemptVars, claimVars
<1>4. /\ \A p : Writing(p)' = Writing(p) /\ wtprime(p)' = wtprime(p)
      /\ Tables' = Tables
      /\ \A e : Initialised(e)' = Initialised(e) /\ InWindow(e)' = InWindow(e)
  BY <1>1, <1>2 DEF Writing, wtprime, Tables, Initialised, InWindow
<1>5. /\ \A s : At(s)' = At(s) /\ Boundary(s)' = Boundary(s) /\ Recent(s)' = Recent(s)
      /\ \A e : Worked(e)' = Worked(e) /\ Safe(e)' = Safe(e) /\ Confirmed(e)' = Confirmed(e)
      /\ \A p, e : Pending(p, e)' = Pending(p, e)
  <2>1. \A s : At(s)' = At(s) /\ Recent(s)' = Recent(s)
    BY <1>1, <1>4 DEF At, Recent
  <2>2. \A s : Boundary(s)' = Boundary(s)
    BY <1>1, <1>2, <1>4, <2>1 DEF Boundary
  <2>3. \A e : Worked(e)' = Worked(e)
    BY <1>1, <1>2, <1>4 DEF Worked
  <2>4. \A e : Safe(e)' = Safe(e)
    <3>1. SpentTail' = SpentTail
      BY <1>1, <1>2 DEF SpentTail
    <3>2. \A e, p : Ahead(e, p)' = Ahead(e, p)
      BY <1>1, <1>2, <3>1 DEF Ahead, Reach, Budget
    <3>3. QED
      BY <1>2, <3>1, <3>2 DEF Safe
  <2>5. \A e : Confirmed(e)' = Confirmed(e)
    BY <1>1 DEF Confirmed
  <2>6. \A p, e : Pending(p, e)' = Pending(p, e)
    BY <1>2, <1>4 DEF Pending, Crosses
  <2>7. QED
    BY <2>1, <2>2, <2>3, <2>4, <2>5, <2>6
<1>6. /\ \A c : Attached(c)' = Attached(c) /\ Reading(c)' = Reading(c)
      /\ \A c, e : Holds(c, e)' = Holds(c, e) /\ Held(c, e)' = Held(c, e) /\ Claims(c, e)' = Claims(c, e)
  <2>1. \A c : Attached(c)' = Attached(c) /\ Reading(c)' = Reading(c)
    BY <1>3 DEF Attached, Reading
  <2>2. \A c, e : Holds(c, e)' = Holds(c, e)
    BY <1>3, <2>1 DEF Holds
  <2>3. \A c, e : Held(c, e)' = Held(c, e)
    BY <1>3, <2>2 DEF Held
  <2>4. \A c, e : Claims(c, e)' = Claims(c, e)
    BY <1>1, <1>3 DEF Claims
  <2>5. QED
    BY <2>1, <2>2, <2>3, <2>4
<1>7. Layout'
  <2>1. TailBounded' /\ WriterRanges' /\ WritersApart'
    BY <1>1, <1>2, <1>4 DEF Inv, Base, Layout, TailBounded, WriterRanges, WritersApart, Apart
  <2>2. SentinelsSound'
    BY <1>1, <1>2, <1>4 DEF Inv, Base, Layout, SentinelsSound, SentinelSound
  <2>3. TablesSound'
    BY <1>1, <1>2, <1>4 DEF Inv, Base, Layout, TablesSound, TableSound, Apart
  <2>4. Chained'
    BY <1>1, <1>4, <1>5 DEF Inv, Base, Layout, Chained
  <2>5. QED
    BY <2>1, <2>2, <2>3, <2>4 DEF Layout
<1>8. WritersSound'
  BY <1>1, <1>2, <1>4 DEF Inv, Base, WritersSound, Unpublished
<1>9. QuotaSound' /\ KeptSound'
  <2>1. \A e : Lit(e)' = Lit(e)
    BY <1>1, <1>2, <1>4 DEF Lit
  <2>2. \A e : Kept(e)' = Kept(e)
    BY <1>6, <2>1 DEF Kept
  <2>3. \A e : Protected(e)' = Protected(e)
    BY <1>5, <2>2 DEF Protected
  <2>4. QED
    BY <1>1, <1>4, <1>5, <2>2, <2>3 DEF Inv, Base, ViewInv, QuotaSound, KeptSound
<1>10. EpochInv'
  <2>1. InitsSound'
    BY <1>1, <1>2, <1>4 DEF Inv, Base, EpochInv, InitsSound
  <2>2. SlotsSound'
    BY <1>1, <1>2 DEF Inv, Base, EpochInv, SlotsSound, SlotSound
  <2>3. EpochsBegun' /\ PendingStale'
    BY <1>1, <1>4, <1>5 DEF Inv, Base, EpochInv, EpochsBegun, PendingStale
  <2>4. EpochsSplit'
    BY <1>1, <1>2, <1>4, <1>5 DEF Inv, Base, EpochInv, EpochsSplit, EpochSplit, Split
  <2>5. WorkLit' /\ DoneBegun'
    BY <1>1, <1>4, <1>5 DEF Inv, Base, EpochInv, WorkLit, DoneBegun
  <2>6. QED
    BY <2>1, <2>2, <2>3, <2>4, <2>5 DEF EpochInv
<1>11. AttemptsInv' /\ RangesSound'
  <2>1. AttemptsInv'
    BY <1>1, <1>3, <1>4, <1>5, <1>6 DEF Inv, ViewInv, AttemptsInv, AttemptSound
  <2>2. RangesSound'
    BY <1>1, <1>3, <1>5, <1>6 DEF Inv, ViewInv, RangesSound, RangeSound
  <2>3. QED
    BY <2>1, <2>2
<1>12. TallyInv'
  <2>1. \A c, k : RaisingRoot(c, k)' = RaisingRoot(c, k) /\ LoweringRoot(c, k)' = LoweringRoot(c, k)
    BY <1>3 DEF RaisingRoot, LoweringRoot
  <2>2. \A k : /\ Raisers(k)' = Raisers(k) /\ Lowerers(k)' = Lowerers(k) /\ Touched(k)' = Touched(k)
               /\ Pinners(k)' = Pinners(k)
    BY <1>1, <1>3, <2>1 DEF Raisers, Lowerers, Touched, Pinners
  <2>3. \A k, l : Holders(k, l)' = Holders(k, l)
    BY <1>3, <1>6 DEF Holders
  <2>4. QED
    BY <1>1, <1>3, <2>1, <2>2, <2>3
    DEF Inv, ViewInv, TallyInv, LeavesAgree, RootsAgree, SubsAgree, RaisersApart
<1>13. ReadingsSound'
  <2>1. \A c : Behind(c)' = Behind(c)
    BY <1>3, <1>1 DEF Behind
  <2>2. QED
    BY <1>1, <1>2, <1>3, <1>4, <1>5, <1>6, <2>1 DEF Inv, ReadingsSound, ReadingSound
<1>14. WalksSound'
  <2>1. \A c : Behind(c)' = Behind(c)
    BY <1>3, <1>1 DEF Behind
  <2>2. QED
    BY <1>1, <1>3, <1>5, <2>1 DEF Inv, WalksSound, WalkSound
<1>15. WorkInv'
  <2>1. \A c, i, f : OnTable(c, i, f)' = OnTable(c, i, f)
    BY <1>1, <1>3 DEF OnTable
  <2>2. RunsSound'
    BY <1>1, <1>4, <2>1 DEF Inv, WorkInv, RunsSound, RunSound
  <2>3. \A e : Accounted(e)' = Accounted(e)
    BY <1>1, <1>3, <1>4 DEF Accounted
  <2>4. SdSound'
    BY <1>1, <1>4, <2>3 DEF Inv, WorkInv, SdSound
  <2>5. QED
    BY <2>2, <2>4 DEF WorkInv
<1>16. QED
  BY <1>7, <1>8, <1>9, <1>10, <1>11, <1>12, <1>13, <1>14, <1>15
  DEF Inv, Base, ViewInv

(* It holds initially, ...                                                 *)
LEMMA InitInv == Init => Inv
<1> SUFFICES ASSUME Init PROVE Inv
  OBVIOUS
<1>1. TypeInv
  BY InitTypeInv
<1>2. /\ Wt = 0 /\ Live = [k \in Slots |-> k = 0] /\ Sub = [k \in Slots |-> 0]
      /\ Count = [k \in Slots |-> 0] /\ Lt = [k \in Slots |-> [l \in Leaves |-> 0]]
      /\ Es = [k \in Slots |-> IF k = 0 THEN 0 ELSE -1]
      /\ Seqt = [k \in Slots |-> 0] /\ SqCs = [k \in Slots |-> IF k = 0 THEN SqcsOf[1] ELSE 0]
      /\ Sd = [k \in Slots |-> 0] /\ Tsent = [i \in Indices |-> NoSeq]
  BY DEF Init, FarmInit
<1>3. \A p \in Producers : ppc[p] = "idle" /\ quotaLeft[p] = 0 /\ swept[p] = 0
  BY DEF Init, ProducerInit
<1>4. \A c \in Consumers : /\ cpc[c] = "off" /\ ret[c] = "none" /\ subs[c] = {}
                           /\ sweepSeq[c] = 0 /\ oldSweepSeq[c] = 0
  BY DEF Init, ConsumerInit
<1>5. /\ K \in Nat /\ K >= 2 /\ SegCap \in Nat \ {0} /\ MaxSeq \in Nat /\ 0 \in Slots
  BY GeometryAssumption DEF Slots
<1>6. Epoch(0) = 0 /\ Slot(0) = 0
  <2>1. Epoch(0) = 0
    BY <1>5 DEF Epoch
  <2>2. Slot(0) = 0
    BY <1>5 DEF Slot
  <2>3. QED
    BY <2>1, <2>2
<1>7. /\ \A p \in Producers : ~Writing(p) /\ \A e : ~Pending(p, e)
      /\ Tables = {} /\ \A s : ~At(s)
  <2>1. \A p \in Producers : ~Writing(p)
    BY <1>3 DEF Writing
  <2>2. Tables = {}
    BY <1>2 DEF Tables
  <2>3. QED
    BY <2>1, <2>2 DEF Pending, Crosses, At
<1>8. /\ \A c \in Consumers : ~Attached(c) /\ ~Reading(c)
      /\ \A c \in Consumers : \A e : ~Holds(c, e) /\ ~Held(c, e) /\ ~Claims(c, e)
  <2>1. \A c \in Consumers : ~Attached(c)
    BY <1>4 DEF Attached
  <2>2. QED
    BY <1>4, <2>1 DEF Reading, Holds, Held, Claims
<1>9. \A e \in Nat : InWindow(e) => e = 0
  BY <1>2, <1>6 DEF InWindow
<1>10. \A e \in Nat : Initialised(e) => e = 0
  <2>1. SUFFICES ASSUME NEW e \in Nat, Initialised(e) PROVE e = 0
    OBVIOUS
  <2>2. Slot(e) \in Slots
    BY <1>1, StatTypes
  <2>3. QED
    BY <1>2, <2>1, <2>2 DEF Initialised
<1>11. \A e \in Nat : Worked(e) <=> e = 0
  BY <1>2, <1>6, <1>7 DEF Worked
<1>12. Layout
  <2>2. SentinelsSound
    BY <1>2 DEF SentinelsSound, SentinelSound
  <2>3. TailBounded
    BY <1>2, <1>5 DEF TailBounded
  <2>5. WriterRanges /\ WritersApart
    BY <1>7 DEF WriterRanges, WritersApart
  <2>6. TablesSound /\ Chained
    BY <1>7 DEF TablesSound, Chained
  <2>4. QED
    BY <2>2, <2>3, <2>5, <2>6 DEF Layout
<1>13. WritersSound
  <2>1. \A p \in Producers : 0 <= Quota[p]
    BY QuotaAssumption
  <2>2. QED
    BY <1>3, <2>1 DEF WritersSound
<1>14. QuotaSound /\ KeptSound
  <2>1. \A e \in Nat : Kept(e) => Initialised(e)
    BY <1>8 DEF Kept, Lit
  <2>2. \A e \in Nat : Protected(e) => e = 0
    BY <1>10, <1>11, <2>1 DEF Protected
  <2>3. SpentTail = 0
    <3>1. Units(quotaLeft) = {}
      BY <1>3 DEF Units
    <3>2. Total(quotaLeft) = 0
      BY <3>1, FS_EmptySet DEF Total
    <3>3. QED
      BY <1>2, <3>2 DEF SpentTail
  <2>4. Safe(0)
    BY <1>3, <1>5, <1>6, <2>3 DEF Safe
  <2>5. QED
    BY <1>2, <1>6, <2>1, <2>2, <2>4 DEF QuotaSound, KeptSound
<1>15. EpochInv
  <2>1. InitsSound
    BY <1>3 DEF InitsSound, Crossing
  <2>2. SlotsSound
    <3>1. SUFFICES ASSUME NEW k \in Slots PROVE SlotSound(k)
      BY DEF SlotsSound
    <3>2. SqcsOf[1] # 0
      <4>1. 1 \in 1 .. MaxConsumers + Cardinality(Consumers)
        BY ConsumerAssumption, CountedFinite
      <4>2. SqcsOf[1] \in 1 .. MaxLeaves
        BY <4>1, ConsumerAssumption
      <4>3. QED
        BY <4>2, ConsumerAssumption
    <3>3. Seqt[k] = 0 /\ (Live[k] <=> k = 0) /\ (k = 0 => Es[k] = 0 /\ SqCs[k] = SqcsOf[1]) /\ (k # 0 => Es[k] = -1)
      BY <1>2
    <3>4. QED
      BY <1>2, <1>6, <3>2, <3>3 DEF SlotSound
  <2>3. Es[0] = 0 /\ Live[0] /\ Seqt[0] = 0
    BY <1>2, <1>5
  <2>4. EpochsBegun /\ PendingStale
    BY <1>6, <1>7, <1>9, <2>3 DEF EpochsBegun, PendingStale, Initialised
  <2>5. EpochsSplit
    BY <1>2, <1>6, <1>7, <1>9, <2>3 DEF EpochsSplit, EpochSplit, Boundary
  <2>6. WorkLit /\ DoneBegun
    BY <1>6, <1>7, <1>11, <2>3 DEF WorkLit, DoneBegun
  <2>7. QED
    BY <2>1, <2>2, <2>4, <2>5, <2>6 DEF EpochInv
<1>16. AttemptsInv /\ RangesSound
  <2>1. AttemptsInv
    BY <1>4 DEF AttemptsInv, AttemptSound, Scanning, Candidate, Validated
  <2>2. RangesSound
    BY <1>8 DEF RangesSound, RangeSound
  <2>3. QED
    BY <2>1, <2>2
<1>17. TallyInv
  <2>1. \A k \in Slots : /\ Count[k] = 0 /\ Sub[k] = 0 /\ \A l \in Leaves : Lt[k][l] = 0
    BY <1>2
  <2>2. \A c \in Consumers : \A k : ~RaisingRoot(c, k) /\ ~LoweringRoot(c, k)
    BY <1>4 DEF RaisingRoot, LoweringRoot
  <2>3. \A k \in Slots : /\ Raisers(k) = {} /\ Lowerers(k) = {} /\ Touched(k) = {} /\ Pinners(k) = {}
                         /\ \A l \in Leaves : Holders(k, l) = {}
    BY <1>4, <1>8, <2>1, <2>2 DEF Raisers, Lowerers, Touched, Pinners, Holders
  <2>4. Cardinality({}) = 0
    BY FS_EmptySet
  <2>5. LeavesAgree /\ SubsAgree
    BY <2>1, <2>3, <2>4 DEF LeavesAgree, SubsAgree
  <2>6. RootsAgree
    BY <2>1, <2>3, <2>4 DEF RootsAgree
  <2>7. RaisersApart
    BY <2>2 DEF RaisersApart
  <2>8. QED
    BY <2>5, <2>6, <2>7 DEF TallyInv
<1>18. ReadingsSound /\ WalksSound
  BY <1>4, <1>8 DEF ReadingsSound, ReadingSound, WalksSound, WalkSound, ClaimPhases
<1>19. WorkInv
  <2>1. \A e : Accounted(e) = {}
    BY <1>7 DEF Accounted
  <2>2. Sd[0] = 0 /\ Cardinality({}) = 0
    BY <1>2, <1>5, FS_EmptySet
  <2>3. SdSound
    BY <1>6, <1>9, <2>1, <2>2 DEF SdSound
  <2>4. RunsSound
    BY <1>7 DEF RunsSound
  <2>5. QED
    BY <2>3, <2>4 DEF WorkInv
<1>20. QED
  BY <1>1, <1>12, <1>13, <1>14, <1>15, <1>16, <1>17, <1>18, <1>19 DEF Inv, Base, ViewInv

(* ... and in every step.                                                  *)
LEMMA NextInv == Inv /\ [Next]_vars => Inv'
<1> SUFFICES ASSUME Inv, [Next]_vars PROVE Inv'
  OBVIOUS
<1>1. TypeInv'
  BY NextTypeInv DEF Inv, Base
<1>2. CASE \E p \in Producers : ProducerNext(p) /\ UNCHANGED consumerVars
  BY <1>1, <1>2, ProducerInv
<1>3. CASE \E c \in Consumers : ConsumerNext(c) /\ UNCHANGED producerVars
  BY <1>1, <1>3, ConsumerInv
<1>4. CASE UNCHANGED vars
  BY <1>1, <1>4, StutterInv
<1>5. QED
  BY <1>2, <1>3, <1>4 DEF Next

(* The quota argument: for any ring, any producers and quotas the ring     *)
(* admits, and any number of views, no step of a write (quota sweep,       *)
(* fetch-add, segment initialisation, table, sentinel) and no step of a    *)
(* view (subscription, moves, claims, release, leaving) breaks the         *)
(* invariant.                                                              *)
THEOREM QuotaArgument == Spec => []Inv
  BY InitInv, NextInv, PTL DEF Spec

-----------------------------------------------------------------------------
(* What the invariant says.                                                *)

LEMMA HeldInv == Inv => HeldNeverLapped
<1>1. SUFFICES ASSUME Inv, NEW c \in Consumers, NEW e \in Epochs, Holds(c, e)
               PROVE  Es[Slot(e)] = e /\ Epoch(SpentTail) < e + K
  BY DEF HeldNeverLapped
<1>2. e \in Nat /\ Held(c, e)
  BY <1>1, EpochsNat DEF Held, Inv, Base
<1>3. Initialised(e) /\ Safe(e)
  BY <1>1, <1>2, HeldKept DEF Inv, Base, ViewInv
<1>4. QED
  BY <1>3 DEF Initialised, Safe

LEMMA IncompleteWorked ==
    ASSUME TypeInv, Layout, NEW s \in Incomplete
    PROVE  s \in Nat /\ Epoch(s) \in Nat /\ Worked(Epoch(s))
<1>1. PICK i \in Tables : ~Tprogress[i] /\ s = Tsent[i]
  BY DEF Incomplete
<1>2. QED
  BY <1>1, TableRanges DEF Worked

LEMMA WorkKept == Inv => WorkNeverLapped
<1>1. SUFFICES ASSUME Inv, NEW s \in Incomplete \cup {wret[p] : p \in {q \in Producers : Writing(q)}}
               PROVE  /\ Es[Slot(Epoch(s))] = Epoch(s) => Live[Slot(Epoch(s))]
                      /\ Epoch(SpentTail) < Epoch(s) + K
  BY DEF WorkNeverLapped
<1>2. TypeInv /\ Layout /\ QuotaSound /\ WorkLit
  BY <1>1 DEF Inv, Base, EpochInv
<1>3. Epoch(s) \in Nat /\ Worked(Epoch(s))
  <2>1. CASE s \in Incomplete
    BY <1>2, <2>1, IncompleteWorked
  <2>2. CASE s \in {wret[p] : p \in {q \in Producers : Writing(q)}}
    <3>1. PICK p \in Producers : Writing(p) /\ s = wret[p]
      BY <2>2
    <3>2. s \in Nat
      BY <1>2, <3>1, LayoutTypes
    <3>3. QED
      BY <3>1, <3>2, EpochType DEF Worked
  <2>3. QED
    BY <1>1, <2>1, <2>2
<1>4. Safe(Epoch(s))
  BY <1>2, <1>3 DEF QuotaSound, Protected
<1>5. Initialised(Epoch(s)) => Live[Slot(Epoch(s))]
  BY <1>2, <1>3 DEF WorkLit
<1>6. QED
  BY <1>4, <1>5 DEF Safe, Initialised

LEMMA WorkAhead == Inv => NoWorkBehind
<1>1. SUFFICES ASSUME Inv, NEW c \in Consumers, NEW s \in Incomplete, Reading(c)
               PROVE  Epoch(s) >= oldestEi[c]
  BY DEF NoWorkBehind
<1>2. Epoch(s) \in Nat /\ Worked(Epoch(s))
  BY <1>1, IncompleteWorked DEF Inv, Base
<1>3. QED
  BY <1>1, <1>2 DEF Inv, ReadingsSound, ReadingSound

LEMMA TalliesInv == Inv => TalliesAgree
  BY DEF Inv, ViewInv, TallyInv, LeavesAgree, RootsAgree, SubsAgree, TalliesAgree,
         Holders, Raisers, Lowerers, Touched, Pinners

LEMMA WriteChecks == Inv => WriteTripwires
<1>1. SUFFICES ASSUME Inv, NEW p \in Producers, ppc[p] \in {"check", "raise"}
               PROVE  Unprotected(Slot(fresh[p]))
  BY DEF WriteTripwires
<1>2. PICK k : k = Slot(fresh[p])
  OBVIOUS
<1>3. /\ TypeInv /\ Layout /\ QuotaSound /\ InitsSound /\ PendingStale /\ KeptSound /\ SlotsSound
      /\ RangesSound /\ LeavesAgree /\ RootsAgree /\ ppc[p] \in Crossing
  BY <1>1 DEF Inv, Base, EpochInv, ViewInv, TallyInv, Crossing
<1>4. /\ fresh[p] \in Nat /\ InWindow(fresh[p]) /\ k \in Slots /\ Es[k] < fresh[p]
      /\ Es[k] \in Int
  BY <1>2, <1>3, FreshPending, StatTypes
<1>5. \A e \in Nat : InWindow(e) /\ Slot(e) = k => ~Initialised(e)
  BY <1>2, <1>3, FreshElsewhere
<1>6. \A c \in Consumers : \A e \in Nat : Held(c, e) => Slot(e) # k
  <2>1. SUFFICES ASSUME NEW c \in Consumers, NEW e \in Nat, Held(c, e), Slot(e) = k PROVE FALSE
    OBVIOUS
  <2>2. Initialised(e) /\ InWindow(e)
    BY <1>3, <2>1, HeldKept
  <2>3. QED
    BY <1>5, <2>1, <2>2
<1>7. ~Live[k]
  <2>1. SUFFICES ASSUME Live[k] PROVE FALSE
    OBVIOUS
  <2>2. \A q \in Producers : ~(ppc[q] = "es" /\ Slot(fresh[q]) = k)
    <3>1. SUFFICES ASSUME NEW q \in Producers, ppc[q] = "es", Slot(fresh[q]) = k PROVE FALSE
      OBVIOUS
    <3>2. ppc[q] \in Crossing
      BY <3>1 DEF Crossing
    <3>3. q = p
      BY <1>2, <1>3, <3>1, <3>2, FreshApart
    <3>4. QED
      BY <1>1, <3>1, <3>3
  <2>3. SlotSound(k)
    BY <1>3, <1>4 DEF SlotsSound
  <2>4. ~(Es[k] < 0)
    BY <2>1, <2>2, <2>3 DEF SlotSound
  <2>5. PICK e \in Nat : e = Es[k]
    BY <1>4, <2>4
  <2>6. Slot(e) = k /\ Initialised(e)
    BY <1>4, <2>3, <2>5 DEF SlotSound, Initialised
  <2>7. Lit(e)
    BY <2>1, <2>2, <2>6 DEF Lit
  <2>8. InWindow(e)
    BY <1>3, <2>7, Windows DEF Protected, Kept
  <2>9. QED
    BY <1>5, <2>6, <2>8
<1>8. Touched(k) = {}
  <2>1. SUFFICES ASSUME NEW l \in Leaves, Lt[k][l] > 0 PROVE FALSE
    BY DEF Touched
  <2>2. Cardinality(Holders(k, l)) > 0
    BY <1>3, <1>4, <2>1 DEF LeavesAgree
  <2>3. Holders(k, l) # {}
    BY <2>2, FS_EmptySet
  <2>4. PICK c \in Consumers, e \in Epochs : Slot(e) = k /\ Holds(c, e)
    BY <2>3 DEF Holders
  <2>5. e \in Nat /\ Held(c, e)
    BY <1>3, <2>4, EpochsNat DEF Held
  <2>6. QED
    BY <1>6, <2>4, <2>5
<1>9. Lowerers(k) = {}
  <2>1. SUFFICES ASSUME NEW c \in Consumers, cpc[c] = "decRoot", Slot(oldestEi[c]) = k PROVE FALSE
    BY DEF Lowerers, LoweringRoot
  <2>2. oldestEi[c] \in Nat /\ Held(c, oldestEi[c])
    BY <1>3, <2>1, ViewTypes DEF Held
  <2>3. QED
    BY <1>6, <2>1, <2>2
<1>10. Count[k] = 0
  <2>1. Count[k] + Cardinality(Raisers(k)) = Cardinality(Touched(k)) + Cardinality(Lowerers(k))
    BY <1>3, <1>4 DEF RootsAgree
  <2>2. Cardinality(Touched(k)) = 0 /\ Cardinality(Lowerers(k)) = 0
    BY <1>8, <1>9, FS_EmptySet
  <2>3. \A c \in Consumers : ~RaisingRoot(c, k)
    <3>1. SUFFICES ASSUME NEW c \in Consumers, RaisingRoot(c, k) PROVE FALSE
      OBVIOUS
    <3>2. c \in Holders(k, ltiRing[c][k]) /\ ltiRing[c][k] \in Leaves
      BY <1>3, <1>4, <3>1, RaiserHolds, ViewTypes
    <3>3. PICK e \in Epochs : Slot(e) = k /\ Holds(c, e)
      BY <3>2 DEF Holders
    <3>4. e \in Nat /\ Held(c, e)
      BY <1>3, <3>3, EpochsNat DEF Held
    <3>5. QED
      BY <1>6, <3>3, <3>4
  <2>4. Raisers(k) = {}
    BY <2>3 DEF Raisers
  <2>5. Cardinality(Raisers(k)) = 0
    BY <2>4, FS_EmptySet
  <2>6. Count[k] \in Int
    BY <1>3, <1>4, TallyTypes
  <2>7. QED
    BY <2>1, <2>2, <2>5, <2>6
<1>11. QED
  BY <1>2, <1>7, <1>10 DEF Unprotected

LEMMA WalkFinds ==
    ASSUME Inv, NEW c \in Consumers, cpc[c] = "walk", tseq[c] < WalkEnd(c)
    PROVE  Published(tseq[c])
<1>0. /\ TypeInv /\ Layout /\ QuotaSound /\ RangesSound /\ WalkSound(c) /\ ReadingSound(c)
      /\ oldestEi[c] \in Nat /\ newestEi[c] \in Nat /\ tseq[c] \in Nat /\ nextSeq[c] \in Nat
      /\ Epoch(tseq[c]) \in Nat /\ Epoch(nextSeq[c]) \in Nat /\ Wt \in Nat
  BY ViewTypes, LayoutTypes DEF Inv, Base, ViewInv, WalksSound, ReadingsSound
<1>1. Reading(c)
  BY <1>0, ClaimingReads
<1>2. /\ oldestEi[c] <= newestEi[c] /\ newestEi[c] <= Epoch(nextSeq[c]) /\ nextSeq[c] <= Wt
  BY <1>0, <1>1, ReadingHolds
<1>3. /\ Boundary(tseq[c]) /\ job[c] \in {"position", "trailing"}
      /\ job[c] = "position" => Epoch(tseq[c]) >= newestEi[c]
      /\ job[c] = "trailing" => Epoch(tseq[c]) >= oldestEi[c] /\ Behind(c)
  BY <1>0 DEF WalkSound
<1>4. tseq[c] < nextSeq[c] /\ Epoch(tseq[c]) >= oldestEi[c]
  <2>1. CASE job[c] = "position"
    BY <1>0, <1>2, <1>3, <2>1 DEF WalkEnd
  <2>2. CASE job[c] = "trailing"
    <3>1. tseq[c] < (oldestEi[c] + 1) * SegCap
      BY <2>2 DEF WalkEnd
    <3>2. oldestEi[c] < Epoch(nextSeq[c])
      BY <1>0, <1>2, <1>3, <2>2 DEF Behind
    <3>3. PICK b \in Nat : b = (oldestEi[c] + 1) * SegCap
      <4>1. oldestEi[c] + 1 \in Nat /\ SegCap \in Nat
        BY <1>0, GeometryAssumption
      <4>2. QED
        BY <4>1
    <3>4. ~(nextSeq[c] < b)
      BY <1>0, <3>2, <3>3, EpochEnds
    <3>5. QED
      BY <1>0, <1>3, <2>2, <3>1, <3>3, <3>4
  <2>3. QED
    BY <1>3, <2>1, <2>2
<1>5. tseq[c] # Wt
  BY <1>0, <1>2, <1>4
<1>6. \A p \in Producers : ~(Writing(p) /\ wret[p] = tseq[c])
  <2>1. SUFFICES ASSUME NEW p \in Producers, Writing(p), wret[p] = tseq[c] PROVE FALSE
    OBVIOUS
  <2>2. wret[p] >= nextSeq[c]
    BY <1>0, <1>1, <1>4, <2>1 DEF ReadingSound
  <2>3. QED
    BY <1>0, <1>4, <2>1, <2>2
<1>7. At(tseq[c])
  BY <1>3, <1>5, <1>6 DEF Boundary
<1>8. QED
  BY <1>7 DEF At, Published

LEMMA MovesChecked ==
    ASSUME Inv, NEW c \in Consumers, cpc[c] = "moveLeaf"
    PROVE  MoveChecks(c)
<1>0. /\ TypeInv /\ Layout /\ QuotaSound /\ RangesSound /\ ReadingSound(c) /\ SlotsSound
      /\ at[c] \in Nat /\ oldestEi[c] \in Nat /\ newestEi[c] \in Nat /\ Epoch(nextSeq[c]) \in Nat
      /\ Slot(at[c]) \in Slots /\ Epoch(Wt) \in Nat /\ K \in Nat
  BY ViewTypes, LayoutTypes, StatTypes, EpochType DEF Inv, Base, EpochInv, ViewInv, ReadingsSound
<1>1. Attached(c)
  BY DEF Attached, SubscribePhases
<1>2. newestEi[c] < at[c] /\ at[c] <= Epoch(nextSeq[c]) /\ ret[c] # "leaving"
  BY <1>0, <1>1 DEF RangesSound, RangeSound, Moving
<1>3. Reading(c)
  BY <1>1, <1>2 DEF Reading
<1>4. Initialised(at[c])
  BY <1>0, <1>2, <1>3 DEF ReadingSound
<1>5. InWindow(oldestEi[c]) /\ Epoch(nextSeq[c]) <= Epoch(Wt)
  BY <1>0, <1>3, ReadingHolds
<1>6. Epoch(nextSeq[c]) - oldestEi[c] + 1 <= K
  BY <1>0, <1>5 DEF InWindow
<1>7. SlotSound(Slot(at[c])) /\ Es[Slot(at[c])] = at[c]
  BY <1>0, <1>4 DEF SlotsSound, Initialised
<1>8. SqCs[Slot(at[c])] # 0
  BY <1>0, <1>7 DEF SlotSound
<1>9. QED
  BY <1>6, <1>7, <1>8 DEF MoveChecks

LEMMA ViewChecks == Inv => ViewTripwires
  BY WalkFinds, MovesChecked, LeafPositive, RootPositive DEF ViewTripwires

-----------------------------------------------------------------------------
(* Action properties.                                                      *)

(* Only the producer that initialises a segment sets its Live, and only a  *)
(* release clears it.                                                      *)
LEMMA ClearedOnly ==
    ASSUME Inv, [Next]_vars, NEW k \in Slots, Live[k], ~Live'[k]
    PROVE  \E c \in Consumers : ClearLive(c) /\ k = Slot(oldestEi[c])
<1>0. TypeInv
  BY DEF Inv, Base
<1>1. ASSUME NEW p \in Producers, ProducerNext(p) PROVE Live'[k]
  <2>1. CASE RaiseLive(p)
    BY <1>0, <2>1, RaiseLiveStep
  <2>2. CASE ~RaiseLive(p)
    <3>1. Live' = Live
      BY <1>1, <2>2 DEF ProducerNext, Write, SweepFree, SweepBlocked, Decline, StoreTable, Reserve,
             CheckFresh, InitStats, PublishEs, PublishTable, farmVars, rootVars
    <3>2. QED
      BY <3>1
  <2>3. QED
    BY <2>1, <2>2
<1>2. ASSUME NEW c \in Consumers, ConsumerNext(c) PROVE ClearLive(c) /\ k = Slot(oldestEi[c])
  <2>1. ClearLive(c)
    BY <1>0, <1>2, ConsumerFrame
  <2>2. QED
    BY <1>0, <2>1, ClearLiveStep
<1>3. ~UNCHANGED vars
  BY DEF vars, farmVars, rootVars
<1>4. QED
  BY <1>1, <1>2, <1>3 DEF Next

LEMMA DischargeStep ==
    ASSUME Inv, [Next]_vars, NEW k \in Slots, Live[k], ~Live'[k]
    PROVE  /\ Epoch(Wt) > Es[k]
           /\ \A p \in Producers : Writing(p) => Epoch(wret[p]) # Es[k]
           /\ \A s \in Incomplete : Epoch(s) # Es[k]
<1>1. PICK c \in Consumers : ClearLive(c) /\ k = Slot(oldestEi[c])
  BY ClearedOnly
<1>0. /\ TypeInv /\ Layout /\ QuotaSound /\ KeptSound /\ RangesSound /\ SlotsSound /\ EpochsSplit /\ SdSound
      /\ oldestEi[c] \in Nat /\ newestEi[c] \in Nat /\ Epoch(Wt) \in Nat
  BY ViewTypes, LayoutTypes, EpochType DEF Inv, Base, EpochInv, ViewInv, WorkInv
<1>2. cpc[c] = "clear" /\ Attached(c)
  BY <1>0, <1>1, ClearLiveStep DEF Attached, SubscribePhases
<1>3. oldestEi[c] <= newestEi[c] /\ Confirmed(oldestEi[c])
  BY <1>0, <1>2 DEF RangesSound, RangeSound
<1>4. Es[k] = oldestEi[c]
  BY <1>1, <1>3 DEF Confirmed
<1>11. InWindow(oldestEi[c]) /\ oldestEi[c] <= Epoch(Wt)
  <2>1. Held(c, oldestEi[c])
    BY <1>0, <1>2, <1>3, RangeHeld
  <2>2. QED
    BY <1>0, <2>1, HeldKept
<1>5. ~Worked(oldestEi[c])
  BY <1>0, <1>3, <1>11, ConfirmedDone
<1>6. Worked(Epoch(Wt))
  BY DEF Worked
<1>7. ASSUME NEW p \in Producers, Writing(p) PROVE Epoch(wret[p]) # Es[k]
  <2>1. Epoch(wret[p]) \in Nat /\ Worked(Epoch(wret[p]))
    BY <1>0, <1>7, LayoutTypes, EpochType DEF Worked
  <2>2. QED
    BY <1>0, <1>4, <1>5, <2>1
<1>8. ASSUME NEW s \in Incomplete PROVE Epoch(s) # Es[k]
  <2>1. Epoch(s) \in Nat /\ Worked(Epoch(s))
    BY <1>0, IncompleteWorked
  <2>2. QED
    BY <1>0, <1>4, <1>5, <2>1
<1>9. Epoch(Wt) > Es[k]
  BY <1>0, <1>4, <1>5, <1>6, <1>11
<1>10. QED
  BY <1>7, <1>8, <1>9

LEMMA OverwriteStep ==
    ASSUME Inv, [Next]_vars, NEW i \in Tables, Tsent'[i] # Tsent[i] \/ Tnext'[i] # Tnext[i]
    PROVE  /\ Tprogress[i]
           /\ \A c \in Consumers :
                /\ cpc[c] \in ClaimPhases \cup {"walk"} => tseq[c] # Tsent[i]
                /\ Reading(c) => nextSeq[c] # Tsent[i]
<1>0. /\ TypeInv /\ Layout /\ QuotaSound /\ RangesSound /\ KeptSound /\ WalksSound
      /\ Base /\ ViewInv
  BY DEF Inv, Base, ViewInv
<1>1. PICK p \in Producers : ProducerNext(p)
  <2>1. ASSUME NEW c \in Consumers, ConsumerNext(c) PROVE FALSE
    BY <1>0, <2>1, ConsumerFrame
  <2>2. ~UNCHANGED vars
    BY DEF vars, farmVars, ringVars
  <2>3. QED
    BY <2>1, <2>2 DEF Next
<1>2. PICK s \in Nat : s = Tsent[i] /\ At(s) /\ Idx(s) = i /\ Epoch(s) \in Nat
  BY <1>0, TableRanges
<1>3. \A e \in Nat : Protected(e) => ~(e <= Epoch(s))
  <2>1. SUFFICES ASSUME NEW e \in Nat, Protected(e), e <= Epoch(s) PROVE FALSE
    OBVIOUS
  <2>2. At(s)' /\ Tnext'[Idx(s)] = Tnext[Idx(s)]
    BY <1>0, <1>1, <1>2, <2>1, PlacesKept
  <2>3. Tsent'[i] = s
    BY <1>2, <2>2 DEF At
  <2>4. QED
    BY <1>2, <2>2, <2>3
<1>4. Tprogress[i]
  <2>1. SUFFICES ASSUME ~Tprogress[i] PROVE FALSE
    OBVIOUS
  <2>2. Protected(Epoch(s))
    BY <1>2, <2>1 DEF Protected, Worked
  <2>3. QED
    BY <1>2, <1>3, <2>2
<1>5. ASSUME NEW c \in Consumers, Reading(c), Epoch(s) >= oldestEi[c] PROVE FALSE
  <2>1. oldestEi[c] \in Nat /\ Protected(oldestEi[c])
    BY <1>0, <1>5, ReadingHolds
  <2>2. QED
    BY <1>2, <1>3, <1>5, <2>1
<1>6. ASSUME NEW c \in Consumers, cpc[c] \in ClaimPhases \cup {"walk"}, tseq[c] = s PROVE FALSE
  <2>1. Reading(c)
    BY <1>0, <1>6, ClaimingReads
  <2>2. oldestEi[c] <= newestEi[c] /\ oldestEi[c] \in Nat /\ newestEi[c] \in Nat
    BY <1>0, <2>1, ReadingHolds
  <2>3. Epoch(tseq[c]) >= oldestEi[c]
    BY <1>0, <1>2, <1>6, <2>2 DEF WalksSound, WalkSound
  <2>4. QED
    BY <1>5, <1>6, <2>1, <2>3
<1>7. ASSUME NEW c \in Consumers, Reading(c), nextSeq[c] = s PROVE FALSE
  <2>1. /\ oldestEi[c] <= newestEi[c] /\ oldestEi[c] \in Nat /\ newestEi[c] \in Nat
        /\ newestEi[c] <= Epoch(nextSeq[c])
    BY <1>0, <1>7, ReadingHolds
  <2>2. QED
    BY <1>2, <1>5, <1>7, <2>1
<1>8. QED
  BY <1>2, <1>4, <1>6, <1>7

(* DischargeIsFinal: Live of an epoch is cleared only once the tail is     *)
(* past it, no writer that started in it is still writing, and every table *)
(* in it is complete (confirmed, clearLive).                               *)
THEOREM DischargesAreFinal == Spec => DischargeIsFinal
<1>1. Inv /\ [Next]_vars => [\A k \in Slots : Live[k] /\ ~Live'[k] =>
          /\ Epoch(Wt) > Es[k]
          /\ \A p \in Producers : Writing(p) => Epoch(wret[p]) # Es[k]
          /\ \A s \in Incomplete : Epoch(s) # Es[k]]_vars
  BY DischargeStep
<1>2. QED
  BY <1>1, QuotaArgument, PTL DEF Spec, DischargeIsFinal

(* OverwriteOnlyDone: a write goes over a table only when it is complete   *)
(* and no view is claiming in it, walking over it or about to read it      *)
(* (writeImpl).                                                            *)
THEOREM OnlyDoneOverwritten == Spec => OverwriteOnlyDone
<1>1. Inv /\ [Next]_vars => [\A i \in Tables : Tsent'[i] # Tsent[i] \/ Tnext'[i] # Tnext[i] =>
          /\ Tprogress[i]
          /\ \A c \in Consumers :
                /\ cpc[c] \in ClaimPhases \cup {"walk"} => tseq[c] # Tsent[i]
                /\ Reading(c) => nextSeq[c] # Tsent[i]]_vars
  BY OverwriteStep
<1>2. QED
  BY <1>1, QuotaArgument, PTL DEF Spec, OverwriteOnlyDone

-----------------------------------------------------------------------------
(* The Farm as a log.                                                      *)

(* The Farm as a log.                                                      *)
Reservation(s) == [start |-> s, state |-> "reserved", handedOut |-> 0, finished |-> 0]

Entry(i) == [start |-> Tsent[i], state |-> "published", handedOut |-> Tclaims[i], finished |-> Tcomps[i]]

LogJobs == reservedJobs \cup publishedJobs

NewEntry(s) == [start |-> s, state |-> "published", handedOut |-> 0, finished |-> 0]

(* The jobs of the log are the reservations and the tables with runs left. *)
LEMMA JobsAre ==
    /\ \A x : x \in reservedJobs <=> \E p \in Producers : Writing(p) /\ x = Reservation(wret[p])
    /\ \A x : x \in publishedJobs <=> \E i \in Tables : Tcomps[i] < Runs /\ x = Entry(i)
  BY DEF reservedJobs, publishedJobs, Reservation, Entry

LEMMA JobsNextAre ==
    /\ \A x : x \in reservedJobs' <=> \E p \in Producers : Writing(p)' /\ x = Reservation(wret'[p])
    /\ \A x : x \in publishedJobs' <=>
          \E i \in Tables' : /\ Tcomps'[i] < Runs
                             /\ x = [start |-> Tsent'[i], state |-> "published",
                                     handedOut |-> Tclaims'[i], finished |-> Tcomps'[i]]
  BY DEF reservedJobs, publishedJobs, Reservation

(* A table with runs left protects its epoch, ...                          *)
LEMMA OpenTables ==
    ASSUME Inv, NEW i \in Tables, Tcomps[i] < Runs
    PROVE  ~Tprogress[i] /\ Protected(Epoch(Tsent[i])) /\ Tclaims[i] \in Nat /\ Tcomps[i] \in Nat
<1>1. RunSound(i) /\ Tclaims[i] \in Nat /\ Tcomps[i] \in Nat /\ Runs \in Nat
  BY RunTypes, ConsumerAssumption DEF Inv, Base, WorkInv, RunsSound, Tables
<1>2. ~Tprogress[i]
  BY <1>1 DEF RunSound
<1>3. QED
  BY <1>1, <1>2 DEF Protected, Worked

(* ... and no producer's step takes its space.                             *)
LEMMA OpenStays ==
    ASSUME Inv, NEW p \in Producers, ProducerNext(p), NEW i \in Tables, Tcomps[i] < Runs
    PROVE  i \in Tables' /\ WordsKept(i) /\ ProgressKept(i) /\ Wt' <= Tsent[i] + Lap
<1>0. /\ TypeInv /\ Layout /\ Base /\ ViewInv /\ Wt' \in Nat /\ Lap \in Nat
      /\ Tsent[i] \in Nat /\ Epoch(Tsent[i]) \in Nat
  BY TailGrows, LayoutTypes, TableRanges DEF Inv, Base
<1>1. PICK e \in Nat : e = Epoch(Tsent[i])
  BY <1>0
<1>2. Protected(e)
  BY <1>1, OpenTables
<1>3. InWindow(e)'
  BY <1>0, <1>2, WindowNext
<1>6. Epoch(Wt') < e + K
  BY <1>3 DEF InWindow
<1>7. Wt' < Tsent[i] + Lap
  BY <1>0, <1>1, <1>6, WithinLap
<1>4. Wt' <= Tsent[i] + Lap
  BY <1>0, <1>7
<1>5. QED
  BY <1>0, <1>4, ProducerTables

(* The published jobs in a producer's step, ...                            *)
LEMMA PublishedNext ==
    ASSUME Inv, NEW p \in Producers, ProducerNext(p)
    PROVE  /\ ~PublishTable(p) => publishedJobs' = publishedJobs
           /\ PublishTable(p) => publishedJobs' = publishedJobs \cup {NewEntry(wret[p])}
<1>0. Base /\ Runs > 0 /\ TypeInv /\ Layout /\ WritersSound /\ WritersRecent
  BY Windows, ConsumerAssumption DEF Inv, Base
<1>1. ASSUME NEW x \in publishedJobs PROVE x \in publishedJobs'
  <2>1. PICK i \in Tables : Tcomps[i] < Runs /\ x = Entry(i)
    BY JobsAre
  <2>2. i \in Tables' /\ WordsKept(i) /\ ProgressKept(i)
    BY <2>1, OpenStays
  <2>3. QED
    BY <2>1, <2>2, JobsNextAre DEF WordsKept, ProgressKept, Entry
<1>2. ASSUME NEW x \in publishedJobs'
      PROVE  x \in publishedJobs \/ (PublishTable(p) /\ x = NewEntry(wret[p]))
  <2>1. PICK i \in Tables' : /\ Tcomps'[i] < Runs
                             /\ x = [start |-> Tsent'[i], state |-> "published",
                                     handedOut |-> Tclaims'[i], finished |-> Tcomps'[i]]
    BY JobsNextAre
  <2>2. CASE i \in Tables /\ WordsKept(i) /\ ProgressKept(i)
    BY <2>1, <2>2, JobsAre DEF WordsKept, ProgressKept, Entry
  <2>3. CASE /\ PublishTable(p) /\ Tsent'[i] = wret[p] /\ Tclaims'[i] = 0 /\ Tcomps'[i] = 0
    BY <2>1, <2>3 DEF NewEntry
  <2>4. QED
    BY <1>0, <2>2, <2>3, ProducerTables
<1>3. ASSUME PublishTable(p) PROVE NewEntry(wret[p]) \in publishedJobs'
  <2>1. PICK k : k = Idx(wret[p])
    OBVIOUS
  <2>2. k \in Tables' /\ k \notin Tables /\ Tsent'[k] = wret[p]
    BY <1>0, <1>3, <2>1, PublishTableEffect
  <2>3. Tclaims'[k] = 0 /\ Tcomps'[k] = 0
    BY <1>0, <2>2, ProducerTables
  <2>4. QED
    BY <1>0, <2>2, <2>3, JobsNextAre DEF NewEntry
<1>4. QED
  BY <1>1, <1>2, <1>3

LEMMA WriterKept ==
    ASSUME TypeInv, NEW p \in Producers, ProducerNext(p), ~Reserve(p), ~PublishTable(p)
    PROVE  Wt' = Wt /\ (Writing(p)' <=> Writing(p)) /\ (Writing(p) => wret'[p] = wret[p])
<1>1. CASE Write(p)
  BY <1>1, WriteStep DEF Writing, farmVars, tailVars
<1>2. CASE SweepFree(p)
  BY <1>2, SweepFreeStep DEF Writing, farmVars, tailVars
<1>3. CASE SweepBlocked(p) \/ Decline(p)
  <2>1. ppc[p] \in {"sweep", "reserve"} /\ Return(p) /\ Wt' = Wt
    BY <1>3 DEF SweepBlocked, Decline, farmVars, tailVars
  <2>2. QED
    BY <2>1, ReturnStep DEF Writing
<1>4. CASE CheckFresh(p)
  BY <1>4, CheckFreshStep DEF Writing, farmVars, tailVars, Still
<1>5. CASE InitStats(p)
  BY <1>5, InitStatsStep DEF Writing, tailVars, Still
<1>6. CASE RaiseLive(p)
  BY <1>6, RaiseLiveStep DEF Writing, tailVars, Still
<1>7. CASE PublishEs(p)
  BY <1>7, PublishEsStep DEF Writing, tailVars, Still
<1>8. CASE StoreTable(p)
  BY <1>8, ProducerFunctions DEF StoreTable, Become, Writing, tailVars
<1>9. QED
  BY <1>1, <1>2, <1>3, <1>4, <1>5, <1>6, <1>7, <1>8 DEF ProducerNext

(* ... and the reserved ones.                                              *)
LEMMA ReservedNext ==
    ASSUME Inv, NEW p \in Producers, ProducerNext(p)
    PROVE  /\ ~Reserve(p) /\ ~PublishTable(p) => reservedJobs' = reservedJobs
           /\ Reserve(p) => reservedJobs' = reservedJobs \cup {Reservation(Wt)}
           /\ PublishTable(p) => /\ Reservation(wret[p]) \in reservedJobs
                                 /\ reservedJobs' = reservedJobs \ {Reservation(wret[p])}
<1>0. TypeInv /\ Layout
  BY DEF Inv, Base
<1>1. \A q \in Producers : q # p => (Writing(q)' <=> Writing(q)) /\ wret'[q] = wret[q]
  BY <1>0, ProducerFrame DEF OthersStill, Writing
<1>2. CASE ~Reserve(p) /\ ~PublishTable(p)
  <2>1. \A q \in Producers : (Writing(q)' <=> Writing(q)) /\ (Writing(q) => wret'[q] = wret[q])
    BY <1>0, <1>1, <1>2, WriterKept
  <2>2. \A x : x \in reservedJobs' <=> x \in reservedJobs
    BY <2>1, JobsAre, JobsNextAre
  <2>3. QED
    BY <1>2, <2>2
<1>3. CASE Reserve(p)
  <2>1. ppc[p] = "reserve" /\ wret'[p] = Wt /\ ppc'[p] \in {"check", "table"}
    BY <1>0, <1>3, ReserveStep
  <2>2. ~Writing(p) /\ Writing(p)'
    BY <2>1 DEF Writing
  <2>3. \A x : x \in reservedJobs' <=> x \in reservedJobs \/ x = Reservation(Wt)
    BY <1>1, <2>1, <2>2, JobsAre, JobsNextAre
  <2>4. ~PublishTable(p)
    BY <2>1 DEF PublishTable
  <2>5. QED
    BY <1>3, <2>3, <2>4
<1>4. CASE PublishTable(p)
  <2>1. ppc[p] = "sentinel" /\ Return(p)
    BY <1>4 DEF PublishTable
  <2>2. Writing(p) /\ ~Writing(p)'
    BY <1>0, <2>1, ReturnStep DEF Writing
  <2>3. \A q \in Producers : q # p /\ Writing(q) => wret[q] # wret[p]
    <3>1. SUFFICES ASSUME NEW q \in Producers, q # p, Writing(q), wret[q] = wret[p] PROVE FALSE
      OBVIOUS
    <3>2. Apart(wret[p], wtprime(p), wret[q], wtprime(q)) /\ size[p] >= 1 /\ size[q] >= 1
      BY <1>0, <2>2, <3>1 DEF Layout, WritersApart, WriterRanges
    <3>3. QED
      BY <1>0, <3>1, <3>2, LayoutTypes DEF Apart
  <2>4. \A s, t : Reservation(s) = Reservation(t) => s = t
    <3>1. \A s : Reservation(s).start = s
      BY DEF Reservation
    <3>2. QED
      BY <3>1
  <2>5. \A x : x \in reservedJobs' <=> x \in reservedJobs /\ x # Reservation(wret[p])
    BY <1>1, <2>2, <2>3, <2>4, JobsAre, JobsNextAre
  <2>6. Reservation(wret[p]) \in reservedJobs
    BY <2>2, JobsAre
  <2>7. ~Reserve(p)
    BY <2>1 DEF Reserve
  <2>8. QED
    BY <1>4, <2>5, <2>6, <2>7
<1>5. QED
  BY <1>2, <1>3, <1>4

LEMMA LogStays ==
    ASSUME Wt' = Wt, LogJobs' = LogJobs
    PROVE  [Log!LogNext]_(<<Wt, reservedJobs \cup publishedJobs>>)
  BY DEF LogJobs

(* A producer's step is a Reserve, a Publish or a stutter of the log.      *)
LEMMA ProducerLog ==
    ASSUME Inv, TypeInv', NEW p \in Producers, ProducerNext(p), UNCHANGED consumerVars
    PROVE  [Log!LogNext]_(<<Wt, reservedJobs \cup publishedJobs>>)
<1>0. /\ Base /\ ViewInv /\ TypeInv /\ Layout /\ WritersSound /\ WritersRecent
  BY Windows DEF Inv, Base
<1>1. CASE ~Reserve(p) /\ ~PublishTable(p)
  <2>1. reservedJobs' = reservedJobs /\ publishedJobs' = publishedJobs /\ Wt' = Wt
    BY <1>0, <1>1, ReservedNext, PublishedNext, WriterKept
  <2>2. QED
    BY <2>1
<1>2. CASE Reserve(p)
  <2>1. Wt' = Wt + size[p] /\ ~PublishTable(p) /\ wret'[p] = Wt /\ size'[p] = size[p]
    BY <1>0, <1>2, ReserveStep DEF PublishTable
  <2>2. reservedJobs' = reservedJobs \cup {Reservation(Wt)} /\ publishedJobs' = publishedJobs
    BY <1>2, <2>1, ReservedNext, PublishedNext
  <2>3. size[p] \in 1 .. Lap
    <3>1. Writing(p)' /\ WriterRanges'
      BY <1>0, <1>2, ReserveStep, ReserveLayout DEF Writing, Layout
    <3>2. size[p] \in 0 .. Lap /\ size'[p] >= 1 /\ Lap \in Nat
      BY <1>0, <3>1, ProducerFunctions, LayoutTypes DEF WriterRanges
    <3>3. QED
      BY <2>1, <3>2
  <2>4. \A j \in LogJobs : Wt + size[p] <= j.start + Lap
    <3>1. ASSUME NEW i \in Tables, Tcomps[i] < Runs PROVE Wt + size[p] <= Entry(i).start + Lap
      <4>1. Wt' <= Tsent[i] + Lap
        BY <3>1, OpenStays
      <4>2. Entry(i).start = Tsent[i]
        BY DEF Entry
      <4>3. QED
        BY <2>1, <4>1, <4>2
    <3>2. ASSUME NEW q \in Producers, Writing(q) PROVE Wt + size[p] <= Reservation(wret[q]).start + Lap
      <4>1. wret[q] \in Nat /\ Epoch(wret[q]) \in Nat /\ Protected(Epoch(wret[q])) /\ Wt' \in Nat /\ Lap \in Nat
        BY <1>0, <3>2, LayoutTypes, EpochType, TailGrows DEF Protected, Worked
      <4>2. PICK e \in Nat : e = Epoch(wret[q])
        BY <4>1
      <4>3. Protected(e)
        BY <4>1, <4>2
      <4>7. InWindow(e)'
        BY <1>0, <4>3, WindowNext
      <4>8. Epoch(Wt') < e + K
        BY <4>7 DEF InWindow
      <4>4. Wt' < wret[q] + Lap
        BY <4>1, <4>2, <4>8, WithinLap
      <4>5. Reservation(wret[q]).start = wret[q]
        BY DEF Reservation
      <4>6. QED
        BY <2>1, <4>1, <4>4, <4>5
    <3>3. QED
      BY <3>1, <3>2, JobsAre DEF LogJobs
  <2>5. Log!Reserve
    BY <2>1, <2>2, <2>3, <2>4 DEF Log!Reserve, Log!Reserved, Reservation, LogJobs
  <2>6. QED
    BY <2>5 DEF Log!LogNext
<1>3. CASE PublishTable(p)
  <2>1. Wt' = Wt /\ ~Reserve(p)
    BY <1>3 DEF PublishTable, tailVars, Reserve
  <2>2. PICK j : j = Reservation(wret[p])
    OBVIOUS
  <2>3. /\ j \in reservedJobs /\ reservedJobs' = reservedJobs \ {j}
        /\ publishedJobs' = publishedJobs \cup {NewEntry(wret[p])}
    BY <1>3, <2>2, ReservedNext, PublishedNext
  <2>4. j \notin publishedJobs
    <3>1. j.state = "reserved" /\ \A i : Entry(i).state = "published"
      BY <2>2 DEF Reservation, Entry
    <3>2. QED
      BY <3>1, JobsAre
  <2>5. [j EXCEPT !.state = "published"] = NewEntry(wret[p]) /\ j.state = "reserved"
    BY <2>2 DEF Reservation, NewEntry
  <2>6. (reservedJobs \cup publishedJobs)' = ((reservedJobs \cup publishedJobs) \ {j}) \cup {[j EXCEPT !.state = "published"]}
    BY <2>3, <2>4, <2>5
  <2>7. Log!Publish(j)
    BY <2>1, <2>5, <2>6 DEF Log!Publish
  <2>8. QED
    BY <2>3, <2>7 DEF Log!LogNext
<1>4. QED
  BY <1>1, <1>2, <1>3

LEMMA EntriesApart ==
    ASSUME TypeInv, Layout, NEW i \in Tables, NEW k \in Tables, Entry(i) = Entry(k)
    PROVE  i = k
<1>1. Entry(i).start = Tsent[i] /\ Entry(k).start = Tsent[k]
  BY DEF Entry
<1>2. Idx(Tsent[i]) = i /\ Idx(Tsent[k]) = k
  BY TableRanges
<1>3. QED
  BY <1>1, <1>2

LEMMA ReservedStays ==
    ASSUME TypeInv, NEW c \in Consumers, ConsumerNext(c), UNCHANGED producerVars
    PROVE  reservedJobs' = reservedJobs
<1>1. wret' = wret /\ \A q : Writing(q)' = Writing(q)
  BY ConsumerLayout
<1>2. \A x : x \in reservedJobs' <=> x \in reservedJobs
  BY <1>1, JobsAre, JobsNextAre
<1>3. QED
  BY <1>2

(* The published jobs when the counts of one table move.                   *)
LEMMA PublishedBut ==
    ASSUME TypeInv, Layout, Tables' = Tables, Tsent' = Tsent, NEW k \in Tables, Tcomps[k] < Runs,
           \A i \in Tables \ {k} : Tclaims'[i] = Tclaims[i] /\ Tcomps'[i] = Tcomps[i],
           NEW rest, rest = IF Tcomps'[k] < Runs
                            THEN {[start |-> Tsent[k], state |-> "published",
                                   handedOut |-> Tclaims'[k], finished |-> Tcomps'[k]]}
                            ELSE {}
    PROVE  publishedJobs' = (publishedJobs \ {Entry(k)}) \cup rest
<1>1. ASSUME NEW x \in publishedJobs' PROVE x \in (publishedJobs \ {Entry(k)}) \cup rest
  <2>1. PICK i \in Tables : /\ Tcomps'[i] < Runs
                            /\ x = [start |-> Tsent[i], state |-> "published",
                                    handedOut |-> Tclaims'[i], finished |-> Tcomps'[i]]
    BY JobsNextAre
  <2>2. CASE i = k
    BY <2>1, <2>2
  <2>3. CASE i # k
    <3>1. x = Entry(i) /\ Tcomps[i] < Runs
      BY <2>1, <2>3 DEF Entry
    <3>2. x \in publishedJobs /\ x # Entry(k)
      BY <2>3, <3>1, JobsAre, EntriesApart
    <3>3. QED
      BY <3>2
  <2>4. QED
    BY <2>2, <2>3
<1>2. ASSUME NEW x \in publishedJobs, x # Entry(k) PROVE x \in publishedJobs'
  <2>1. PICK i \in Tables : Tcomps[i] < Runs /\ x = Entry(i)
    BY JobsAre
  <2>2. i # k
    BY <1>2, <2>1
  <2>3. QED
    BY <2>1, <2>2, JobsNextAre DEF Entry
<1>3. ASSUME NEW x \in rest PROVE x \in publishedJobs'
  BY <1>3, JobsNextAre
<1>4. QED
  BY <1>1, <1>2, <1>3

LEMMA PublishedSame ==
    ASSUME Tables' = Tables, Tsent' = Tsent,
           \A i \in Tables : Tclaims'[i] = Tclaims[i] /\ Tcomps'[i] = Tcomps[i]
    PROVE  publishedJobs' = publishedJobs
<1>1. \A x : x \in publishedJobs' <=> x \in publishedJobs
  BY JobsAre, JobsNextAre DEF Entry
<1>2. QED
  BY <1>1

(* A view's step is a HandOut, a Finish or a stutter of the log.           *)
LEMMA ConsumerLog ==
    ASSUME Inv, NEW c \in Consumers, ConsumerNext(c), UNCHANGED producerVars
    PROVE  [Log!LogNext]_(<<Wt, reservedJobs \cup publishedJobs>>)
<1>0. TypeInv /\ Layout /\ WalksSound /\ Runs \in Nat /\ Runs > 0
  BY ConsumerAssumption DEF Inv, Base, WorkInv
<1>1. Wt' = Wt /\ Tables' = Tables /\ Tsent' = Tsent /\ reservedJobs' = reservedJobs
  BY <1>0, ConsumerFrame, ConsumerLayout, ReservedStays
<1>2. ASSUME Tclaims' = Tclaims, Tcomps' = Tcomps
      PROVE  [Log!LogNext]_(<<Wt, reservedJobs \cup publishedJobs>>)
  <2>1. publishedJobs' = publishedJobs
    BY <1>1, <1>2, PublishedSame
  <2>2. QED
    BY <1>1, <2>1
<1>3. CASE ~WorkStep(c)
  <2>1. ~Claim(c) /\ ~Complete(c)
    BY <1>3 DEF WorkStep
  <2>2. Tclaims' = Tclaims /\ Tcomps' = Tcomps
    BY <1>0, <2>1, ConsumerFrame
  <2>3. QED
    BY <1>2, <2>2
<1>4. CASE WorkStep(c)
  <2>0. PICK k \in Indices : k = Idx(tseq[c])
    BY <1>0, ViewTypes
  <2>1. \/ ClaimedAt(c, k) \/ CompletedAt(c, k) \/ ProgressedAt(c, k)
        \/ SameCounts /\ cpc[c] \in Resting /\ cpc'[c] \notin Finishing
    BY <1>0, <1>4, <2>0, WorkCounts
  <2>2. Tsent[k] = tseq[c] /\ k \in Tables
    <3>1. cpc[c] \in ClaimPhases
      BY <1>0, <1>4, WorkSteps
    <3>2. At(tseq[c])
      BY <1>0, <3>1 DEF WalksSound, WalkSound
    <3>3. QED
      BY <2>0, <3>2 DEF At
  <2>3. /\ Tclaims[k] \in Nat /\ Tcomps[k] \in Nat /\ Tclaims[k] <= Runs
        /\ Completers(k) \subseteq Consumers /\ Cardinality(Completers(k)) \in Nat
        /\ Tcomps[k] + Cardinality(Completers(k)) = Tclaims[k]
    <3>1. Tclaims[k] \in Nat /\ Tcomps[k] \in Nat
      BY <1>0, RunTypes
    <3>2. RunSound(k)
      BY <2>2 DEF Inv, WorkInv, RunsSound
    <3>3. Completers(k) \subseteq Consumers /\ Cardinality(Completers(k)) \in Nat
      BY SetsFinite DEF Completers
    <3>4. QED
      BY <3>1, <3>2, <3>3 DEF RunSound, Completers
  <2>4. PICK j : j = Entry(k)
    OBVIOUS
  <2>5. j.state = "published" /\ j.handedOut = Tclaims[k] /\ j.finished = Tcomps[k]
    BY <2>4 DEF Entry
  <2>6. j \notin reservedJobs
    <3>1. \A s : Reservation(s).state = "reserved"
      BY DEF Reservation
    <3>2. QED
      BY <2>5, <3>1, JobsAre
  <2>7. \A i \in Tables \ {k} : i \in Indices \ {k}
    BY DEF Tables
  <2>8. CASE ClaimedAt(c, k)
    <3>1. /\ Tclaims[k] < Runs /\ Tclaims'[k] = Tclaims[k] + 1 /\ Tcomps'[k] = Tcomps[k]
          /\ \A i \in Tables \ {k} : Tclaims'[i] = Tclaims[i] /\ Tcomps'[i] = Tcomps[i]
      BY <2>7, <2>8 DEF ClaimedAt
    <3>2. Tcomps[k] < Runs
      BY <1>0, <2>3, <3>1
    <3>3. PICK x : x = [start |-> Tsent[k], state |-> "published",
                        handedOut |-> Tclaims'[k], finished |-> Tcomps'[k]]
      OBVIOUS
    <3>4. publishedJobs' = (publishedJobs \ {j}) \cup {x}
      BY <1>0, <1>1, <2>2, <2>4, <3>1, <3>2, <3>3, PublishedBut
    <3>5. [j EXCEPT !.handedOut = @ + 1] = x
      BY <2>4, <3>1, <3>3 DEF Entry
    <3>6. j \in publishedJobs
      BY <2>2, <2>4, <3>2, JobsAre
    <3>7. (reservedJobs \cup publishedJobs)' = ((reservedJobs \cup publishedJobs) \ {j}) \cup {[j EXCEPT !.handedOut = @ + 1]}
      BY <1>1, <2>6, <3>4, <3>5
    <3>8. Log!HandOut(j)
      BY <1>1, <2>5, <3>1, <3>7 DEF Log!HandOut
    <3>9. QED
      BY <3>6, <3>8 DEF Log!LogNext
  <2>9. CASE CompletedAt(c, k)
    <3>1. /\ Tclaims'[k] = Tclaims[k] /\ Tcomps'[k] = Tcomps[k] + 1
          /\ \A i \in Tables \ {k} : Tclaims'[i] = Tclaims[i] /\ Tcomps'[i] = Tcomps[i]
      BY <2>7, <2>9 DEF CompletedAt
    <3>2. c \in Completers(k)
      BY <2>2, <2>9 DEF CompletedAt, Completers, OnTable
    <3>3. Cardinality(Completers(k)) > 0
      BY <2>3, <3>2, OneMore
    <3>4. Tcomps[k] < Tclaims[k] /\ Tcomps[k] < Runs
      BY <1>0, <2>3, <3>3
    <3>5. PICK x : x = [start |-> Tsent[k], state |-> "published",
                        handedOut |-> Tclaims'[k], finished |-> Tcomps'[k]]
      OBVIOUS
    <3>6. PICK rest : rest = IF Tcomps'[k] < Runs THEN {x} ELSE {}
      OBVIOUS
    <3>7. publishedJobs' = (publishedJobs \ {j}) \cup rest
      BY <1>0, <1>1, <2>2, <2>4, <3>1, <3>4, <3>5, <3>6, PublishedBut
    <3>8. [j EXCEPT !.finished = @ + 1] = x
      BY <2>4, <3>1, <3>5 DEF Entry
    <3>9. j.finished + 1 = Runs <=> ~(Tcomps'[k] < Runs)
      BY <1>0, <2>3, <2>5, <3>1, <3>4
    <3>10. rest = IF j.finished + 1 = Runs THEN {} ELSE {[j EXCEPT !.finished = @ + 1]}
      BY <3>6, <3>8, <3>9
    <3>11. j \in publishedJobs
      BY <2>2, <2>4, <3>4, JobsAre
    <3>12. (reservedJobs \cup publishedJobs)' = ((reservedJobs \cup publishedJobs) \ {j}) \cup rest
      BY <1>1, <2>6, <3>7
    <3>13. j.finished < j.handedOut
      BY <2>5, <3>4
    <3>14. Log!Finish(j)
      BY <1>1, <3>10, <3>12, <3>13 DEF Log!Finish
    <3>15. QED
      BY <3>11, <3>14 DEF Log!LogNext
  <2>10. CASE ProgressedAt(c, k) \/ SameCounts
    BY <1>2, <2>10 DEF ProgressedAt, SameCounts
  <2>11. QED
    BY <2>1, <2>8, <2>9, <2>10
<1>5. QED
  BY <1>3, <1>4

LEMMA LogBegins == Init => Log!LogInit
<1> SUFFICES ASSUME Init PROVE Log!LogInit
  OBVIOUS
<1>1. /\ Wt = 0 /\ \A i \in Indices : Tsent[i] = NoSeq
      /\ \A p \in Producers : ppc[p] = "idle"
  BY DEF Init, FarmInit, ProducerInit
<1>2. Tables = {} /\ \A p \in Producers : ~Writing(p)
  BY <1>1 DEF Tables, Writing
<1>3. (\A x : x \notin reservedJobs) /\ (\A x : x \notin publishedJobs)
  BY <1>2, JobsAre
<1>4. QED
  BY <1>1, <1>3 DEF Log!LogInit

LEMMA LogSteps ==
    ASSUME Inv, [Next]_vars
    PROVE  [Log!LogNext]_(<<Wt, reservedJobs \cup publishedJobs>>)
<1>1. TypeInv'
  BY NextTypeInv DEF Inv, Base
<1>2. CASE \E p \in Producers : ProducerNext(p) /\ UNCHANGED consumerVars
  BY <1>1, <1>2, ProducerLog
<1>3. CASE \E c \in Consumers : ConsumerNext(c) /\ UNCHANGED producerVars
  BY <1>3, ConsumerLog
<1>4. CASE UNCHANGED vars
  <2>1. /\ UNCHANGED <<ppc, wret>> /\ UNCHANGED <<Tsent, Tclaims, Tcomps>> /\ Wt' = Wt
    BY <1>4 DEF vars, farmVars, ringVars, tailVars, statVars, producerVars
  <2>2. Tables' = Tables /\ \A p : Writing(p)' = Writing(p)
    BY <2>1 DEF Tables, Writing
  <2>3. publishedJobs' = publishedJobs
    BY <2>1, <2>2, PublishedSame
  <2>4. \A x : x \in reservedJobs' <=> x \in reservedJobs
    BY <2>1, <2>2, JobsAre, JobsNextAre
  <2>5. QED
    BY <2>1, <2>3, <2>4
<1>5. QED
  BY <1>2, <1>3, <1>4 DEF Next

(* The Farm implements JobLog: tables are reserved and published in the    *)
(* order of the tail, every run is handed out once and finishes once, and  *)
(* the space of a table is not given away before all of them finished.     *)
THEOREM FarmImplementsLog == Spec => ImplementsLog
<1>1. Inv /\ [Next]_vars => [Log!LogNext]_(<<Wt, reservedJobs \cup publishedJobs>>)
  BY LogSteps
<1>2. QED
  BY <1>1, LogBegins, QuotaArgument, PTL DEF Spec, ImplementsLog, Log!LogSpec

(* TalliesAgree: leaves, roots and Sub counts are exactly the views that   *)
(* hold or pin a segment, but for the edges on their way to a root         *)
(* (moveRef, release, subscribe).                                          *)
THEOREM TalliesHold == Spec => []TalliesAgree
  BY QuotaArgument, TalliesInv, PTL

(* HeldNeverLapped: a segment a view holds keeps its statistics, and all   *)
(* the quota that tickets have left cannot carry the tail to its next lap  *)
(* (the sweep of writeImpl).                                               *)
THEOREM HeldIsSafe == Spec => []HeldNeverLapped
  BY QuotaArgument, HeldInv, PTL

(* WorkNeverLapped: a table that is being written or is not complete keeps *)
(* its segment Live and in the ring, whether or not anybody is subscribed. *)
THEOREM WorkIsSafe == Spec => []WorkNeverLapped
  BY QuotaArgument, WorkKept, PTL

(* NoWorkBehind: a subscribed view holds or has still to reach the segment *)
(* of every table with work left (subscribe, release).                     *)
THEOREM NothingIsBehind == Spec => []NoWorkBehind
  BY QuotaArgument, WorkAhead, PTL

(* WriteTripwires: the fatals of checkFreshWriteSegments and of the raise  *)
(* of Live in writeImpl never fire.                                        *)
THEOREM WritesNeverTrip == Spec => []WriteTripwires
  BY QuotaArgument, WriteChecks, PTL

(* ViewTripwires: the fatals of moveRef, rewalk and the decrements of      *)
(* leaves and roots never fire.                                            *)
THEOREM ViewsNeverTrip == Spec => []ViewTripwires
  BY QuotaArgument, ViewChecks, PTL
=============================================================================
