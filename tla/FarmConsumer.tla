---------------------------- MODULE FarmConsumer ----------------------------
(***************************************************************************)
(* What an attached ConsumerView does: consumeNext with its idle path, and *)
(* unsubscribe.  Every table is a small one (fewer payloads than the       *)
(* threshold), so its Runs runs are all claimed on shard 0, and a view of  *)
(* another shard leaves it unless it carries the sweeper role.             *)
(*                                                                         *)
(* A fatal() is a guard here too: see FarmProducer.                        *)
(***************************************************************************)
EXTENDS FarmSubscriber

(* Fields that pinning and releasing leave alone.                          *)
pinVars == <<IDc, nextSeq, sweeperNext>>

-----------------------------------------------------------------------------
(* consumeNext.  A phase that the view's own fields rule out is skipped in *)
(* the step before it; StagePhase says what remains to do from a stage on. *)

Behind(c) == oldestEi[c] < newestEi[c]

(* Variant of Unswept: the idle path has no sweepCurrentPosition.          *)
NeverUnswept(c) == FALSE

(* The position's tables that sweepCurrentPosition would visit.  Es and    *)
(* Seqt of a held epoch are fixed.                                         *)
Unswept(c) ==
    LET k == Slot(newestEi[c])
    IN  Es[k] = newestEi[c] /\ Larger(Seqt[k], sweepSeq[c]) < nextSeq[c]

StagePhase(c, stage) ==
    CASE stage = "tail" /\ Behind(c) -> "release"
      [] stage = "idle" /\ Behind(c) -> "sweepOldest"
      [] stage = "idle" /\ ~Behind(c) /\ Unswept(c) -> "sweepPosition"
      [] stage = "sweepPosition" /\ Unswept(c) -> "sweepPosition"
      [] stage = "leave" -> "leave"
      [] OTHER -> "ready"

Resume(c, stage) ==
    /\ Goto(c, StagePhase(c, stage))
    /\ ret' = Set(ret, c, IF StagePhase(c, stage) = "release" THEN "ready" ELSE "none")

(* The load of the sentinel at nextSeq.  A miss takes the idle path, a     *)
(* table in a later epoch than the position pins every epoch up to it.     *)
Poll(c) ==
    /\ cpc[c] = "ready"
    /\ \/ /\ ~Published(nextSeq[c])
          /\ IF Epoch(nextSeq[c]) > newestEi[c]
             THEN Goto(c, "migrate") /\ ret' = Set(ret, c, "idle")
             ELSE Resume(c, "idle")
          /\ UNCHANGED at
       \/ /\ Published(nextSeq[c])
          /\ Epoch(nextSeq[c]) # newestEi[c]
          /\ at' = Set(at, c, newestEi[c] + 1)
          /\ ret' = Set(ret, c, "work")
          /\ Goto(c, "moveLeaf")
    /\ UNCHANGED <<farmVars, viewVars, attemptVars, claimVars>>

(* moveRef's fatals: the held range exceeds K, the slot of the epoch to    *)
(* pin is another epoch's, or it has no shard count.                       *)
MoveChecks(c) ==
    /\ Epoch(nextSeq[c]) - oldestEi[c] + 1 <= K
    /\ Es[Slot(at[c])] = at[c]
    /\ SqCs[Slot(at[c])] # 0

(* A pin is complete: the next epoch of the range, or the caller.          *)
Moved(c) ==
    IF at[c] < Epoch(nextSeq[c])
    THEN /\ at' = Set(at, c, at[c] + 1)
         /\ Goto(c, "moveLeaf")
         /\ UNCHANGED <<newestEi, sweepSeq>>
    ELSE /\ newestEi' = Set(newestEi, c, at[c])
         /\ sweepSeq' = Set(sweepSeq, c, 0)
         /\ at' = Set(at, c, 0)
         /\ Goto(c, IF ret[c] = "work" THEN "work" ELSE "release")

(* moveRef, one epoch of (newestEi, Epoch(nextSeq)] at a time: the checks, *)
(* which the pins already held keep true, and the fetch-add of the leaf.   *)
MoveLeaf(c) ==
    /\ cpc[c] = "moveLeaf"
    /\ MoveChecks(c)
    /\ LET k == Slot(at[c])
           l == IDc[c] % SqCs[k]
       IN  /\ Lt' = [Lt EXCEPT ![k][l] = @ + 1]
           /\ ltiRing' = [ltiRing EXCEPT ![c][k] = l]
           /\ IF Lt[k][l] = 0
              THEN Goto(c, "moveRoot") /\ UNCHANGED <<at, newestEi, sweepSeq>>
              ELSE Moved(c)
    /\ UNCHANGED <<tailVars, Live, Sub, Count, statVars, ringVars, ret, pinVars,
                   oldestEi, oldSweepSeq, attemptVars, claimVars>>

MoveRoot(c) ==
    /\ cpc[c] = "moveRoot"
    /\ TakeRootCount(Slot(at[c]))
    /\ Moved(c)
    /\ UNCHANGED <<tailVars, Live, Sub, Lt, statVars, ringVars, ret, pinVars,
                   oldestEi, oldSweepSeq, ltiRing, attemptVars, claimVars>>

(* Enter processShard for table s on behalf of one of its callers.         *)
Process(c, s, caller) ==
    /\ job' = Set(job, c, caller)
    /\ tseq' = Set(tseq, c, s)
    /\ ownClaims' = Set(ownClaims, c, 0)
    /\ firstClaimant' = Set(firstClaimant, c, FALSE)
    /\ Goto(c, "claim")

ForgetClaim(c) ==
    /\ job' = Set(job, c, "none")
    /\ tseq' = Set(tseq, c, 0)
    /\ ownClaims' = Set(ownClaims, c, 0)
    /\ firstClaimant' = Set(firstClaimant, c, FALSE)
    /\ drained' = Set(drained, c, FALSE)

(* nextSeq = Tnext, then migrateToFrontier and tryReleaseOldest.           *)
PassTable(c) ==
    LET s == Tnext[Idx(nextSeq[c])] IN
    /\ nextSeq' = Set(nextSeq, c, s)
    /\ ForgetClaim(c)
    /\ IF Epoch(s) > newestEi[c]
       THEN Goto(c, "migrate") /\ ret' = Set(ret, c, "tail")
       ELSE Resume(c, "tail")

(* The visit of the table at nextSeq.  A complete table is passed over.    *)
(* Shard 0 belongs to the views whose IDc + nextSeq falls on it; another   *)
(* view takes it only if it carries the sweeper role.                      *)
Visit(c) ==
    /\ \/ cpc[c] = "work"
       \/ /\ cpc[c] = "ready"
          /\ Published(nextSeq[c])
          /\ Epoch(nextSeq[c]) = newestEi[c]
    /\ LET i     == Idx(nextSeq[c])
           shard == (IDc[c] + nextSeq[c]) % Tsq[i]
       IN  IF ~Tprogress[i] /\ (shard = 0 \/ sweeperNext[c])
           THEN /\ Process(c, nextSeq[c], IF shard = 0 THEN "visit" ELSE "carried")
                /\ ret' = Set(ret, c, "none")
                /\ UNCHANGED <<nextSeq, sweeperNext, drained>>
           ELSE /\ PassTable(c)
                /\ sweeperNext' = Set(sweeperNext, c, sweeperNext[c] /\ Tprogress[i])
    /\ UNCHANGED <<farmVars, at, IDc, oldestEi, newestEi, ltiRing, sweepSeq,
                   oldSweepSeq, attemptVars>>

(* Variant of FrontierReady: a position that only a sentinel moves.        *)
FrontierNever(c) == FALSE

FrontierReady(c) ==
    LET ei == Epoch(nextSeq[c])
    IN  Confirmed(newestEi[c]) /\ Es[Slot(ei)] = ei

(* migrateToFrontier: the confirmed position moves to the epoch nextSeq is *)
(* in once that epoch is initialised.                                      *)
Migrate(c) ==
    /\ cpc[c] = "migrate"
    /\ IF FrontierReady(c)
       THEN /\ at' = Set(at, c, newestEi[c] + 1)
            /\ Goto(c, "moveLeaf")
            /\ UNCHANGED ret
       ELSE Resume(c, ret[c]) /\ UNCHANGED at
    /\ UNCHANGED <<farmVars, viewVars, attemptVars, claimVars>>

-----------------------------------------------------------------------------
(* tryReleaseOldest and unsubscribe: discharge, then drop the reference.   *)

(* The oldest epoch of several goes once it is confirmed; the pass ends    *)
(* where it is not.  migrateToFrontier's pass is followed by another one.  *)
Release(c) ==
    /\ cpc[c] = "release"
    /\ IF Behind(c) /\ Confirmed(oldestEi[c])
       THEN Goto(c, "clear") /\ UNCHANGED ret
       ELSE Resume(c, ret[c])
    /\ UNCHANGED <<farmVars, at, viewVars, attemptVars, claimVars>>

(* clearLive: one successful iteration of its load and CAS.  The CAS fails *)
(* only when another field of Rt changed in between, and is retried.       *)
ClearLive(c) ==
    /\ cpc[c] = "clear"
    /\ Live' = [Live EXCEPT ![Slot(oldestEi[c])] = FALSE]
    /\ Goto(c, "decLeaf")
    /\ UNCHANGED <<tailVars, Sub, Count, Lt, statVars, ringVars, ret, at,
                   viewVars, attemptVars, claimVars>>

(* The reference is gone: on with the pass, or with leaving.               *)
Dropped(c) ==
    /\ oldestEi' = Set(oldestEi, c, oldestEi[c] + 1)
    /\ oldSweepSeq' = Set(oldSweepSeq, c, 0)
    /\ Goto(c, IF ret[c] = "leaving" THEN "leaving" ELSE "release")

(* Variant of LastOut: the edge is taken one reference too early.          *)
LastButOneOut(n) == n <= 2

(* The fetch-sub of a leaf returned n: it was the last reference.          *)
LastOut(n) == n = 1

(* decRef: fatal if the leaf, then the root, is not positive.              *)
DecLeaf(c) ==
    /\ cpc[c] = "decLeaf"
    /\ LET k == Slot(oldestEi[c])
           l == ltiRing[c][k]
       IN  /\ Lt[k][l] > 0
           /\ Lt' = [Lt EXCEPT ![k][l] = @ - 1]
           /\ IF LastOut(Lt[k][l])
              THEN Goto(c, "decRoot") /\ UNCHANGED <<oldestEi, oldSweepSeq>>
              ELSE Dropped(c)
    /\ UNCHANGED <<tailVars, Live, Sub, Count, statVars, ringVars, ret, at,
                   pinVars, newestEi, ltiRing, sweepSeq, attemptVars, claimVars>>

DecRoot(c) ==
    /\ cpc[c] = "decRoot"
    /\ Count[Slot(oldestEi[c])] > 0
    /\ Count' = [Count EXCEPT ![Slot(oldestEi[c])] = @ - 1]
    /\ Dropped(c)
    /\ UNCHANGED <<tailVars, Live, Sub, Lt, statVars, ringVars, ret, at, pinVars,
                   newestEi, ltiRing, sweepSeq, attemptVars, claimVars>>

(* unsubscribe: release the confirmed prefix, leave the count, then drop   *)
(* every remaining epoch.  The loop variable of the last part is kept in   *)
(* oldestEi, which the code does not read again.                           *)
Unsubscribe(c) ==
    /\ cpc[c] = "ready"
    /\ IF Behind(c)
       THEN Goto(c, "release") /\ ret' = Set(ret, c, "leave")
       ELSE Resume(c, "leave")
    /\ UNCHANGED <<farmVars, at, viewVars, attemptVars, claimVars>>

Leave(c) ==
    /\ cpc[c] = "leave"
    /\ Cf' = Cf - 1
    /\ ret' = Set(ret, c, "leaving")
    /\ Goto(c, "leaving")
    /\ UNCHANGED <<Wt, Reqs_c, rootVars, statVars, ringVars, at, viewVars,
                   attemptVars, claimVars>>

(* Variant of Discharges: the last words of a view clear Live regardless.  *)
DischargesAnyway(e) == TRUE

(* unsubscribe discharges the epoch it drops.                              *)
Discharges(e) == Confirmed(e)

(* A confirmed epoch is discharged first; an unconfirmed one stays Live.   *)
LeaveEpoch(c) ==
    /\ cpc[c] = "leaving"
    /\ oldestEi[c] <= newestEi[c]
    /\ Goto(c, IF Discharges(oldestEi[c]) THEN "clear" ELSE "decLeaf")
    /\ UNCHANGED <<farmVars, ret, at, viewVars, attemptVars, claimVars>>

(* The view is as unused as a new one.                                     *)
Left(c) ==
    /\ cpc[c] = "leaving"
    /\ oldestEi[c] > newestEi[c]
    /\ ret' = Set(ret, c, "none")
    /\ Goto(c, "off")
    /\ IDc' = Set(IDc, c, 0)
    /\ nextSeq' = Set(nextSeq, c, 0)
    /\ oldestEi' = Set(oldestEi, c, 0)
    /\ newestEi' = Set(newestEi, c, 0)
    /\ ltiRing' = Set(ltiRing, c, [k \in Slots |-> 0])
    /\ sweeperNext' = Set(sweeperNext, c, FALSE)
    /\ sweepSeq' = Set(sweepSeq, c, 0)
    /\ oldSweepSeq' = Set(oldSweepSeq, c, 0)
    /\ UNCHANGED <<farmVars, at, attemptVars, claimVars>>

-----------------------------------------------------------------------------
(* The idle path: sweepOldestTrailing, sweepCurrentPosition and rewalk.    *)

(* Start a re-walk of the tables from s on; no table is left out of the    *)
(* drained prefix yet.                                                     *)
StartWalk(c, s, caller) ==
    /\ job' = Set(job, c, caller)
    /\ tseq' = Set(tseq, c, s)
    /\ drained' = Set(drained, c, TRUE)
    /\ UNCHANGED <<ownClaims, firstClaimant>>
    /\ Goto(c, "walk")

SweepOldest(c) ==
    /\ cpc[c] = "sweepOldest"
    /\ LET e == oldestEi[c] IN
       IF Es[Slot(e)] # e
       THEN Resume(c, "sweepPosition") /\ UNCHANGED claimVars
       ELSE /\ ret' = Set(ret, c, "sweepPosition")
            /\ IF Confirmed(e)
               THEN Goto(c, "release") /\ UNCHANGED claimVars
               ELSE StartWalk(c, Larger(Seqt[Slot(e)], oldSweepSeq[c]), "trailing")
    /\ UNCHANGED <<farmVars, at, viewVars, attemptVars>>

SweepPosition(c) ==
    /\ cpc[c] = "sweepPosition"
    /\ StartWalk(c, Larger(Seqt[Slot(newestEi[c])], sweepSeq[c]), "position")
    /\ ret' = Set(ret, c, "ready")
    /\ UNCHANGED <<farmVars, at, viewVars, attemptVars>>

WalkEnd(c) == IF job[c] = "trailing" THEN (oldestEi[c] + 1) * SegCap ELSE nextSeq[c]

(* The next table.  The position's cursor passes every table, the trailing *)
(* one only the drained prefix.                                            *)
WalkPast(c, isDrained) ==
    LET s == Tnext[Idx(tseq[c])] IN
    /\ tseq' = Set(tseq, c, s)
    /\ sweepSeq' = Set(sweepSeq, c, IF job[c] = "position" THEN s ELSE sweepSeq[c])
    /\ oldSweepSeq' = Set(oldSweepSeq, c,
          IF job[c] = "trailing" /\ isDrained THEN s ELSE oldSweepSeq[c])

(* One table of the walk: fatal if its sentinel is not there.              *)
Walk(c) ==
    /\ cpc[c] = "walk"
    /\ tseq[c] < WalkEnd(c)
    /\ Published(tseq[c])
    /\ IF Tprogress[Idx(tseq[c])]
       THEN /\ WalkPast(c, drained[c])
            /\ UNCHANGED <<cpc, job, ownClaims, firstClaimant, drained>>
       ELSE /\ Process(c, tseq[c], job[c])
            /\ drained' = Set(drained, c, FALSE)
            /\ UNCHANGED <<sweepSeq, oldSweepSeq>>
    /\ UNCHANGED <<farmVars, ret, at, IDc, nextSeq, oldestEi, newestEi, ltiRing,
                   sweeperNext, attemptVars>>

EndWalk(c) ==
    /\ cpc[c] = "walk"
    /\ tseq[c] >= WalkEnd(c)
    /\ ForgetClaim(c)
    /\ IF Behind(c) THEN Goto(c, "release") /\ UNCHANGED ret ELSE Resume(c, ret[c])
    /\ UNCHANGED <<farmVars, at, viewVars, attemptVars>>

-----------------------------------------------------------------------------
(* processShard on shard 0 of table tseq.                                  *)

(* Its return: a visit sets the carried role and passes the table, a       *)
(* re-walk goes on to the next one.                                        *)
Processed(c, sweeper) ==
    IF job[c] \in {"visit", "carried"}
    THEN /\ sweeperNext' = Set(sweeperNext, c, sweeper)
         /\ PassTable(c)
         /\ UNCHANGED <<sweepSeq, oldSweepSeq>>
    ELSE /\ WalkPast(c, FALSE)
         /\ ownClaims' = Set(ownClaims, c, 0)
         /\ firstClaimant' = Set(firstClaimant, c, FALSE)
         /\ Goto(c, "walk")
         /\ UNCHANGED <<sweeperNext, nextSeq, ret, job, drained>>

Claiming(c, phase) ==
    /\ Goto(c, phase)
    /\ UNCHANGED <<IDc, nextSeq, sweeperNext, sweepSeq, oldSweepSeq, ret, claimVars>>

stillVars == <<at, oldestEi, newestEi, ltiRing, attemptVars>>

(* Variant of Exhausted: an off-by-one in the claim bound.                 *)
ExhaustedLate(x) == x > Runs

(* The claim number x lies beyond the table's last run.                    *)
Exhausted(x) == x >= Runs

(* feedback: a native visitor of a shard that too many pass through moves  *)
(* to the next one, if the Farm has more consumers than the table shards.  *)
(* Claims past the last run are not counted, so how many have passed       *)
(* through is left open.                                                   *)
Feedback(c) ==
    \/ UNCHANGED IDc
    \/ /\ job[c] = "visit"
       /\ Cf > Tsq[Idx(tseq[c])]
       /\ IDc' = Set(IDc, c, (IDc[c] + 1) % IdMod)

(* The fetch-add of claims, which a sweep or re-walk of an exhausted shard *)
(* spares itself.  Claims are counted up to Runs: all further ones find    *)
(* the shard exhausted, and a yield asks only whether others have any.     *)
Claim(c) ==
    /\ cpc[c] = "claim"
    /\ LET i == Idx(tseq[c])
           x == Tclaims[i]
       IN  IF Exhausted(x)
           THEN Processed(c, FALSE) /\ Feedback(c) /\ UNCHANGED Tclaims
           ELSE /\ Tclaims' = [Tclaims EXCEPT ![i] = x + 1]
                /\ ownClaims' = Set(ownClaims, c, ownClaims[c] + 1)
                /\ firstClaimant' = Set(firstClaimant, c, firstClaimant[c] \/ x = 0)
                /\ Goto(c, "complete")
                /\ UNCHANGED <<IDc, nextSeq, sweeperNext, sweepSeq, oldSweepSeq,
                               ret, job, tseq, drained>>
    /\ UNCHANGED <<tailVars, rootVars, statVars, Tsent, Tnext, Tsq, Tcomps, Tprogress,
                   stillVars>>

(* The callbacks of the claimed run have returned (runCompact), and the    *)
(* fetch-add of completions.  The last run goes on to Tprogress; after any *)
(* other the first claimant of a native visit may yield.                   *)
Complete(c) ==
    /\ cpc[c] = "complete"
    /\ LET i == Idx(tseq[c]) IN
        /\ Tcomps' = [Tcomps EXCEPT ![i] = @ + 1]
        /\ Claiming(c, IF Tcomps[i] = Runs - 1 THEN "progress"
                       ELSE IF job[c] = "visit" /\ firstClaimant[c] THEN "yield"
                       ELSE "claim")
    /\ UNCHANGED <<tailVars, rootVars, statVars, Tsent, Tnext, Tsq, Tclaims, Tprogress,
                   stillVars>>

(* The fetch-add of Tprogress: the only shard completes the table.         *)
Progress(c) ==
    /\ cpc[c] = "progress"
    /\ Tprogress' = [Tprogress EXCEPT ![Idx(tseq[c])] = TRUE]
    /\ Claiming(c, "account")
    /\ UNCHANGED <<tailVars, rootVars, statVars, Tsent, Tnext, Tsq, Tclaims, Tcomps,
                   stillVars>>

(* The finisher adds the table's size to Sd of the segment it starts in.   *)
Account(c) ==
    /\ cpc[c] = "account"
    /\ LET s == tseq[c] IN
       Sd' = [Sd EXCEPT ![Slot(Epoch(s))] = @ + Tnext[Idx(s)] - s]
    /\ Processed(c, TRUE)
    /\ UNCHANGED <<tailVars, rootVars, Es, Seqt, SqCs, ringVars, IDc, stillVars>>

(* Mid-table yield: others have claimed runs, and the next table is there. *)
(* Both stay true once they are, so the two loads are one step.            *)
Yield(c) ==
    /\ cpc[c] = "yield"
    /\ IF /\ Tclaims[Idx(tseq[c])] > ownClaims[c]
          /\ Published(Tnext[Idx(tseq[c])])
       THEN Processed(c, FALSE) /\ UNCHANGED IDc
       ELSE Claiming(c, "claim")
    /\ UNCHANGED <<farmVars, stillVars>>

(* Everything an attached view does without its owner asking it to leave.  *)
ViewNext(c) ==
    \/ Poll(c) \/ MoveLeaf(c) \/ MoveRoot(c) \/ Visit(c) \/ Migrate(c)
    \/ Release(c) \/ ClearLive(c) \/ DecLeaf(c) \/ DecRoot(c) \/ Leave(c)
    \/ LeaveEpoch(c) \/ Left(c) \/ SweepOldest(c) \/ SweepPosition(c)
    \/ Walk(c) \/ EndWalk(c) \/ Claim(c) \/ Complete(c) \/ Progress(c)
    \/ Account(c) \/ Yield(c)

ConsumerNext(c) == SubscriberNext(c) \/ ViewNext(c) \/ Unsubscribe(c)
=============================================================================
