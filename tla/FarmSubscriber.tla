--------------------------- MODULE FarmSubscriber ---------------------------
(***************************************************************************)
(* The state of a ConsumerView and its subscription: add_consumer and      *)
(* subscribeOnce.  FarmConsumer adds what an attached view does.           *)
(***************************************************************************)
EXTENDS FarmRing

CONSTANT IdMod   (* IDc is kept modulo IdMod, a multiple of every shard count:
                    only IDc % SqCs is ever used *)

ASSUME IdAssumption ==
    /\ IdMod \in Nat \ {0}
    /\ \A n \in 1 .. MaxLeaves : IdMod % n = 0

VARIABLES
    cpc,         (* what the view does next                                 *)
    ret,         (* where a release pass (or a first pin) continues         *)
    job,         (* which caller processShard returns to                    *)
    IDc, nextSeq, oldestEi, newestEi, ltiRing, sweeperNext, sweepSeq, oldSweepSeq,
                 (* the fields of ConsumerView                              *)
    subs,        (* slots this subscription attempt holds a Sub on          *)
    round,       (* round of this attempt                                   *)
    probe,       (* epoch of the tail this round sampled                    *)
    at,          (* epoch a loop is at: the scan's, or the next to pin      *)
    candFresh,   (* this candidate's Sub was added by this round            *)
    seqtRead, sqRead,  (* Seqt and SqCs read during validation              *)
    tseq,        (* table being claimed or re-walked                        *)
    ownClaims, firstClaimant,   (* locals of processShard                   *)
    drained      (* local of rewalk                                         *)

viewVars == <<IDc, nextSeq, oldestEi, newestEi, ltiRing, sweeperNext,
              sweepSeq, oldSweepSeq>>
attemptVars == <<subs, round, probe, candFresh, seqtRead, sqRead>>
scanVars == <<at, round, probe, candFresh, seqtRead, sqRead>>
claimVars == <<job, tseq, ownClaims, firstClaimant, drained>>
consumerVars == <<cpc, ret, at, viewVars, attemptVars, claimVars>>

SubscribePhases == {"full", "probe", "pin", "hint", "pinCand",
                    "candEs", "candRt", "valEs", "valSeqt", "valWt", "valNext",
                    "unpinCand", "unpinInvalid", "retry", "subLeaf", "subRoot", "unpinAll"}
ClaimPhases == {"claim", "complete", "progress", "account", "yield"}
ReleasePhases == {"release", "clear", "decLeaf", "decRoot"}
CPhases == SubscribePhases \cup ClaimPhases \cup ReleasePhases \cup
    {"off", "ready", "moveLeaf", "moveRoot", "work", "migrate", "sweepOldest",
     "sweepPosition", "walk", "leave", "leaving"}
Returns == {"none", "work", "tail", "ready", "idle", "sweepPosition", "leave",
            "leaving"}
Jobs == {"none", "visit", "carried", "trailing", "position"}

ConsumerInit ==
    /\ cpc = [c \in Consumers |-> "off"]
    /\ ret = [c \in Consumers |-> "none"]
    /\ job = [c \in Consumers |-> "none"]
    /\ IDc = [c \in Consumers |-> 0]
    /\ nextSeq = [c \in Consumers |-> 0]
    /\ oldestEi = [c \in Consumers |-> 0]
    /\ newestEi = [c \in Consumers |-> 0]
    /\ ltiRing = [c \in Consumers |-> [k \in Slots |-> 0]]
    /\ sweeperNext = [c \in Consumers |-> FALSE]
    /\ sweepSeq = [c \in Consumers |-> 0]
    /\ oldSweepSeq = [c \in Consumers |-> 0]
    /\ subs = [c \in Consumers |-> {}]
    /\ round = [c \in Consumers |-> 0]
    /\ probe = [c \in Consumers |-> 0]
    /\ at = [c \in Consumers |-> 0]
    /\ candFresh = [c \in Consumers |-> FALSE]
    /\ seqtRead = [c \in Consumers |-> 0]
    /\ sqRead = [c \in Consumers |-> 0]
    /\ tseq = [c \in Consumers |-> 0]
    /\ ownClaims = [c \in Consumers |-> 0]
    /\ firstClaimant = [c \in Consumers |-> FALSE]
    /\ drained = [c \in Consumers |-> FALSE]

ControlTypeOK ==
    /\ cpc \in [Consumers -> CPhases]
    /\ ret \in [Consumers -> Returns]
ViewTypeOK ==
    /\ IDc \in [Consumers -> 0 .. IdMod - 1]
    /\ nextSeq \in [Consumers -> Nat]
    /\ oldestEi \in [Consumers -> Nat]
    /\ newestEi \in [Consumers -> Nat]
    /\ ltiRing \in [Consumers -> [Slots -> Leaves]]
    /\ sweeperNext \in [Consumers -> BOOLEAN]
    /\ sweepSeq \in [Consumers -> Nat]
    /\ oldSweepSeq \in [Consumers -> Nat]
AttemptTypeOK ==
    /\ at \in [Consumers -> Nat]
    /\ subs \in [Consumers -> SUBSET Slots]
    /\ round \in [Consumers -> 0 .. K + 2]
    /\ probe \in [Consumers -> Nat]
    /\ candFresh \in [Consumers -> BOOLEAN]
    /\ seqtRead \in [Consumers -> Nat]
    /\ sqRead \in [Consumers -> 0 .. MaxLeaves]
ClaimTypeOK ==
    /\ job \in [Consumers -> Jobs]
    /\ tseq \in [Consumers -> Nat]
    /\ ownClaims \in [Consumers -> Nat]
    /\ firstClaimant \in [Consumers -> BOOLEAN]
    /\ drained \in [Consumers -> BOOLEAN]
ConsumerTypeOK == ControlTypeOK /\ ViewTypeOK /\ AttemptTypeOK /\ ClaimTypeOK

Goto(c, phase) == cpc' = [cpc EXCEPT ![c] = phase]
Set(f, c, value) == [f EXCEPT ![c] = value]

-----------------------------------------------------------------------------
(* subscribeOnce, retried by subscribe until it attaches.                  *)

(* Variant of Full: an off-by-one at the limit.                            *)
FullBeyond(n) == n > MaxConsumers

(* n consumers are already counted: there is no room for another.          *)
Full(n) == n >= MaxConsumers

(* add_consumer: the fetch-add of Cf, and of Reqs_c if there is room.      *)
CountConsumer(c) ==
    /\ cpc[c] = "off"
    /\ Cf' = Cf + 1
    /\ IF Full(Cf)
       THEN Goto(c, "full") /\ UNCHANGED <<Reqs_c, IDc>>
       ELSE /\ Reqs_c' = (Reqs_c + 1) % IdMod
            /\ IDc' = Set(IDc, c, Reqs_c)
            /\ Goto(c, "probe")
    /\ UNCHANGED <<Wt, rootVars, statVars, ringVars, ret, at, nextSeq, oldestEi,
                   newestEi, ltiRing, sweeperNext, sweepSeq, oldSweepSeq,
                   attemptVars, claimVars>>

(* SUBSCRIBE_FULL: the count is taken back.                                *)
RefuseConsumer(c) ==
    /\ cpc[c] = "full"
    /\ Cf' = Cf - 1
    /\ Goto(c, "off")
    /\ UNCHANGED <<Wt, Reqs_c, rootVars, statVars, ringVars, ret, at, viewVars,
                   attemptVars, claimVars>>

(* A round samples the tail ...                                            *)
ProbeTail(c) ==
    /\ cpc[c] = "probe"
    /\ probe' = Set(probe, c, Epoch(Wt))
    /\ Goto(c, "pin")
    /\ UNCHANGED <<farmVars, ret, at, viewVars, subs, round, candFresh,
                   seqtRead, sqRead, claimVars>>

(* Add a Sub on slot k unless this attempt has one.                        *)
Pin(c, k) ==
    /\ Sub' = [Sub EXCEPT ![k] = IF k \in subs[c] THEN @ ELSE @ + 1]
    /\ subs' = Set(subs, c, subs[c] \cup {k})

Unpin(c, k) ==
    /\ Sub' = [Sub EXCEPT ![k] = @ - 1]
    /\ subs' = Set(subs, c, subs[c] \ {k})

(* Variant of WindowStart: the scan looks at the newest epoch only.        *)
WindowNewest(e) == e

(* The oldest epoch whose slot a tail in epoch e has not lapped.           *)
WindowStart(e) == IF e + 1 > K THEN e + 1 - K ELSE 0

(* ... holds the newest slot, and scans the window oldest first.           *)
PinTail(c) ==
    /\ cpc[c] = "pin"
    /\ Pin(c, Slot(probe[c]))
    /\ at' = Set(at, c, WindowStart(probe[c]))
    /\ Goto(c, "hint")
    /\ UNCHANGED <<tailVars, Live, Count, Lt, statVars, ringVars, ret, viewVars,
                   round, probe, candFresh, seqtRead, sqRead, claimVars>>

(* The round ends without a candidate; the attempt has K + 2 of them.      *)
NextRound(c) ==
    /\ round' = Set(round, c, round[c] + 1)
    /\ Goto(c, IF round[c] + 1 < K + 2 THEN "probe" ELSE "retry")
    /\ at' = Set(at, c, 0)
    /\ probe' = Set(probe, c, 0)
    /\ candFresh' = Set(candFresh, c, FALSE)
    /\ seqtRead' = Set(seqtRead, c, 0)
    /\ sqRead' = Set(sqRead, c, 0)

(* The scan goes on to the next window epoch.                              *)
ScanOn(c) ==
    IF at[c] < probe[c]
    THEN /\ at' = Set(at, c, at[c] + 1)
         /\ candFresh' = Set(candFresh, c, FALSE)
         /\ Goto(c, "hint")
         /\ UNCHANGED <<round, probe, seqtRead, sqRead>>
    ELSE NextRound(c)

(* The first liveAt is a hint that decides whether to pin; it is one step, *)
(* the second one, which counts, is two.                                   *)
Hint(c) ==
    /\ cpc[c] = "hint"
    /\ IF Es[Slot(at[c])] = at[c] /\ Live[Slot(at[c])]
       THEN Goto(c, "pinCand") /\ UNCHANGED scanVars
       ELSE ScanOn(c)
    /\ UNCHANGED <<farmVars, ret, viewVars, subs, claimVars>>

PinCandidate(c) ==
    /\ cpc[c] = "pinCand"
    /\ candFresh' = Set(candFresh, c, Slot(at[c]) \notin subs[c])
    /\ Pin(c, Slot(at[c]))
    /\ Goto(c, "candEs")
    /\ UNCHANGED <<tailVars, Live, Count, Lt, statVars, ringVars, ret, at,
                   viewVars, round, probe, seqtRead, sqRead, claimVars>>

(* The candidate is no longer what the hint said.                          *)
DropCandidate(c) ==
    IF candFresh[c]
    THEN Goto(c, "unpinCand") /\ UNCHANGED scanVars
    ELSE ScanOn(c)

(* liveAt again, under the candidate's Sub.                                *)
CandidateEs(c) ==
    /\ cpc[c] = "candEs"
    /\ IF Es[Slot(at[c])] = at[c]
       THEN Goto(c, "candRt") /\ UNCHANGED scanVars
       ELSE DropCandidate(c)
    /\ UNCHANGED <<farmVars, ret, viewVars, subs, claimVars>>

CandidateRt(c) ==
    /\ cpc[c] = "candRt"
    /\ IF Live[Slot(at[c])]
       THEN Goto(c, "valEs") /\ UNCHANGED scanVars
       ELSE DropCandidate(c)
    /\ UNCHANGED <<farmVars, ret, viewVars, subs, claimVars>>

(* Validation failed: the round ends, after the candidate's own Sub.       *)
Invalid(c) ==
    IF candFresh[c]
    THEN Goto(c, "unpinInvalid") /\ UNCHANGED scanVars
    ELSE NextRound(c)

UnpinCandidate(c) ==
    /\ cpc[c] \in {"unpinCand", "unpinInvalid"}
    /\ Unpin(c, Slot(at[c]))
    /\ IF cpc[c] = "unpinCand" THEN ScanOn(c) ELSE NextRound(c)
    /\ UNCHANGED <<tailVars, Live, Count, Lt, statVars, ringVars, ret, viewVars,
                   claimVars>>

(* The validation loads: Es, then Seqt and SqCs, then Wt, then the Es of   *)
(* the epoch that Seqt lies in.                                            *)
ValidateEs(c) ==
    /\ cpc[c] = "valEs"
    /\ IF Es[Slot(at[c])] = at[c]
       THEN Goto(c, "valSeqt") /\ UNCHANGED scanVars
       ELSE Invalid(c)
    /\ UNCHANGED <<farmVars, ret, viewVars, subs, claimVars>>

ValidateSeqt(c) ==
    /\ cpc[c] = "valSeqt"
    /\ LET k == Slot(at[c]) IN
       IF SqCs[k] # 0 /\ Epoch(Seqt[k]) \in at[c] .. at[c] + K - 1
       THEN /\ seqtRead' = Set(seqtRead, c, Seqt[k])
            /\ sqRead' = Set(sqRead, c, SqCs[k])
            /\ Goto(c, "valWt")
            /\ UNCHANGED <<at, round, probe, candFresh>>
       ELSE Invalid(c)
    /\ UNCHANGED <<farmVars, ret, viewVars, subs, claimVars>>

ValidateWt(c) ==
    /\ cpc[c] = "valWt"
    /\ IF Epoch(Wt) < at[c] + K
       THEN /\ Goto(c, IF Epoch(seqtRead[c]) > at[c] THEN "valNext" ELSE "subLeaf")
            /\ UNCHANGED scanVars
       ELSE Invalid(c)
    /\ UNCHANGED <<farmVars, ret, viewVars, subs, claimVars>>

ValidateNext(c) ==
    /\ cpc[c] = "valNext"
    /\ LET e == Epoch(seqtRead[c]) IN
       IF Es[Slot(e)] = e
       THEN Goto(c, "subLeaf") /\ UNCHANGED scanVars
       ELSE Invalid(c)
    /\ UNCHANGED <<farmVars, ret, viewVars, subs, claimVars>>

(* incLeaf on leaf l of slot k: the fetch-add of the leaf; a 0 -> 1 edge   *)
(* goes on to the root.                                                    *)
IncLeaf(c, k, l, edge, noEdge) ==
    /\ Lt' = [Lt EXCEPT ![k][l] = @ + 1]
    /\ ltiRing' = [ltiRing EXCEPT ![c][k] = l]
    /\ Goto(c, IF Lt[k][l] = 0 THEN edge ELSE noEdge)
TakeRootCount(k) == Count' = [Count EXCEPT ![k] = @ + 1]

Attach(c) ==
    /\ cpc[c] = "subLeaf"
    /\ IncLeaf(c, Slot(at[c]), IDc[c] % sqRead[c], "subRoot", "unpinAll")
    /\ nextSeq' = Set(nextSeq, c, seqtRead[c])
    /\ oldestEi' = Set(oldestEi, c, at[c])
    /\ newestEi' = Set(newestEi, c, at[c])
    /\ UNCHANGED <<tailVars, Live, Sub, Count, statVars, ringVars, ret, at, IDc,
                   sweeperNext, sweepSeq, oldSweepSeq, attemptVars, claimVars>>

AttachRoot(c) ==
    /\ cpc[c] = "subRoot"
    /\ TakeRootCount(Slot(at[c]))
    /\ Goto(c, "unpinAll")
    /\ UNCHANGED <<tailVars, Live, Sub, Lt, statVars, ringVars, ret, at, viewVars,
                   attemptVars, claimVars>>

(* Drop every Sub, one fetch-sub at a time, lowest slot first.             *)
LowestSub(c) == CHOOSE k \in subs[c] : \A j \in subs[c] : k <= j
UnpinAll(c) ==
    /\ cpc[c] \in {"unpinAll", "retry"}
    /\ subs[c] # {}
    /\ Unpin(c, LowestSub(c))
    /\ UNCHANGED <<tailVars, Live, Count, Lt, statVars, ringVars, cpc, ret, at,
                   viewVars, round, probe, candFresh, seqtRead, sqRead, claimVars>>

ForgetAttempt(c) ==
    /\ round' = Set(round, c, 0)
    /\ probe' = Set(probe, c, 0)
    /\ at' = Set(at, c, 0)
    /\ candFresh' = Set(candFresh, c, FALSE)
    /\ seqtRead' = Set(seqtRead, c, 0)
    /\ sqRead' = Set(sqRead, c, 0)

Subscribed(c) ==
    /\ cpc[c] = "unpinAll"
    /\ subs[c] = {}
    /\ ForgetAttempt(c)
    /\ Goto(c, "ready")
    /\ UNCHANGED <<farmVars, ret, viewVars, subs, claimVars>>

(* SUBSCRIBE_RETRY: sub_consumer.  subscribe tries again at once; a caller *)
(* of subscribeOnce may not.                                               *)
RetrySubscribe(c) ==
    /\ cpc[c] = "retry"
    /\ subs[c] = {}
    /\ Cf' = Cf - 1
    /\ ForgetAttempt(c)
    /\ Goto(c, "off")
    /\ UNCHANGED <<Wt, Reqs_c, rootVars, statVars, ringVars, ret, viewVars,
                   subs, claimVars>>

SubscriberNext(c) ==
    \/ CountConsumer(c) \/ RefuseConsumer(c) \/ ProbeTail(c)
    \/ PinTail(c) \/ Hint(c) \/ PinCandidate(c)
    \/ CandidateEs(c) \/ CandidateRt(c) \/ UnpinCandidate(c) \/ ValidateEs(c)
    \/ ValidateSeqt(c) \/ ValidateWt(c) \/ ValidateNext(c) \/ Attach(c)
    \/ AttachRoot(c) \/ UnpinAll(c) \/ Subscribed(c) \/ RetrySubscribe(c)
=============================================================================
