--------------------------- MODULE AntFarm_proofs ---------------------------
(***************************************************************************)
(* Theorems about a Farm of any geometry, with any producers, quotas and   *)
(* consumers: type correctness, and the bound on admitted views.           *)
(* Then the first half of the quota argument: the invariant that keeps a   *)
(* table's space and its segment from being given away before all of its   *)
(* runs are done, and the proof that every step of a producer preserves    *)
(* it, whatever the views do meanwhile.  FarmViews_proofs has the steps of *)
(* the views and the theorems.                                             *)
(***************************************************************************)
EXTENDS AntFarm, FiniteSetTheorems, TLAPS

-----------------------------------------------------------------------------
(* Arithmetic of the ring.                                                 *)

LEMMA Sizes ==
    /\ Lap \in Nat \ {0} /\ K \in Nat \ {0, 1} /\ MaxLeaves \in Nat \ {0}
    /\ Quota \in [Producers -> 1 .. Lap]
  BY GeometryAssumption, ConsumerAssumption, QuotaAssumption DEF Lap

LEMMA RingArithmetic ==
    /\ \A n \in Nat : Slot(n) \in Slots /\ Idx(n) \in Indices /\ Epoch(n) \in Nat
    /\ \A n \in Nat : WindowStart(n) \in Nat
    /\ \A a \in Nat, n \in 1 .. MaxLeaves : a % n \in Leaves
<1>1. Lap \in Nat \ {0}
  BY Sizes
<1>2. ASSUME NEW n \in Nat
      PROVE  Slot(n) \in Slots /\ Idx(n) \in Indices /\ Epoch(n) \in Nat
  BY <1>1, GeometryAssumption DEF Slot, Slots, Idx, Indices, Epoch
<1>3. \A n \in Nat : WindowStart(n) \in Nat
  BY GeometryAssumption DEF WindowStart
<1>4. \A a \in Nat, n \in 1 .. MaxLeaves : a % n \in Leaves
  BY ConsumerAssumption DEF Leaves
<1>5. QED
  BY <1>2, <1>3, <1>4

LEMMA ExmaxIsNat == Exmax \in Nat
<1>1. IsFiniteSet(1 .. Lap)
  BY FS_Interval, Sizes
<1>2. IsFiniteSet(Producers \X (1 .. Lap))
  BY <1>1, FS_Product, QuotaAssumption
<1>3. Units(Quota) \in SUBSET (Producers \X (1 .. Lap))
  BY DEF Units
<1>4. IsFiniteSet(Units(Quota))
  BY <1>2, <1>3, FS_Subset
<1>5. QED
  BY <1>4, FS_CardinalityType DEF Exmax, Total

(* A sweep that has not granted yet has not passed K - 1 slots.            *)
LEMMA SweepIsShort ==
    ASSUME NEW n \in Nat, ~Enough(n)
    PROVE  n <= K - 1
<1>1. n * SegCap < (K - 1) * SegCap
  BY ExmaxIsNat, QuotaAssumption, GeometryAssumption DEF Enough
<1>2. QED
  BY <1>1, GeometryAssumption

-----------------------------------------------------------------------------
(* The inductive invariant.                                                *)

(* A table fits the quota it is charged to.                                *)
SizesFit ==
    \A p \in Producers :
        /\ ppc[p] = "sweep" => size[p] \in 1 .. Quota[p]
        /\ ppc[p] = "reserve" => size[p] \in 1 .. quotaLeft[p]

(* Subscription: the round is one of K + 2 until they are used up, and a   *)
(* shard count that passed validation is not zero.                         *)
AttemptsSound ==
    \A c \in Consumers :
        /\ cpc[c] # "retry" => round[c] < K + 2
        /\ cpc[c] \in {"valWt", "valNext", "subLeaf"} => sqRead[c] # 0

(* Where a view is while it drops its last references, and only then.      *)
LeavingPhases == {"leaving", "clear", "decLeaf", "decRoot"}
LeavingSound ==
    \A c \in Consumers :
        /\ ret[c] = "leaving" => cpc[c] \in LeavingPhases
        /\ cpc[c] = "leaving" => ret[c] = "leaving"

(* Cf counts the views between their fetch-add and their fetch-sub.        *)
Counted == {c \in Consumers : cpc[c] # "off" /\ ret[c] # "leaving"}
CountSound == Cf = Cardinality(Counted)

(* IDc is a value the subscription counter had.                            *)
CounterSound == Reqs_c < IdMod

TypeInv ==
    /\ TypeOK
    /\ SizesFit
    /\ AttemptsSound
    /\ LeavingSound
    /\ CountSound
    /\ CounterSound

LEMMA CountedFinite ==
    /\ IsFiniteSet(Consumers) /\ Cardinality(Consumers) \in Nat
    /\ IsFiniteSet(Counted) /\ Cardinality(Counted) \in Nat
    /\ Cardinality(Counted) <= Cardinality(Consumers)
<1>1. Counted \in SUBSET Consumers
  BY DEF Counted
<1>2. QED
  BY <1>1, ConsumerAssumption, FS_Subset, FS_CardinalityType

(* The shard counts that writers and subscribers meet.                     *)
LEMMA CountBounds ==
    ASSUME CountSound
    PROVE  /\ Cf \in 0 .. Cardinality(Consumers)
           /\ SqcsOf[Larger(Cf, 1)] \in 1 .. MaxLeaves
           /\ \A c \in Counted : Cf >= 1
<1>1. Cf \in 0 .. Cardinality(Consumers)
  BY CountedFinite DEF CountSound
<1>2. Larger(Cf, 1) \in 1 .. MaxConsumers + Cardinality(Consumers)
  BY <1>1, ConsumerAssumption, CountedFinite DEF Larger
<1>3. ASSUME NEW c \in Counted PROVE Cf >= 1
  <2>1. Cardinality(Counted) # 0
    BY CountedFinite, FS_EmptySet, <1>3
  <2>2. QED
    BY <2>1, CountedFinite DEF CountSound
<1>4. QED
  BY <1>1, <1>2, <1>3, ConsumerAssumption

(* One step moves at most one view in or out of Counted, with Cf.          *)
LEMMA CountStep ==
    ASSUME CountSound, NEW c \in Consumers,
           \A d \in Consumers \ {c} : cpc'[d] = cpc[d] /\ ret'[d] = ret[d],
           \/ Cf' = Cf /\ (c \in Counted' <=> c \in Counted)
           \/ Cf' = Cf + 1 /\ c \notin Counted /\ c \in Counted'
           \/ Cf' = Cf - 1 /\ c \in Counted /\ c \notin Counted'
    PROVE  CountSound'
<1>1. CASE Cf' = Cf /\ (c \in Counted' <=> c \in Counted)
  <2>1. Counted' = Counted
    BY <1>1 DEF Counted
  <2>2. QED
    BY <1>1, <2>1 DEF CountSound
<1>2. CASE Cf' = Cf + 1 /\ c \notin Counted /\ c \in Counted'
  <2>1. Counted' = Counted \cup {c}
    BY <1>2 DEF Counted
  <2>2. QED
    BY <1>2, <2>1, CountedFinite, FS_AddElement DEF CountSound
<1>3. CASE Cf' = Cf - 1 /\ c \in Counted /\ c \notin Counted'
  <2>1. Counted' = Counted \ {c}
    BY <1>3 DEF Counted
  <2>2. QED
    BY <1>3, <2>1, CountedFinite, FS_RemoveElement DEF CountSound
<1>4. QED
  BY <1>1, <1>2, <1>3

-----------------------------------------------------------------------------
LEMMA UpdateType ==
    ASSUME NEW S, NEW T, NEW f \in [S -> T], NEW x, NEW v \in T
    PROVE  [f EXCEPT ![x] = v] \in [S -> T]
  OBVIOUS

LEMMA TallyType ==
    ASSUME NEW S, NEW f \in [S -> Int], NEW x
    PROVE  /\ [f EXCEPT ![x] = @ + 1] \in [S -> Int]
           /\ [f EXCEPT ![x] = @ - 1] \in [S -> Int]
<1>1. ASSUME NEW j \in S
      PROVE  /\ [f EXCEPT ![x] = @ + 1][j] \in Int
             /\ [f EXCEPT ![x] = @ - 1][j] \in Int
  <2>1. CASE j = x
    BY <2>1
  <2>2. CASE j # x
    BY <2>2
  <2>3. QED
    BY <2>1, <2>2
<1>2. QED
  BY <1>1

LEMMA IncrementType ==
    ASSUME NEW S, NEW f \in [S -> Nat], NEW x
    PROVE  [f EXCEPT ![x] = @ + 1] \in [S -> Nat]
<1>1. ASSUME NEW j \in S PROVE [f EXCEPT ![x] = @ + 1][j] \in Nat
  <2>1. CASE j = x
    BY <2>1
  <2>2. CASE j # x
    BY <2>2
  <2>3. QED
    BY <2>1, <2>2
<1>2. QED
  BY <1>1

LEMMA LeafTallyType ==
    ASSUME NEW S, NEW T, NEW f \in [S -> [T -> Int]], NEW x, NEW y
    PROVE  /\ [f EXCEPT ![x][y] = @ + 1] \in [S -> [T -> Int]]
           /\ [f EXCEPT ![x][y] = @ - 1] \in [S -> [T -> Int]]
<1>1. ASSUME NEW j \in S
      PROVE  /\ [f EXCEPT ![x][y] = @ + 1][j] \in [T -> Int]
             /\ [f EXCEPT ![x][y] = @ - 1][j] \in [T -> Int]
  <2>1. CASE j = x
    <3>1. /\ [f[x] EXCEPT ![y] = @ + 1] \in [T -> Int]
          /\ [f[x] EXCEPT ![y] = @ - 1] \in [T -> Int]
      BY <2>1, TallyType
    <3>2. QED
      BY <2>1, <3>1
  <2>2. CASE j # x
    BY <2>2
  <2>3. QED
    BY <2>1, <2>2
<1>2. QED
  BY <1>1

LEMMA InitTypeInv == Init => TypeInv
<1> SUFFICES ASSUME Init PROVE TypeInv
  OBVIOUS
<1> USE GeometryAssumption, Sizes
<1>1. FarmTypeOK
  <2>1. MaxLeaves \in Nat /\ SqcsOf[1] \in 0 .. MaxLeaves
    BY ConsumerAssumption, CountedFinite
  <2>2. /\ Wt \in Nat /\ Cf \in Nat /\ Reqs_c \in Nat
        /\ Sub \in [Slots -> Int] /\ Count \in [Slots -> Int]
        /\ Lt \in [Slots -> [Leaves -> Int]]
    BY DEF Init, FarmInit
  <2>3. /\ Live \in [Slots -> BOOLEAN]
        /\ Tprogress \in [Indices -> BOOLEAN]
    BY DEF Init, FarmInit
  <2>4. /\ Es \in [Slots -> Int] /\ Seqt \in [Slots -> Nat]
        /\ SqCs \in [Slots -> 0 .. MaxLeaves] /\ Sd \in [Slots -> Int]
    BY <2>1 DEF Init, FarmInit
  <2>5. /\ Tsent \in [Indices -> Int] /\ Tnext \in [Indices -> Nat]
        /\ Tclaims \in [Indices -> Nat] /\ Tcomps \in [Indices -> Nat]
    BY DEF Init, FarmInit, NoSeq
  <2>6. Tsq \in [Indices -> 0 .. MaxLeaves]
    BY ConsumerAssumption DEF Init, FarmInit
  <2>7. QED
    BY <2>2, <2>3, <2>4, <2>5, <2>6
    DEF FarmTypeOK, TailTypeOK, RootTypeOK, StatTypeOK, RingTypeOK
<1>2. ProducerTypeOK
  BY ConsumerAssumption DEF Init, ProducerInit, ProducerTypeOK, PPhases
<1>3. ConsumerTypeOK
  BY ConsumerAssumption, IdAssumption
  DEF Init, ConsumerInit, ConsumerTypeOK, ControlTypeOK, ViewTypeOK,
      AttemptTypeOK, ClaimTypeOK, CPhases, SubscribePhases, Returns,
      Jobs, Leaves
<1>4. SizesFit /\ AttemptsSound /\ LeavingSound
  BY DEF Init, ProducerInit, ConsumerInit, SizesFit, AttemptsSound,
         LeavingSound, LeavingPhases
<1>5. CountSound /\ CounterSound
  <2>1. Counted = {}
    BY DEF Init, ConsumerInit, Counted
  <2>2. QED
    BY <2>1, FS_EmptySet, IdAssumption DEF Init, FarmInit, CountSound, CounterSound
<1>6. QED
  BY <1>1, <1>2, <1>3, <1>4, <1>5 DEF TypeInv, TypeOK
-----------------------------------------------------------------------------
(* The producer's steps.                                                   *)

LEMMA ProducerStep ==
    ASSUME TypeInv, NEW p \in Producers, ProducerNext(p), UNCHANGED consumerVars
    PROVE  TypeInv'
<1> USE DEF TypeInv, TypeOK
<1>1. UNCHANGED <<Cf, Reqs_c>>
  BY DEF ProducerNext, Write, SweepFree, SweepBlocked, Decline, Reserve,
         CheckFresh, InitStats, RaiseLive, PublishEs, StoreTable, PublishTable,
         farmVars, tailVars
<1>2. ConsumerTypeOK' /\ AttemptsSound' /\ LeavingSound' /\ CountSound' /\ CounterSound'
  <2>1. /\ UNCHANGED <<cpc, ret, job, at>>
        /\ UNCHANGED <<IDc, nextSeq, oldestEi, newestEi, ltiRing, sweeperNext,
                       sweepSeq, oldSweepSeq>>
        /\ UNCHANGED <<subs, round, probe, candFresh, seqtRead, sqRead>>
        /\ UNCHANGED <<tseq, ownClaims, firstClaimant, drained>>
    BY DEF consumerVars, viewVars, attemptVars, claimVars
  <2>2. ConsumerTypeOK'
    BY <2>1 DEF ConsumerTypeOK, ControlTypeOK, ViewTypeOK, AttemptTypeOK, ClaimTypeOK
  <2>3. AttemptsSound' /\ LeavingSound'
    BY <2>1 DEF AttemptsSound, LeavingSound
  <2>4. Counted' = Counted
    BY <2>1 DEF Counted
  <2>5. QED
    BY <1>1, <2>2, <2>3, <2>4 DEF CountSound, CounterSound
<1>3. FarmTypeOK' /\ ProducerTypeOK' /\ SizesFit'
  <2> USE DEF FarmTypeOK
  <2>1. CASE Write(p)
    <3> USE DEF Write, Fits
    <3>1. RootTypeOK' /\ StatTypeOK' /\ RingTypeOK' /\ TailTypeOK'
      BY <2>1 DEF farmVars, tailVars, TailTypeOK, rootVars, RootTypeOK, statVars,
                  StatTypeOK, ringVars, RingTypeOK
    <3>2. SqcsOf[Larger(Cf, 1)] \in 0 .. MaxLeaves
      BY CountBounds, Sizes
    <3>3. PICK n \in 1 .. Quota[p] :
            /\ size' = [size EXCEPT ![p] = n]
            /\ sq' = [sq EXCEPT ![p] = SqcsOf[Larger(Cf, 1)]]
            /\ IF n <= quotaLeft[p]
               THEN Become(p, "reserve") /\ UNCHANGED anchor
               ELSE Become(p, "sweep") /\ anchor' = [anchor EXCEPT ![p] = Wt]
      BY <2>1
    <3>4. n \in 0 .. Lap
      BY Sizes
    <3>5. ppc' \in [Producers -> PPhases] /\ anchor' \in [Producers -> Nat]
      BY <3>3 DEF ProducerTypeOK, TailTypeOK, PPhases, Become
    <3>6. ProducerTypeOK'
      BY <2>1, <3>2, <3>3, <3>4, <3>5, Sizes DEF ProducerTypeOK
    <3>7. SizesFit'
      BY <2>1, <3>3, Sizes DEF ProducerTypeOK, SizesFit, Become
    <3>8. QED
      BY <3>1, <3>6, <3>7
  <2>2. CASE SweepFree(p)
    <3> USE DEF SweepFree
    <3>a. ~Enough(swept[p] + 1) => swept[p] + 1 <= K - 1
      BY SweepIsShort, Sizes DEF ProducerTypeOK
    <3>1. TailTypeOK' /\ RootTypeOK' /\ StatTypeOK' /\ RingTypeOK'
      BY <2>2 DEF farmVars, tailVars, TailTypeOK, rootVars, RootTypeOK, statVars, StatTypeOK, ringVars, RingTypeOK
    <3>2. ProducerTypeOK'
      BY <2>2, <3>a, Sizes
      DEF ProducerTypeOK, TailTypeOK, SizesFit, PPhases, Become, Return
    <3>3. SizesFit'
      BY <2>2, <3>a, Sizes
      DEF ProducerTypeOK, TailTypeOK, SizesFit, PPhases, Become, Return
    <3>4. QED
      BY <3>1, <3>2, <3>3
  <2>3. CASE SweepBlocked(p)
    <3> USE DEF SweepBlocked
    <3>1. TailTypeOK' /\ RootTypeOK' /\ StatTypeOK' /\ RingTypeOK'
      BY <2>3 DEF farmVars, tailVars, TailTypeOK, rootVars, RootTypeOK, statVars, StatTypeOK, ringVars, RingTypeOK
    <3>2. ProducerTypeOK'
      BY <2>3, Sizes
      DEF ProducerTypeOK, TailTypeOK, SizesFit, PPhases, Become, Return
    <3>3. SizesFit'
      BY <2>3, Sizes
      DEF ProducerTypeOK, TailTypeOK, SizesFit, PPhases, Become, Return
    <3>4. QED
      BY <3>1, <3>2, <3>3
  <2>4. CASE Decline(p)
    <3> USE DEF Decline
    <3>1. TailTypeOK' /\ RootTypeOK' /\ StatTypeOK' /\ RingTypeOK'
      BY <2>4 DEF farmVars, tailVars, TailTypeOK, rootVars, RootTypeOK, statVars, StatTypeOK, ringVars, RingTypeOK
    <3>2. ProducerTypeOK'
      BY <2>4, Sizes
      DEF ProducerTypeOK, TailTypeOK, SizesFit, PPhases, Become, Return
    <3>3. SizesFit'
      BY <2>4, Sizes
      DEF ProducerTypeOK, TailTypeOK, SizesFit, PPhases, Become, Return
    <3>4. QED
      BY <3>1, <3>2, <3>3
  <2>5. CASE Reserve(p)
    <3> USE DEF Reserve
    <3>a. Epoch(Wt) \in Nat
      BY RingArithmetic DEF TailTypeOK
    <3>1. RootTypeOK' /\ StatTypeOK' /\ RingTypeOK'
      BY <2>5 DEF farmVars, rootVars, RootTypeOK, statVars, StatTypeOK, ringVars, RingTypeOK
    <3>2. TailTypeOK'
      BY <2>5 DEF TailTypeOK, ProducerTypeOK, tailVars
    <3>3. ProducerTypeOK'
      BY <2>5, <3>a, Sizes
      DEF ProducerTypeOK, TailTypeOK, SizesFit, PPhases, Become, Return
    <3>4. SizesFit'
      BY <2>5, <3>a, Sizes
      DEF ProducerTypeOK, TailTypeOK, SizesFit, PPhases, Become, Return
    <3>5. QED
      BY <3>1, <3>2, <3>3, <3>4
  <2>6. CASE CheckFresh(p)
    <3> USE DEF CheckFresh
    <3>a. Epoch(wret[p]) \in Nat
      BY RingArithmetic DEF ProducerTypeOK
    <3>1. TailTypeOK' /\ RootTypeOK' /\ StatTypeOK' /\ RingTypeOK'
      BY <2>6 DEF farmVars, tailVars, TailTypeOK, rootVars, RootTypeOK, statVars, StatTypeOK, ringVars, RingTypeOK
    <3>2. ProducerTypeOK'
      BY <2>6, <3>a, Sizes
      DEF ProducerTypeOK, TailTypeOK, SizesFit, PPhases, Become, Return
    <3>3. SizesFit'
      BY <2>6, <3>a, Sizes
      DEF ProducerTypeOK, TailTypeOK, SizesFit, PPhases, Become, Return
    <3>4. QED
      BY <3>1, <3>2, <3>3
  <2>7. CASE InitStats(p)
    <3> USE DEF InitStats
    <3>1. TailTypeOK' /\ RootTypeOK' /\ RingTypeOK'
      BY <2>7 DEF farmVars, tailVars, TailTypeOK, rootVars, RootTypeOK, ringVars, RingTypeOK
    <3>2. StatTypeOK'
      <4>1. wtprime(p) \in Nat /\ sq[p] \in 0 .. MaxLeaves
        BY Sizes DEF ProducerTypeOK, wtprime
      <4>2. Seqt' \in [Slots -> Nat]
        BY <2>7, <4>1 DEF StatTypeOK
      <4>3. SqCs' \in [Slots -> 0 .. MaxLeaves]
        BY <2>7, <4>1 DEF StatTypeOK
      <4>4. Sd' \in [Slots -> Int]
        <5>1. Sd' = [Sd EXCEPT ![Slot(fresh[p])] = 0] /\ Sd \in [Slots -> Int]
          BY <2>7 DEF StatTypeOK
        <5>2. 0 \in Int
          OBVIOUS
        <5>3. QED
          BY <5>1, <5>2, UpdateType
      <4>5. Es' \in [Slots -> Int]
        BY <2>7 DEF StatTypeOK
      <4>6. QED
        BY <4>2, <4>3, <4>4, <4>5 DEF StatTypeOK
    <3>3. ProducerTypeOK'
      BY <2>7, Sizes
      DEF ProducerTypeOK, TailTypeOK, SizesFit, PPhases, Become, Return
    <3>4. SizesFit'
      BY <2>7, Sizes
      DEF ProducerTypeOK, TailTypeOK, SizesFit, PPhases, Become, Return
    <3>5. QED
      BY <3>1, <3>2, <3>3, <3>4
  <2>8. CASE RaiseLive(p)
    <3> USE DEF RaiseLive
    <3>1. TailTypeOK' /\ StatTypeOK' /\ RingTypeOK'
      BY <2>8 DEF farmVars, tailVars, TailTypeOK, statVars, StatTypeOK, ringVars, RingTypeOK
    <3>2. RootTypeOK'
      BY <2>8, RingArithmetic DEF RootTypeOK, TailTypeOK, ProducerTypeOK, rootVars
    <3>3. ProducerTypeOK'
      BY <2>8, Sizes
      DEF ProducerTypeOK, TailTypeOK, SizesFit, PPhases, Become, Return
    <3>4. SizesFit'
      BY <2>8, Sizes
      DEF ProducerTypeOK, TailTypeOK, SizesFit, PPhases, Become, Return
    <3>5. QED
      BY <3>1, <3>2, <3>3, <3>4
  <2>9. CASE PublishEs(p)
    <3> USE DEF PublishEs
    <3>1. TailTypeOK' /\ RootTypeOK' /\ RingTypeOK'
      BY <2>9 DEF farmVars, tailVars, TailTypeOK, rootVars, RootTypeOK, ringVars, RingTypeOK
    <3>2. StatTypeOK'
      <4>1. fresh[p] \in Int
        BY DEF ProducerTypeOK
      <4>2. Es' \in [Slots -> Int]
        BY <2>9, <4>1 DEF StatTypeOK
      <4>3. QED
        BY <2>9, <4>2 DEF StatTypeOK
    <3>3. ProducerTypeOK'
      BY <2>9, Sizes
      DEF ProducerTypeOK, TailTypeOK, SizesFit, PPhases, Become, Return
    <3>4. SizesFit'
      BY <2>9, Sizes
      DEF ProducerTypeOK, TailTypeOK, SizesFit, PPhases, Become, Return
    <3>5. QED
      BY <3>1, <3>2, <3>3, <3>4
  <2>10. CASE StoreTable(p)
    <3> USE DEF StoreTable
    <3>1. TailTypeOK' /\ RootTypeOK' /\ StatTypeOK'
      BY <2>10 DEF farmVars, tailVars, TailTypeOK, rootVars, RootTypeOK, statVars, StatTypeOK
    <3>2. RingTypeOK'
      <4>1. wtprime(p) \in Nat
        BY Sizes DEF ProducerTypeOK, wtprime
      <4>2. Tsent' \in [Indices -> Int]
        BY <2>10 DEF RingTypeOK, NoSeq
      <4>3. Tnext' \in [Indices -> Nat]
        BY <2>10, <4>1 DEF RingTypeOK
      <4>4. Tclaims' \in [Indices -> Nat] /\ Tcomps' \in [Indices -> Nat]
        BY <2>10 DEF RingTypeOK
      <4>5. Tprogress' \in [Indices -> BOOLEAN]
        BY <2>10 DEF RingTypeOK
      <4>6. Tsq' \in [Indices -> 0 .. MaxLeaves]
        BY <2>10, Sizes DEF RingTypeOK, ProducerTypeOK
      <4>7. QED
        BY <4>2, <4>3, <4>4, <4>5, <4>6 DEF RingTypeOK
    <3>3. ProducerTypeOK'
      BY <2>10, Sizes
      DEF ProducerTypeOK, TailTypeOK, SizesFit, PPhases, Become, Return
    <3>4. SizesFit'
      BY <2>10, Sizes
      DEF ProducerTypeOK, TailTypeOK, SizesFit, PPhases, Become, Return
    <3>5. QED
      BY <3>1, <3>2, <3>3, <3>4
  <2>11. CASE PublishTable(p)
    <3> USE DEF PublishTable
    <3>1. TailTypeOK' /\ RootTypeOK' /\ StatTypeOK'
      BY <2>11 DEF farmVars, tailVars, TailTypeOK, rootVars, RootTypeOK, statVars, StatTypeOK
    <3>2. RingTypeOK'
      <4>1. wret[p] \in Int
        BY DEF ProducerTypeOK
      <4>2. Tsent' \in [Indices -> Int]
        BY <2>11, <4>1 DEF RingTypeOK
      <4>3. QED
        BY <2>11, <4>2 DEF RingTypeOK
    <3>3. ProducerTypeOK'
      BY <2>11, Sizes
      DEF ProducerTypeOK, TailTypeOK, SizesFit, PPhases, Become, Return
    <3>4. SizesFit'
      BY <2>11, Sizes
      DEF ProducerTypeOK, TailTypeOK, SizesFit, PPhases, Become, Return
    <3>5. QED
      BY <3>1, <3>2, <3>3, <3>4
  <2>12. QED
    BY <2>1, <2>2, <2>3, <2>4, <2>5, <2>6, <2>7, <2>8, <2>9, <2>10, <2>11 DEF ProducerNext
<1>4. QED
  BY <1>2, <1>3
-----------------------------------------------------------------------------
(* The consumer's steps, one group of variables at a time.                 *)

LEMMA ConsumerTail ==
    ASSUME TypeInv, NEW c \in Consumers, ConsumerNext(c)
    PROVE  /\ Wt' \in Nat /\ Reqs_c' \in Nat
           /\ CounterSound'
<1> USE DEF TypeInv, TypeOK, FarmTypeOK, TailTypeOK, CounterSound
<1>1. CASE CountConsumer(c)
  <2>1. (Reqs_c + 1) % IdMod \in 0 .. IdMod - 1
    BY IdAssumption
  <2>2. Wt' = Wt /\ (Reqs_c' = Reqs_c \/ Reqs_c' = (Reqs_c + 1) % IdMod)
    BY <1>1 DEF CountConsumer
  <2>3. QED
    BY <2>1, <2>2, IdAssumption
<1>2. CASE UNCHANGED <<Wt, Reqs_c>>
  BY <1>2
<1>3. CASE SubscriberNext(c)
  BY <1>1, <1>2, <1>3
  DEF SubscriberNext, RefuseConsumer, ProbeTail, PinTail, Hint, PinCandidate,
      CandidateEs, CandidateRt, UnpinCandidate, ValidateEs, ValidateSeqt,
      ValidateWt, ValidateNext, Attach, AttachRoot, UnpinAll, Subscribed,
      RetrySubscribe, farmVars, tailVars
<1>4. CASE ViewNext(c) \/ Unsubscribe(c)
  BY <1>2, <1>4
  DEF ViewNext, Poll, MoveLeaf, MoveRoot, Visit, Migrate, Release, ClearLive,
      DecLeaf, DecRoot, Leave, LeaveEpoch, Left, SweepOldest, SweepPosition,
      Walk, EndWalk, Claim, Complete, Progress, Account, Yield, Unsubscribe,
      farmVars, tailVars
<1>5. QED
  BY <1>3, <1>4 DEF ConsumerNext

LEMMA ConsumerRoots ==
    ASSUME TypeInv, NEW c \in Consumers, ConsumerNext(c)
    PROVE  RootTypeOK'
<1> USE DEF TypeInv, TypeOK, FarmTypeOK, RootTypeOK
<1>1. CASE UNCHANGED rootVars
  BY <1>1 DEF rootVars
<1>2. CASE UNCHANGED <<Live, Count, Lt>> /\ \E k : Pin(c, k) \/ Unpin(c, k)
  <2>1. PICK k : Pin(c, k) \/ Unpin(c, k)
    BY <1>2
  <2>2. Sub' \in [Slots -> Int]
    BY <2>1 DEF Pin, Unpin
  <2>3. QED
    BY <1>2, <2>2
<1>3. ASSUME UNCHANGED <<Live, Sub, Count>>,
             \E k, l : Lt' \in {[Lt EXCEPT ![k][l] = @ + 1], [Lt EXCEPT ![k][l] = @ - 1]}
      PROVE  RootTypeOK'
  <2>1. PICK k, l : Lt' \in {[Lt EXCEPT ![k][l] = @ + 1], [Lt EXCEPT ![k][l] = @ - 1]}
    BY <1>3
  <2>2. /\ [Lt EXCEPT ![k][l] = @ + 1] \in [Slots -> [Leaves -> Int]]
        /\ [Lt EXCEPT ![k][l] = @ - 1] \in [Slots -> [Leaves -> Int]]
    BY LeafTallyType
  <2>3. Lt' \in [Slots -> [Leaves -> Int]]
    BY <2>1, <2>2
  <2>4. QED
    BY <1>3, <2>3
<1>4. ASSUME UNCHANGED <<Live, Sub, Lt>>,
             \E k : Count' \in {[Count EXCEPT ![k] = @ + 1], [Count EXCEPT ![k] = @ - 1]}
      PROVE  RootTypeOK'
  BY <1>4, TallyType
<1>5. CASE ClearLive(c)
  BY <1>5 DEF ClearLive
<1>6. CASE MoveLeaf(c) \/ DecLeaf(c) \/ Attach(c)
  <2>1. UNCHANGED <<Live, Sub, Count>>
    BY <1>6 DEF MoveLeaf, DecLeaf, Attach
  <2>2. \E k, l : Lt' \in {[Lt EXCEPT ![k][l] = @ + 1], [Lt EXCEPT ![k][l] = @ - 1]}
    BY <1>6 DEF MoveLeaf, DecLeaf, Attach, IncLeaf
  <2>3. QED
    BY <1>3, <2>1, <2>2
<1>7. CASE MoveRoot(c) \/ AttachRoot(c) \/ DecRoot(c)
  <2>1. UNCHANGED <<Live, Sub, Lt>>
    BY <1>7 DEF MoveRoot, AttachRoot, DecRoot
  <2>2. \E k : Count' \in {[Count EXCEPT ![k] = @ + 1], [Count EXCEPT ![k] = @ - 1]}
    BY <1>7 DEF MoveRoot, AttachRoot, DecRoot, TakeRootCount
  <2>3. QED
    BY <1>4, <2>1, <2>2
<1>11. CASE SubscriberNext(c)
  BY <1>1, <1>2, <1>6, <1>7, <1>11
  DEF SubscriberNext, CountConsumer, RefuseConsumer, ProbeTail, PinTail, Hint,
      PinCandidate, CandidateEs, CandidateRt, UnpinCandidate, ValidateEs,
      ValidateSeqt, ValidateWt, ValidateNext, UnpinAll, Subscribed,
      RetrySubscribe, farmVars
<1>12. CASE ViewNext(c) \/ Unsubscribe(c)
  BY <1>1, <1>5, <1>6, <1>7, <1>12
  DEF ViewNext, Poll, Visit, Migrate, Release, Leave, LeaveEpoch, Left,
      SweepOldest, SweepPosition, Walk, EndWalk, Claim, Complete, Progress,
      Account, Yield, Unsubscribe, farmVars
<1>13. QED
  BY <1>11, <1>12 DEF ConsumerNext

LEMMA ConsumerStatsAndRing ==
    ASSUME TypeInv, NEW c \in Consumers, ConsumerNext(c)
    PROVE  StatTypeOK' /\ RingTypeOK'
<1> USE DEF TypeInv, TypeOK, FarmTypeOK
<1>1. CASE UNCHANGED <<statVars, ringVars>>
  BY <1>1 DEF statVars, StatTypeOK, ringVars, RingTypeOK
<1>2. CASE Claim(c)
  <2>1. StatTypeOK'
    BY <1>2 DEF Claim, statVars, StatTypeOK
  <2>2. UNCHANGED <<Tsent, Tnext, Tsq, Tcomps, Tprogress>>
    BY <1>2 DEF Claim
  <2>3. CASE UNCHANGED Tclaims
    BY <2>1, <2>2, <2>3 DEF RingTypeOK
  <2>4. CASE Tclaims' = [Tclaims EXCEPT ![Idx(tseq[c])] = Tclaims[Idx(tseq[c])] + 1]
    <3>1. Tclaims' \in [Indices -> Nat]
      BY <2>4, IncrementType DEF RingTypeOK
    <3>2. QED
      BY <2>1, <2>2, <3>1 DEF RingTypeOK
  <2>5. QED
    BY <1>2, <2>3, <2>4 DEF Claim
<1>3. CASE Complete(c)
  <2>1. Tcomps' = [Tcomps EXCEPT ![Idx(tseq[c])] = @ + 1]
    BY <1>3 DEF Complete
  <2>2. Tcomps' \in [Indices -> Nat]
    BY <2>1, IncrementType DEF RingTypeOK
  <2>3. QED
    BY <1>3, <2>2 DEF Complete, statVars, StatTypeOK, RingTypeOK
<1>4. CASE Progress(c)
  BY <1>4 DEF Progress, statVars, StatTypeOK, RingTypeOK
<1>5. CASE Account(c)
  <2>1. Tnext[Idx(tseq[c])] \in Int /\ tseq[c] \in Int
    BY RingArithmetic DEF RingTypeOK, ConsumerTypeOK, ClaimTypeOK
  <2>2. Sd' \in [Slots -> Int]
    <3>1. Sd[Slot(Epoch(tseq[c]))] + Tnext[Idx(tseq[c])] - tseq[c] \in Int
      BY SMTT(30), <2>1, RingArithmetic DEF StatTypeOK, ConsumerTypeOK, ClaimTypeOK
    <3>2. QED
      BY <1>5, <3>1, UpdateType DEF Account, StatTypeOK
  <2>3. QED
    BY <1>5, <2>2 DEF Account, StatTypeOK, ringVars, RingTypeOK
<1>6. CASE SubscriberNext(c)
  BY <1>1, <1>6
  DEF SubscriberNext, CountConsumer, RefuseConsumer, ProbeTail, PinTail, Hint,
      PinCandidate, CandidateEs, CandidateRt, UnpinCandidate, ValidateEs,
      ValidateSeqt, ValidateWt, ValidateNext, Attach, AttachRoot, UnpinAll,
      Subscribed, RetrySubscribe, farmVars
<1>7. CASE ViewNext(c) \/ Unsubscribe(c)
  BY <1>1, <1>2, <1>3, <1>4, <1>5, <1>7
  DEF ViewNext, Poll, MoveLeaf, MoveRoot, Visit, Migrate, Release, ClearLive,
      DecLeaf, DecRoot, Leave, LeaveEpoch, Left, SweepOldest, SweepPosition,
      Walk, EndWalk, Yield, Unsubscribe, farmVars
<1>8. QED
  BY <1>6, <1>7 DEF ConsumerNext

(* A nudge keeps IDc a counter value.                                     *)
LEMMA FeedbackType ==
    ASSUME NEW c \in Consumers, IDc \in [Consumers -> 0 .. IdMod - 1], Feedback(c)
    PROVE  IDc' \in [Consumers -> 0 .. IdMod - 1]
<1>1. (IDc[c] + 1) % IdMod \in 0 .. IdMod - 1
  <2>1. IDc[c] + 1 \in Nat
    OBVIOUS
  <2>2. QED
    BY <2>1, IdAssumption
<1>2. QED
  BY <1>1 DEF Feedback, Set

LEMMA ConsumerViewFields ==
    ASSUME TypeInv, NEW c \in Consumers, ConsumerNext(c)
    PROVE  ViewTypeOK'
<1> USE DEF TypeInv, TypeOK, ConsumerTypeOK
<1>1. CASE UNCHANGED viewVars
  BY <1>1 DEF viewVars, ViewTypeOK
<1>2. CASE CountConsumer(c)
  <2>1. Reqs_c \in 0 .. IdMod - 1
    BY IdAssumption DEF CounterSound, FarmTypeOK, TailTypeOK
  <2>2. IDc' \in [Consumers -> 0 .. IdMod - 1]
    BY <1>2, <2>1 DEF CountConsumer, ViewTypeOK, Set
  <2>3. QED
    BY <1>2, <2>2 DEF CountConsumer, ViewTypeOK
<1>3. CASE Attach(c)
  <2>1. IDc[c] % sqRead[c] \in Leaves
    <3>1. sqRead[c] \in 1 .. MaxLeaves
      BY <1>3, Sizes DEF Attach, AttemptsSound, AttemptTypeOK
    <3>2. QED
      BY <3>1, RingArithmetic, IdAssumption DEF ViewTypeOK
  <2>2. ltiRing' \in [Consumers -> [Slots -> Leaves]]
    BY <1>3, <2>1 DEF Attach, IncLeaf, ViewTypeOK
  <2>3. /\ nextSeq' \in [Consumers -> Nat]
        /\ oldestEi' \in [Consumers -> Nat]
        /\ newestEi' \in [Consumers -> Nat]
    BY <1>3 DEF Attach, Set, ViewTypeOK, AttemptTypeOK
  <2>4. QED
    BY <1>3, <2>2, <2>3 DEF Attach, ViewTypeOK
<1>4. CASE MoveLeaf(c) \/ MoveRoot(c)
  <2>1. /\ newestEi' \in [Consumers -> Nat]
        /\ sweepSeq' \in [Consumers -> Nat]
    BY SMTT(30), <1>4 DEF MoveLeaf, MoveRoot, Moved, Set, ViewTypeOK, AttemptTypeOK
  <2>2. ltiRing' \in [Consumers -> [Slots -> Leaves]]
    <3>1. CASE MoveLeaf(c)
      <4>1. SqCs[Slot(at[c])] \in 1 .. MaxLeaves
        BY <3>1, RingArithmetic, Sizes
        DEF MoveLeaf, MoveChecks, FarmTypeOK, StatTypeOK, AttemptTypeOK
      <4>2. IDc[c] % SqCs[Slot(at[c])] \in Leaves
        BY <4>1, RingArithmetic, IdAssumption DEF ViewTypeOK
      <4>3. QED
        BY <3>1, <4>2 DEF MoveLeaf, ViewTypeOK
    <3>2. QED
      BY <1>4, <3>1 DEF MoveRoot, ViewTypeOK
  <2>3. UNCHANGED <<IDc, nextSeq, oldestEi, sweeperNext, oldSweepSeq>>
    BY <1>4 DEF MoveLeaf, MoveRoot, pinVars
  <2>4. QED
    BY <2>1, <2>2, <2>3 DEF ViewTypeOK
<1>5. CASE DecLeaf(c) \/ DecRoot(c)
  <2>1. /\ oldestEi' \in {oldestEi, [oldestEi EXCEPT ![c] = oldestEi[c] + 1]}
        /\ oldSweepSeq' \in {oldSweepSeq, [oldSweepSeq EXCEPT ![c] = 0]}
    BY <1>5 DEF DecLeaf, DecRoot, Dropped, Set
  <2>2. UNCHANGED <<IDc, nextSeq, sweeperNext, newestEi, ltiRing, sweepSeq>>
    BY <1>5 DEF DecLeaf, DecRoot, pinVars
  <2>3. oldestEi' \in [Consumers -> Nat]
    BY <2>1 DEF ViewTypeOK
  <2>4. oldSweepSeq' \in [Consumers -> Nat]
    BY <2>1 DEF ViewTypeOK
  <2>5. QED
    BY <2>2, <2>3, <2>4 DEF ViewTypeOK
<1>6. CASE Left(c)
  <2>1. [k \in Slots |-> 0] \in [Slots -> Leaves]
    BY Sizes DEF Leaves
  <2>2. ltiRing' \in [Consumers -> [Slots -> Leaves]]
    BY <1>6, <2>1 DEF Left, Set, ViewTypeOK
  <2>3. 0 \in 0 .. IdMod - 1 /\ 0 \in Nat
    BY IdAssumption
  <2>4. /\ IDc' \in [Consumers -> 0 .. IdMod - 1]
        /\ nextSeq' \in [Consumers -> Nat]
        /\ oldestEi' \in [Consumers -> Nat]
        /\ newestEi' \in [Consumers -> Nat]
    BY <1>6, <2>3 DEF Left, Set, ViewTypeOK
  <2>5. /\ sweeperNext' \in [Consumers -> BOOLEAN]
        /\ sweepSeq' \in [Consumers -> Nat]
        /\ oldSweepSeq' \in [Consumers -> Nat]
    BY <1>6, <2>3 DEF Left, Set, ViewTypeOK
  <2>6. QED
    BY <2>2, <2>4, <2>5 DEF ViewTypeOK
<1> DEFINE s == Tnext[Idx(nextSeq[c])]
           t == Tnext[Idx(tseq[c])]
<1>7. s \in Nat /\ t \in Nat
  BY RingArithmetic DEF FarmTypeOK, RingTypeOK, ViewTypeOK, ClaimTypeOK
<1>8. ASSUME UNCHANGED <<oldestEi, newestEi, ltiRing>>,
             IDc' \in [Consumers -> 0 .. IdMod - 1],
             nextSeq' \in {nextSeq, [nextSeq EXCEPT ![c] = s]},
             \E b \in BOOLEAN : sweeperNext' \in {sweeperNext, [sweeperNext EXCEPT ![c] = b]},
             \E n \in Nat : sweepSeq' \in {sweepSeq, [sweepSeq EXCEPT ![c] = n]},
             \E n \in Nat : oldSweepSeq' \in {oldSweepSeq, [oldSweepSeq EXCEPT ![c] = n]}
      PROVE  ViewTypeOK'
  <2>1. nextSeq' \in [Consumers -> Nat]
    BY <1>7, <1>8 DEF ViewTypeOK
  <2>2. sweeperNext' \in [Consumers -> BOOLEAN]
    BY <1>8 DEF ViewTypeOK
  <2>3. sweepSeq' \in [Consumers -> Nat]
    BY <1>8 DEF ViewTypeOK
  <2>4. oldSweepSeq' \in [Consumers -> Nat]
    BY <1>8 DEF ViewTypeOK
  <2>5. QED
    BY <1>8, <2>1, <2>2, <2>3, <2>4 DEF ViewTypeOK
<1>9. ASSUME WalkPast(c, TRUE) \/ WalkPast(c, FALSE) \/ WalkPast(c, drained[c])
      PROVE  /\ \E n \in Nat : sweepSeq' \in {sweepSeq, [sweepSeq EXCEPT ![c] = n]}
             /\ \E n \in Nat : oldSweepSeq' \in {oldSweepSeq, [oldSweepSeq EXCEPT ![c] = n]}
  <2>1. sweepSeq[c] \in Nat /\ oldSweepSeq[c] \in Nat
    BY DEF ViewTypeOK
  <2>2. QED
    BY <1>7, <1>9, <2>1 DEF WalkPast, Set
<1>10. CASE Visit(c)
  <2>1. UNCHANGED <<IDc, oldestEi, newestEi, ltiRing, sweepSeq, oldSweepSeq>>
    BY <1>10 DEF Visit
  <2>2. nextSeq' \in {nextSeq, [nextSeq EXCEPT ![c] = s]}
    BY <1>10 DEF Visit, PassTable, Set
  <2>3. \E b \in BOOLEAN : sweeperNext' \in {sweeperNext, [sweeperNext EXCEPT ![c] = b]}
    BY <1>10 DEF Visit, Set
  <2>4. QED
    BY <1>8, <2>1, <2>2, <2>3 DEF ViewTypeOK
<1>11. CASE Walk(c)
  <2>1. UNCHANGED <<IDc, oldestEi, newestEi, ltiRing, nextSeq, sweeperNext>>
    BY <1>11 DEF Walk
  <2>2. WalkPast(c, drained[c]) \/ UNCHANGED <<sweepSeq, oldSweepSeq>>
    BY <1>11 DEF Walk
  <2>3. QED
    BY <1>8, <1>9, <2>1, <2>2 DEF ViewTypeOK
<1>12. ASSUME NEW b \in BOOLEAN, Processed(c, b), UNCHANGED stillVars,
              IDc' \in [Consumers -> 0 .. IdMod - 1]
       PROVE  ViewTypeOK'
  <2>1. UNCHANGED <<oldestEi, newestEi, ltiRing>>
    BY <1>12 DEF stillVars
  <2>2. nextSeq' \in {nextSeq, [nextSeq EXCEPT ![c] = s]}
    BY <1>12 DEF Processed, PassTable, Set
  <2>3. \E b1 \in BOOLEAN : sweeperNext' \in {sweeperNext, [sweeperNext EXCEPT ![c] = b1]}
    BY <1>12 DEF Processed, Set
  <2>4. WalkPast(c, FALSE) \/ UNCHANGED <<sweepSeq, oldSweepSeq>>
    BY <1>12 DEF Processed
  <2>5. QED
    BY <1>8, <1>9, <1>12, <2>1, <2>2, <2>3, <2>4
<1>13. ASSUME UNCHANGED <<IDc, nextSeq, sweeperNext, sweepSeq, oldSweepSeq>>,
              UNCHANGED stillVars
       PROVE  ViewTypeOK'
  BY <1>1, <1>13 DEF stillVars, viewVars
<1>14. CASE Claim(c) \/ Complete(c) \/ Progress(c) \/ Account(c) \/ Yield(c)
  <2>1. CASE Claim(c) /\ Processed(c, FALSE) /\ Feedback(c)
    <3>1. IDc' \in [Consumers -> 0 .. IdMod - 1]
      BY <2>1, FeedbackType DEF ViewTypeOK
    <3>2. UNCHANGED stillVars
      BY <2>1 DEF Claim
    <3>3. QED
      BY <1>12, <2>1, <3>1, <3>2
  <2>2. CASE /\ Claim(c)
             /\ UNCHANGED <<IDc, nextSeq, sweeperNext, sweepSeq, oldSweepSeq>>
    BY <1>13, <2>2 DEF Claim
  <2>3. CASE Complete(c) \/ Progress(c) \/ Account(c) \/ Yield(c)
    <3>1. IDc' \in [Consumers -> 0 .. IdMod - 1] /\ UNCHANGED stillVars
      BY <2>3 DEF Complete, Progress, Account, Yield, Claiming, ViewTypeOK
    <3>2. QED
      BY <1>12, <1>13, <2>3, <3>1
      DEF Complete, Progress, Account, Yield, Claiming
  <2>4. QED
    BY <1>14, <2>1, <2>2, <2>3 DEF Claim
<1>15. CASE SubscriberNext(c)
  BY <1>1, <1>2, <1>3, <1>15
  DEF SubscriberNext, RefuseConsumer, ProbeTail, PinTail, Hint, PinCandidate,
      CandidateEs, CandidateRt, UnpinCandidate, ValidateEs, ValidateSeqt,
      ValidateWt, ValidateNext, AttachRoot, UnpinAll, Subscribed, RetrySubscribe
<1>16. CASE ViewNext(c) \/ Unsubscribe(c)
  BY <1>1, <1>4, <1>5, <1>6, <1>10, <1>11, <1>14, <1>16
  DEF ViewNext, Poll, Migrate, Release, ClearLive, Leave, LeaveEpoch,
      SweepOldest, SweepPosition, EndWalk, Unsubscribe
<1>17. QED
  BY <1>15, <1>16 DEF ConsumerNext

LEMMA ConsumerAttempt ==
    ASSUME TypeInv, NEW c \in Consumers, ConsumerNext(c)
    PROVE  AttemptTypeOK'
<1> USE DEF TypeInv, TypeOK, ConsumerTypeOK
<1>1. CASE UNCHANGED <<at, attemptVars>>
  BY <1>1 DEF attemptVars, AttemptTypeOK
<1>2. ASSUME UNCHANGED attemptVars, \E e \in Nat : at' = [at EXCEPT ![c] = e]
      PROVE  AttemptTypeOK'
  BY <1>2 DEF attemptVars, AttemptTypeOK
<1>3. ASSUME UNCHANGED <<at, round, probe, candFresh, seqtRead, sqRead>>,
             \E k : (Pin(c, k) /\ k \in Slots) \/ Unpin(c, k)
      PROVE  AttemptTypeOK'
  <2>1. subs' \in [Consumers -> SUBSET Slots]
    BY <1>3 DEF AttemptTypeOK, Pin, Unpin, Set
  <2>2. QED
    BY <1>3, <2>1 DEF AttemptTypeOK
<1>4. ASSUME subs' \in [Consumers -> SUBSET Slots],
             cpc[c] # "retry", ScanOn(c) \/ NextRound(c)
      PROVE  AttemptTypeOK'
  <2>1. CASE NextRound(c)
    <3>1. round[c] + 1 \in 0 .. K + 2
      BY <1>4, Sizes DEF AttemptsSound, AttemptTypeOK
    <3>2. round' \in [Consumers -> 0 .. K + 2]
      BY <2>1, <3>1 DEF NextRound, Set, AttemptTypeOK
    <3>3. /\ at' \in [Consumers -> Nat] /\ probe' \in [Consumers -> Nat]
          /\ candFresh' \in [Consumers -> BOOLEAN]
      BY <2>1 DEF NextRound, Set, AttemptTypeOK
    <3>4. seqtRead' \in [Consumers -> Nat] /\ sqRead' \in [Consumers -> 0 .. MaxLeaves]
      BY <2>1, Sizes DEF NextRound, Set, AttemptTypeOK
    <3>5. QED
      BY <1>4, <3>2, <3>3, <3>4 DEF AttemptTypeOK
  <2>2. CASE at[c] < probe[c] /\ ScanOn(c)
    <3>1. at' \in [Consumers -> Nat]
      BY <2>2 DEF ScanOn, Set, AttemptTypeOK
    <3>2. candFresh' \in [Consumers -> BOOLEAN]
      BY <2>2 DEF ScanOn, Set, AttemptTypeOK
    <3>3. QED
      BY <1>4, <2>2, <3>1, <3>2 DEF ScanOn, AttemptTypeOK
  <2>3. QED
    BY <1>4, <2>1, <2>2 DEF ScanOn
<1>5. ASSUME cpc[c] # "retry", UNCHANGED subs,
             UNCHANGED scanVars \/ ScanOn(c) \/ NextRound(c)
      PROVE  AttemptTypeOK'
  <2>1. CASE UNCHANGED scanVars
    BY <1>5, <2>1 DEF scanVars, AttemptTypeOK
  <2>2. CASE ScanOn(c) \/ NextRound(c)
    BY <1>4, <1>5, <2>2 DEF AttemptTypeOK
  <2>3. QED
    BY <1>5, <2>1, <2>2
<1>6. CASE ProbeTail(c)
  <2>1. Epoch(Wt) \in Nat
    BY RingArithmetic DEF FarmTypeOK, TailTypeOK
  <2>2. QED
    BY <1>6, <2>1 DEF ProbeTail, Set, AttemptTypeOK
<1>7. CASE PinTail(c)
  <2>1. Slot(probe[c]) \in Slots /\ WindowStart(probe[c]) \in Nat
    BY RingArithmetic DEF AttemptTypeOK
  <2>2. subs' \in [Consumers -> SUBSET Slots]
    BY <1>7, <2>1 DEF PinTail, Pin, Set, AttemptTypeOK
  <2>3. at' \in [Consumers -> Nat]
    BY <1>7, <2>1 DEF PinTail, Set, AttemptTypeOK
  <2>4. QED
    BY <1>7, <2>2, <2>3 DEF PinTail, AttemptTypeOK
<1>8. CASE PinCandidate(c)
  <2>1. Slot(at[c]) \in Slots
    BY RingArithmetic DEF AttemptTypeOK
  <2>2. subs' \in [Consumers -> SUBSET Slots]
    BY <1>8, <2>1 DEF PinCandidate, Pin, Set, AttemptTypeOK
  <2>3. candFresh' \in [Consumers -> BOOLEAN]
    BY <1>8 DEF PinCandidate, Set, AttemptTypeOK
  <2>4. QED
    BY <1>8, <2>2, <2>3 DEF PinCandidate, AttemptTypeOK
<1>9. CASE UnpinCandidate(c)
  <2>1. subs' \in [Consumers -> SUBSET Slots]
    BY <1>9 DEF UnpinCandidate, Unpin, Set, AttemptTypeOK
  <2>2. cpc[c] # "retry"
    BY <1>9 DEF UnpinCandidate
  <2>3. QED
    BY <1>4, <1>9, <2>1, <2>2 DEF UnpinCandidate
<1>10. CASE ValidateSeqt(c)
  <2>1. CASE UNCHANGED <<at, round, probe, candFresh>> /\ cpc[c] = "valSeqt"
             /\ seqtRead' = Set(seqtRead, c, Seqt[Slot(at[c])])
             /\ sqRead' = Set(sqRead, c, SqCs[Slot(at[c])])
    <3>1. Slot(at[c]) \in Slots
      BY RingArithmetic DEF AttemptTypeOK
    <3>2. Seqt[Slot(at[c])] \in Nat /\ SqCs[Slot(at[c])] \in 0 .. MaxLeaves
      BY <3>1 DEF FarmTypeOK, StatTypeOK
    <3>3. seqtRead' \in [Consumers -> Nat]
      BY <2>1, <3>2 DEF Set, AttemptTypeOK
    <3>4. sqRead' \in [Consumers -> 0 .. MaxLeaves]
      BY <2>1, <3>2 DEF Set, AttemptTypeOK
    <3>5. QED
      BY <1>10, <2>1, <3>3, <3>4 DEF ValidateSeqt, AttemptTypeOK
  <2>2. CASE Invalid(c)
    <3>1. cpc[c] # "retry" /\ UNCHANGED subs
      BY <1>10 DEF ValidateSeqt
    <3>2. QED
      BY <1>5, <2>2, <3>1 DEF Invalid
  <2>3. QED
    BY <1>10, <2>1, <2>2 DEF ValidateSeqt
<1>11. CASE \/ Hint(c) \/ CandidateEs(c) \/ CandidateRt(c) \/ ValidateEs(c)
            \/ ValidateWt(c) \/ ValidateNext(c)
  <2>1. cpc[c] # "retry"
    BY <1>11 DEF Hint, CandidateEs, CandidateRt, ValidateEs, ValidateWt,
                 ValidateNext
  <2>2. UNCHANGED subs
    BY <1>11 DEF Hint, CandidateEs, CandidateRt, ValidateEs, ValidateWt, ValidateNext
  <2>3. UNCHANGED scanVars \/ ScanOn(c) \/ NextRound(c)
    BY <1>11 DEF Hint, CandidateEs, CandidateRt, ValidateEs, ValidateWt,
                 ValidateNext, DropCandidate, Invalid
  <2>4. QED
    BY <1>5, <2>1, <2>2, <2>3
<1>12. CASE UnpinAll(c)
  BY <1>3, <1>12 DEF UnpinAll
<1>13. CASE Subscribed(c) \/ RetrySubscribe(c)
  <2>1. UNCHANGED subs /\ ForgetAttempt(c)
    BY <1>13 DEF Subscribed, RetrySubscribe
  <2>2. /\ round' \in [Consumers -> 0 .. K + 2]
        /\ sqRead' \in [Consumers -> 0 .. MaxLeaves]
    BY <2>1, Sizes DEF ForgetAttempt, Set, AttemptTypeOK
  <2>3. /\ at' \in [Consumers -> Nat] /\ probe' \in [Consumers -> Nat]
        /\ candFresh' \in [Consumers -> BOOLEAN]
        /\ seqtRead' \in [Consumers -> Nat]
    BY <2>1 DEF ForgetAttempt, Set, AttemptTypeOK
  <2>4. QED
    BY <2>1, <2>2, <2>3 DEF AttemptTypeOK
<1>14. CASE SubscriberNext(c)
  BY <1>1, <1>6, <1>7, <1>8, <1>9, <1>10, <1>11, <1>12, <1>13, <1>14
  DEF SubscriberNext, CountConsumer, RefuseConsumer, Attach, AttachRoot
<1>15. CASE MoveLeaf(c) \/ MoveRoot(c)
  <2>1. UNCHANGED attemptVars /\ \E e \in Nat : at' \in {at, [at EXCEPT ![c] = e]}
    BY <1>15 DEF MoveLeaf, MoveRoot, Moved, Set, AttemptTypeOK
  <2>2. QED
    BY <1>1, <1>2, <2>1
<1>16. CASE Poll(c) \/ Migrate(c)
  <2>1. newestEi[c] + 1 \in Nat
    BY DEF ViewTypeOK
  <2>2. UNCHANGED attemptVars /\ \E e \in Nat : at' \in {at, [at EXCEPT ![c] = e]}
    BY <1>16, <2>1 DEF Poll, Migrate, Set
  <2>3. QED
    BY <1>1, <1>2, <2>2
<1>17. CASE ViewNext(c) \/ Unsubscribe(c)
  BY <1>1, <1>15, <1>16, <1>17
  DEF ViewNext, Visit, Release, ClearLive, DecLeaf, DecRoot, Leave, LeaveEpoch,
      Left, SweepOldest, SweepPosition, Walk, EndWalk, Claim, Complete, Progress,
      Account, Yield, Unsubscribe, stillVars
<1>18. QED
  BY <1>14, <1>17 DEF ConsumerNext

LEMMA ConsumerClaim ==
    ASSUME TypeInv, NEW c \in Consumers, ConsumerNext(c)
    PROVE  ClaimTypeOK'
<1> USE DEF TypeInv, TypeOK, ConsumerTypeOK
<1>1. CASE UNCHANGED claimVars
  BY <1>1 DEF claimVars, ClaimTypeOK
<1>2. ASSUME ForgetClaim(c)
      PROVE  ClaimTypeOK'
  BY <1>2 DEF ForgetClaim, Set, ClaimTypeOK, Jobs
<1>3. Tnext[Idx(nextSeq[c])] \in Nat /\ Tnext[Idx(tseq[c])] \in Nat
  BY RingArithmetic DEF FarmTypeOK, RingTypeOK, ViewTypeOK, ClaimTypeOK
<1>4. ASSUME NEW s \in Nat, NEW caller \in Jobs, Process(c, s, caller),
             \E b \in BOOLEAN : drained' \in {drained, [drained EXCEPT ![c] = b]}
      PROVE  ClaimTypeOK'
  <2>1. /\ job' \in [Consumers -> Jobs]
        /\ tseq' \in [Consumers -> Nat] /\ ownClaims' \in [Consumers -> Nat]
    BY <1>4 DEF Process, Set, ClaimTypeOK
  <2>2. /\ firstClaimant' \in [Consumers -> BOOLEAN]
        /\ drained' \in [Consumers -> BOOLEAN]
    BY <1>4 DEF Process, Set, ClaimTypeOK
  <2>3. QED
    BY <2>1, <2>2 DEF ClaimTypeOK
<1>5. ASSUME NEW s \in Nat, NEW caller \in Jobs, StartWalk(c, s, caller)
      PROVE  ClaimTypeOK'
  BY <1>5 DEF StartWalk, Set, ClaimTypeOK
<1>6. ASSUME NEW b \in BOOLEAN, Processed(c, b)
      PROVE  ClaimTypeOK'
  <2>1. CASE PassTable(c)
    BY <1>2, <2>1 DEF PassTable
  <2>2. CASE job[c] \notin {"visit", "carried"}
    <3>1. tseq' \in [Consumers -> Nat] /\ ownClaims' \in [Consumers -> Nat]
      BY <1>3, <1>6, <2>2 DEF Processed, WalkPast, Set, ClaimTypeOK
    <3>2. firstClaimant' \in [Consumers -> BOOLEAN]
      BY <1>6, <2>2 DEF Processed, Set, ClaimTypeOK
    <3>3. QED
      BY <1>6, <2>2, <3>1, <3>2 DEF Processed, ClaimTypeOK
  <2>3. QED
    BY <1>6, <2>1, <2>2 DEF Processed
<1>7. CASE Visit(c)
  <2>1. nextSeq[c] \in Nat
    BY DEF ViewTypeOK
  <2>2. CASE \E caller \in {"visit", "carried"} :
               Process(c, nextSeq[c], caller) /\ UNCHANGED drained
    BY <1>4, <2>1, <2>2 DEF Jobs
  <2>3. CASE PassTable(c)
    BY <1>2, <2>3 DEF PassTable
  <2>4. QED
    BY <1>7, <2>2, <2>3 DEF Visit
<1>8. CASE SweepOldest(c) \/ SweepPosition(c)
  <2>1. /\ Larger(Seqt[Slot(oldestEi[c])], oldSweepSeq[c]) \in Nat
        /\ Larger(Seqt[Slot(newestEi[c])], sweepSeq[c]) \in Nat
    BY RingArithmetic DEF Larger, FarmTypeOK, StatTypeOK, ViewTypeOK
  <2>2. QED
    BY <1>1, <1>5, <1>8, <2>1 DEF SweepOldest, SweepPosition, Jobs
<1>9. CASE Walk(c)
  <2>1. CASE Tprogress[Idx(tseq[c])]
    <3>1. tseq' \in [Consumers -> Nat]
      BY <1>3, <1>9, <2>1 DEF Walk, WalkPast, Set, ClaimTypeOK
    <3>2. QED
      BY <1>9, <2>1, <3>1 DEF Walk, ClaimTypeOK
  <2>2. CASE ~Tprogress[Idx(tseq[c])]
    <3>1. Process(c, tseq[c], job[c]) /\ drained' = [drained EXCEPT ![c] = FALSE]
      BY <1>9, <2>2 DEF Walk, Set
    <3>2. tseq[c] \in Nat /\ job[c] \in Jobs
      BY DEF ClaimTypeOK
    <3>3. QED
      BY <1>4, <3>1, <3>2
  <2>3. QED
    BY <2>1, <2>2
<1>10. CASE EndWalk(c)
  BY <1>2, <1>10 DEF EndWalk
<1>11. CASE Claim(c)
  <2>1. CASE Processed(c, FALSE)
    BY <1>6, <2>1
  <2>2. CASE ~Exhausted(Tclaims[Idx(tseq[c])])
    <3>1. ownClaims' \in [Consumers -> Nat]
      BY <1>11, <2>2 DEF Claim, Set, ClaimTypeOK
    <3>2. firstClaimant' \in [Consumers -> BOOLEAN]
      <4>1. (firstClaimant[c] \/ Tclaims[Idx(tseq[c])] = 0) \in BOOLEAN
        OBVIOUS
      <4>2. QED
        BY <1>11, <2>2, <4>1 DEF Claim, Set, ClaimTypeOK
    <3>3. QED
      BY <1>11, <2>2, <3>1, <3>2 DEF Claim, ClaimTypeOK
  <2>3. QED
    BY <1>11, <2>1, <2>2 DEF Claim
<1>12. CASE Complete(c) \/ Progress(c) \/ Account(c) \/ Yield(c)
  BY <1>1, <1>6, <1>12 DEF Complete, Progress, Account, Yield, Claiming
<1>13. CASE SubscriberNext(c)
  BY <1>1, <1>13
  DEF SubscriberNext, CountConsumer, RefuseConsumer, ProbeTail, PinTail, Hint,
      PinCandidate, CandidateEs, CandidateRt, UnpinCandidate, ValidateEs,
      ValidateSeqt, ValidateWt, ValidateNext, Attach, AttachRoot, UnpinAll,
      Subscribed, RetrySubscribe
<1>14. CASE ViewNext(c) \/ Unsubscribe(c)
  BY <1>1, <1>7, <1>8, <1>9, <1>10, <1>11, <1>12, <1>14
  DEF ViewNext, Poll, MoveLeaf, MoveRoot, Migrate, Release, ClearLive, DecLeaf,
      DecRoot, Leave, LeaveEpoch, Left, Unsubscribe
<1>15. QED
  BY <1>13, <1>14 DEF ConsumerNext

(* Where the view goes in a step, and whether it is counted.               *)
MovesAlone(c) == \A d \in Consumers \ {c} : cpc'[d] = cpc[d] /\ ret'[d] = ret[d]

(* The four ways a step of an attached view concerns Cf: it pumps, it      *)
(* leaves the count, it drops what it held, it is gone.                    *)
Pumps(c) ==
    /\ cpc'[c] \notin SubscribePhases \cup {"off", "leaving"}
    /\ ret[c] # "leaving" /\ ret'[c] # "leaving"
    /\ Cf' = Cf
Departs(c) ==
    /\ cpc'[c] = "leaving"
    /\ ret[c] # "leaving" /\ ret'[c] = "leaving"
    /\ Cf' = Cf - 1
Drops(c) ==
    /\ cpc'[c] \in LeavingPhases
    /\ ret[c] = "leaving" /\ ret'[c] = "leaving"
    /\ Cf' = Cf
IsGone(c) ==
    /\ cpc'[c] = "off"
    /\ ret[c] = "leaving" /\ ret'[c] = "none"
    /\ Cf' = Cf

LEMMA StagePhases ==
    ASSUME NEW c, NEW stage
    PROVE  StagePhase(c, stage) \in
              {"release", "sweepOldest", "sweepPosition", "leave", "ready"}
  BY DEF StagePhase

LEMMA GotoType ==
    ASSUME ControlTypeOK, NEW c \in Consumers, NEW phase \in CPhases, Goto(c, phase)
    PROVE  /\ cpc' \in [Consumers -> CPhases]
           /\ cpc'[c] = phase
           /\ \A d \in Consumers \ {c} : cpc'[d] = cpc[d]
  BY DEF Goto, ControlTypeOK

(* A subscriber's step: it has no continuation, and keeps its place in Cf  *)
(* except for the three that say otherwise.                                *)
LEMMA SubscriberControl ==
    ASSUME TypeInv, NEW c \in Consumers, SubscriberNext(c)
    PROVE  /\ ControlTypeOK'
           /\ UNCHANGED ret
           /\ \A d \in Consumers \ {c} : cpc'[d] = cpc[d]
           /\ cpc[c] \in SubscribePhases \cup {"off"}
           /\ cpc'[c] \in SubscribePhases \cup {"off", "ready"}
<1> USE DEF TypeInv, TypeOK, ConsumerTypeOK
<1>1. UNCHANGED ret
  BY DEF SubscriberNext, CountConsumer, RefuseConsumer, ProbeTail, PinTail, Hint,
      PinCandidate, CandidateEs, CandidateRt, UnpinCandidate, ValidateEs,
      ValidateSeqt, ValidateWt, ValidateNext, Attach, AttachRoot, UnpinAll,
      Subscribed, RetrySubscribe
<1>2. cpc[c] \in SubscribePhases \cup {"off"}
  BY DEF SubscriberNext, CountConsumer, RefuseConsumer, ProbeTail, PinTail, Hint,
      PinCandidate, CandidateEs, CandidateRt, UnpinCandidate, ValidateEs,
      ValidateSeqt, ValidateWt, ValidateNext, Attach, AttachRoot, UnpinAll,
      Subscribed, RetrySubscribe, SubscribePhases
<1>3. \E phase \in SubscribePhases \cup {"off", "ready"} :
         Goto(c, phase) \/ (UNCHANGED cpc /\ cpc[c] = phase)
  <2>1. CASE NextRound(c) \/ ScanOn(c) \/ DropCandidate(c) \/ Invalid(c)
    BY <2>1 DEF NextRound, ScanOn, DropCandidate, Invalid, SubscribePhases
  <2>2. CASE \/ CountConsumer(c) \/ RefuseConsumer(c) \/ ProbeTail(c) \/ PinTail(c)
             \/ PinCandidate(c) \/ UnpinCandidate(c)
    BY <2>1, <2>2 DEF CountConsumer, RefuseConsumer, ProbeTail, PinTail,
        PinCandidate, UnpinCandidate, SubscribePhases
  <2>3. CASE \/ Hint(c) \/ CandidateEs(c) \/ CandidateRt(c) \/ ValidateEs(c)
             \/ ValidateSeqt(c) \/ ValidateWt(c) \/ ValidateNext(c)
    BY <2>1, <2>3 DEF Hint, CandidateEs, CandidateRt, ValidateEs, ValidateSeqt,
        ValidateWt, ValidateNext, SubscribePhases
  <2>4. CASE \/ Attach(c) \/ AttachRoot(c) \/ UnpinAll(c) \/ Subscribed(c)
             \/ RetrySubscribe(c)
    BY <2>4 DEF Attach, IncLeaf, AttachRoot, UnpinAll, Subscribed, RetrySubscribe,
        SubscribePhases
  <2>5. QED
    BY <2>2, <2>3, <2>4 DEF SubscriberNext
<1>4. QED
  <2>1. PICK phase \in SubscribePhases \cup {"off", "ready"} :
         Goto(c, phase) \/ (UNCHANGED cpc /\ cpc[c] = phase)
    BY <1>3
  <2>2. phase \in CPhases
    BY DEF CPhases
  <2>3. CASE Goto(c, phase)
    BY <1>1, <1>2, <2>2, <2>3, GotoType DEF ControlTypeOK
  <2>4. CASE UNCHANGED cpc /\ cpc[c] = phase
    BY <1>1, <1>2, <2>4 DEF ControlTypeOK
  <2>5. QED
    BY <2>1, <2>3, <2>4

LEMMA SubscriberSound ==
    ASSUME TypeInv, NEW c \in Consumers, SubscriberNext(c)
    PROVE  AttemptsSound' /\ LeavingSound' /\ CountSound'
<1> USE DEF TypeInv, TypeOK, ConsumerTypeOK
<1>1. /\ cpc' \in [Consumers -> CPhases] /\ UNCHANGED ret
      /\ \A d \in Consumers \ {c} : cpc'[d] = cpc[d]
      /\ cpc[c] \in SubscribePhases \cup {"off"}
      /\ cpc'[c] \in SubscribePhases \cup {"off", "ready"}
  BY SubscriberControl DEF ControlTypeOK
<1>2. ret[c] # "leaving"
  BY <1>1 DEF LeavingSound, LeavingPhases, SubscribePhases
<1>3. LeavingSound'
  BY <1>1, <1>2 DEF LeavingSound, SubscribePhases
<1>4. CountSound'
  <2>1. CASE CountConsumer(c)
    <3>1. Cf' = Cf + 1 /\ cpc[c] = "off" /\ cpc'[c] # "off"
      BY <2>1 DEF CountConsumer, Goto, ControlTypeOK
    <3>2. QED
      BY <1>1, <1>2, <3>1, CountStep DEF Counted
  <2>2. CASE RefuseConsumer(c) \/ RetrySubscribe(c)
    <3>1. Cf' = Cf - 1 /\ cpc[c] # "off" /\ cpc'[c] = "off"
      BY <2>2 DEF RefuseConsumer, RetrySubscribe, Goto, ControlTypeOK
    <3>2. QED
      BY <1>1, <1>2, <3>1, CountStep DEF Counted
  <2>3. CASE Cf' = Cf /\ cpc[c] # "off" /\ cpc'[c] # "off"
    BY <1>1, <1>2, <2>3, CountStep DEF Counted
  <2>4. CASE \/ ProbeTail(c) \/ PinTail(c) \/ PinCandidate(c) \/ UnpinCandidate(c)
    <3>1. Cf' = Cf /\ cpc[c] # "off"
      BY <2>4 DEF ProbeTail, PinTail, PinCandidate, UnpinCandidate, farmVars, tailVars
    <3>2. cpc'[c] # "off"
      BY <2>4 DEF ProbeTail, PinTail, PinCandidate, UnpinCandidate, ScanOn,
                  NextRound, Goto, ControlTypeOK
    <3>3. QED
      BY <2>3, <3>1, <3>2
  <2>5. CASE \/ Hint(c) \/ CandidateEs(c) \/ CandidateRt(c) \/ ValidateEs(c)
             \/ ValidateSeqt(c) \/ ValidateWt(c) \/ ValidateNext(c)
    <3>1. Cf' = Cf /\ cpc[c] # "off"
      BY <2>5 DEF Hint, CandidateEs, CandidateRt, ValidateEs, ValidateSeqt,
                  ValidateWt, ValidateNext, farmVars, tailVars
    <3>2. cpc'[c] # "off"
      BY <2>5 DEF Hint, CandidateEs, CandidateRt, ValidateEs, ValidateSeqt,
                  ValidateWt, ValidateNext, DropCandidate, Invalid, ScanOn,
                  NextRound, Goto, ControlTypeOK
    <3>3. QED
      BY <2>3, <3>1, <3>2
  <2>6. CASE Attach(c) \/ AttachRoot(c) \/ UnpinAll(c) \/ Subscribed(c)
    <3>1. Cf' = Cf /\ cpc[c] # "off"
      BY <2>6 DEF Attach, AttachRoot, UnpinAll, Subscribed, farmVars, tailVars
    <3>2. cpc'[c] # "off"
      BY <2>6 DEF Attach, IncLeaf, AttachRoot, UnpinAll, Subscribed, Goto,
                  ControlTypeOK
    <3>3. QED
      BY <2>3, <3>1, <3>2
  <2>7. QED
    BY <2>1, <2>2, <2>4, <2>5, <2>6 DEF SubscriberNext
<1>5. AttemptsSound'
  <2>1. ASSUME \A d \in Consumers \ {c} : round'[d] = round[d] /\ sqRead'[d] = sqRead[d],
               cpc'[c] # "retry" => round'[c] < K + 2,
               cpc'[c] \in {"valWt", "valNext", "subLeaf"} => sqRead'[c] # 0
        PROVE  AttemptsSound'
    BY <1>1, <2>1 DEF AttemptsSound
  <2>2. ASSUME UNCHANGED <<round, sqRead>>, cpc[c] # "retry",
               cpc'[c] \notin {"valWt", "valNext", "subLeaf"}
        PROVE  AttemptsSound'
    BY <2>1, <2>2 DEF AttemptsSound
  <2>3. ASSUME NextRound(c), cpc[c] # "retry"
        PROVE  AttemptsSound'
    <3>1. /\ round' = [round EXCEPT ![c] = round[c] + 1]
          /\ sqRead' = [sqRead EXCEPT ![c] = 0]
      BY <2>3 DEF NextRound, Set
    <3>2. /\ \A d \in Consumers \ {c} : round'[d] = round[d] /\ sqRead'[d] = sqRead[d]
          /\ round'[c] = round[c] + 1
      BY <3>1 DEF AttemptTypeOK
    <3>3. cpc'[c] = IF round[c] + 1 < K + 2 THEN "probe" ELSE "retry"
      BY <2>3 DEF NextRound, Goto, ControlTypeOK
    <3>4. QED
      BY <2>1, <3>2, <3>3
  <2>4. ASSUME ScanOn(c), cpc[c] # "retry"
        PROVE  AttemptsSound'
    <3>1. CASE at[c] < probe[c]
      BY <2>2, <2>4, <3>1 DEF ScanOn, Goto, ControlTypeOK
    <3>2. CASE ~(at[c] < probe[c])
      BY <2>3, <2>4, <3>2 DEF ScanOn
    <3>3. QED
      BY <3>1, <3>2
  <2>5. ASSUME DropCandidate(c) \/ Invalid(c), cpc[c] # "retry"
        PROVE  AttemptsSound'
    <3>1. CASE candFresh[c]
      BY <2>2, <2>5, <3>1 DEF DropCandidate, Invalid, scanVars, Goto, ControlTypeOK
    <3>2. CASE ~candFresh[c]
      BY <2>3, <2>4, <2>5, <3>2 DEF DropCandidate, Invalid
    <3>3. QED
      BY <3>1, <3>2
  <2>6. CASE \/ CountConsumer(c) \/ RefuseConsumer(c) \/ ProbeTail(c) \/ PinTail(c)
             \/ PinCandidate(c) \/ Attach(c) \/ AttachRoot(c)
    <3>1. UNCHANGED <<round, sqRead>> /\ cpc[c] # "retry"
      BY <2>6 DEF CountConsumer, RefuseConsumer, ProbeTail, PinTail, PinCandidate,
                  Attach, AttachRoot, attemptVars
    <3>2. cpc'[c] \notin {"valWt", "valNext", "subLeaf"}
      BY <2>6 DEF CountConsumer, RefuseConsumer, ProbeTail, PinTail, PinCandidate,
                  Attach, IncLeaf, AttachRoot, Goto, ControlTypeOK
    <3>3. QED
      BY <2>2, <3>1, <3>2
  <2>7. CASE Hint(c) \/ CandidateEs(c) \/ CandidateRt(c) \/ ValidateEs(c)
    <3>1. cpc[c] # "retry"
      BY <2>7 DEF Hint, CandidateEs, CandidateRt, ValidateEs
    <3>2. CASE ScanOn(c) \/ DropCandidate(c) \/ Invalid(c)
      BY <2>4, <2>5, <3>1, <3>2
    <3>3. CASE /\ UNCHANGED scanVars
               /\ \/ Goto(c, "pinCand") \/ Goto(c, "candRt")
                  \/ Goto(c, "valEs") \/ Goto(c, "valSeqt")
      BY <2>2, <3>1, <3>3 DEF scanVars, Goto, ControlTypeOK
    <3>4. QED
      BY <2>7, <3>2, <3>3 DEF Hint, CandidateEs, CandidateRt, ValidateEs
  <2>8. CASE ValidateSeqt(c)
    <3>1. CASE Invalid(c)
      BY <2>5, <2>8, <3>1 DEF ValidateSeqt
    <3>2. CASE ~Invalid(c)
      <4>1. /\ sqRead' = [sqRead EXCEPT ![c] = SqCs[Slot(at[c])]]
            /\ SqCs[Slot(at[c])] # 0 /\ UNCHANGED round
        BY <2>8, <3>2 DEF ValidateSeqt, Set
      <4>2. /\ \A d \in Consumers \ {c} : sqRead'[d] = sqRead[d]
            /\ sqRead'[c] # 0
        BY <4>1 DEF AttemptTypeOK
      <4>3. cpc[c] # "retry"
        BY <2>8 DEF ValidateSeqt
      <4>4. QED
        BY <2>1, <4>1, <4>2, <4>3 DEF AttemptsSound
    <3>3. QED
      BY <3>1, <3>2
  <2>9. CASE ValidateWt(c) \/ ValidateNext(c)
    <3>1. cpc[c] # "retry" /\ sqRead[c] # 0
      BY <2>9 DEF ValidateWt, ValidateNext, AttemptsSound
    <3>2. CASE Invalid(c)
      BY <2>5, <3>1, <3>2
    <3>3. CASE UNCHANGED <<round, sqRead>>
      BY <2>1, <3>1, <3>3 DEF AttemptsSound
    <3>4. QED
      BY <2>9, <3>2, <3>3 DEF ValidateWt, ValidateNext, scanVars
  <2>10. CASE UnpinCandidate(c)
    BY <2>3, <2>4, <2>10 DEF UnpinCandidate
  <2>11. CASE UnpinAll(c)
    BY <2>11 DEF UnpinAll, AttemptsSound
  <2>12. CASE Subscribed(c) \/ RetrySubscribe(c)
    <3>1. /\ round' = [round EXCEPT ![c] = 0]
          /\ sqRead' = [sqRead EXCEPT ![c] = 0]
      BY <2>12 DEF Subscribed, RetrySubscribe, ForgetAttempt, Set
    <3>2. /\ \A d \in Consumers \ {c} : round'[d] = round[d] /\ sqRead'[d] = sqRead[d]
          /\ round'[c] < K + 2
      BY <3>1, Sizes DEF AttemptTypeOK
    <3>3. cpc'[c] \in {"ready", "off"}
      BY <2>12 DEF Subscribed, RetrySubscribe, Goto, ControlTypeOK
    <3>4. QED
      BY <2>1, <3>2, <3>3
  <2>13. QED
    BY <2>6, <2>7, <2>8, <2>9, <2>10, <2>11, <2>12 DEF SubscriberNext
<1>6. QED
  BY <1>3, <1>4, <1>5

LEMMA ViewControl ==
    ASSUME TypeInv, NEW c \in Consumers, ViewNext(c) \/ Unsubscribe(c)
    PROVE  /\ ControlTypeOK' /\ MovesAlone(c)
           /\ cpc[c] \notin SubscribePhases \cup {"off"}
           /\ Pumps(c) \/ Departs(c) \/ Drops(c) \/ IsGone(c)
<1> DEFINE Pumping == CPhases \ (SubscribePhases \cup {"off", "leaving"})
           Goal == /\ ControlTypeOK' /\ MovesAlone(c)
                   /\ Pumps(c) \/ Departs(c) \/ Drops(c) \/ IsGone(c)
<1>0. /\ ReleasePhases \cup {"ready", "migrate", "walk", "work", "moveLeaf", "moveRoot"}
            \cup ClaimPhases \cup {"sweepOldest", "sweepPosition", "leave"} \subseteq Pumping
      /\ Pumping \subseteq CPhases
  BY DEF CPhases, SubscribePhases, ReleasePhases, ClaimPhases
<1> HIDE DEF Pumping, Goal
<1> USE DEF TypeInv, TypeOK, ConsumerTypeOK
<1>1. cpc[c] \notin SubscribePhases \cup {"off"}
  BY DEF ViewNext, Poll, MoveLeaf, MoveRoot, Visit, Migrate, Release, ClearLive,
      DecLeaf, DecRoot, Leave, LeaveEpoch, Left, SweepOldest, SweepPosition,
      Walk, EndWalk, Claim, Complete, Progress, Account, Yield, Unsubscribe,
      SubscribePhases
<1> SUFFICES Goal
  BY <1>1 DEF Goal
<1>2. ASSUME ret[c] # "leaving", Cf' = Cf,
             NEW phase \in Pumping, Goto(c, phase),
             NEW r \in Returns \ {"leaving"}, ret' \in {ret, [ret EXCEPT ![c] = r]}
      PROVE  Goal
  <2>1. /\ cpc' \in [Consumers -> CPhases] /\ cpc'[c] = phase
        /\ \A d \in Consumers \ {c} : cpc'[d] = cpc[d]
    BY <1>0, <1>2, GotoType
  <2>2. /\ ret' \in [Consumers -> Returns] /\ ret'[c] # "leaving"
        /\ \A d \in Consumers \ {c} : ret'[d] = ret[d]
    BY <1>2 DEF ControlTypeOK
  <2>3. QED
    BY <1>2, <2>1, <2>2 DEF Goal, Pumping, ControlTypeOK, MovesAlone, Pumps
<1>3. ASSUME ret[c] # "leaving", Cf' = Cf, NEW stage, Resume(c, stage)
      PROVE  Goal
  <2>1. StagePhase(c, stage) \in Pumping
    BY <1>0, StagePhases DEF ReleasePhases
  <2>2. ret' \in {[ret EXCEPT ![c] = "ready"], [ret EXCEPT ![c] = "none"]}
    BY <1>3 DEF Resume, Set
  <2>3. QED
    BY <1>2, <1>3, <2>1, <2>2 DEF Resume, Returns
<1>4. ASSUME ret[c] # "leaving", Cf' = Cf, PassTable(c)
      PROVE  Goal
  <2>1. CASE Goto(c, "migrate") /\ ret' = Set(ret, c, "tail")
    BY <1>0, <1>2, <1>4, <2>1 DEF Set, Returns
  <2>2. CASE Resume(c, "tail")
    BY <1>3, <1>4, <2>2
  <2>3. QED
    BY <1>4, <2>1, <2>2 DEF PassTable
<1>5. ASSUME ret[c] # "leaving", Cf' = Cf, NEW b, Processed(c, b)
      PROVE  Goal
  <2>1. CASE PassTable(c)
    BY <1>4, <1>5, <2>1
  <2>2. CASE Goto(c, "walk") /\ UNCHANGED ret
    BY <1>0, <1>2, <1>5, <2>2 DEF Returns
  <2>3. QED
    BY <1>5, <2>1, <2>2 DEF Processed
<1>6. ASSUME Cf' = Cf, UNCHANGED ret, NEW phase \in Pumping, Goto(c, phase),
             ret[c] = "leaving" => phase \in LeavingPhases
      PROVE  Goal
  <2>1. CASE ret[c] # "leaving"
    BY <1>2, <1>6, <2>1 DEF Returns
  <2>2. CASE ret[c] = "leaving"
    <3>1. /\ cpc' \in [Consumers -> CPhases] /\ cpc'[c] = phase
          /\ \A d \in Consumers \ {c} : cpc'[d] = cpc[d]
      BY <1>0, <1>6, GotoType
    <3>2. QED
      BY <1>6, <2>2, <3>1 DEF Goal, ControlTypeOK, MovesAlone, Drops
  <2>3. QED
    BY <2>1, <2>2
<1>7. CASE Dropped(c) /\ Cf' = Cf /\ UNCHANGED ret
  <2>1. CASE ret[c] # "leaving"
    BY <1>0, <1>6, <1>7, <2>1 DEF Dropped, ReleasePhases
  <2>2. CASE ret[c] = "leaving"
    <3>1. Goto(c, "leaving")
      BY <1>7, <2>2 DEF Dropped
    <3>2. /\ cpc' \in [Consumers -> CPhases] /\ cpc'[c] = "leaving"
          /\ \A d \in Consumers \ {c} : cpc'[d] = cpc[d]
      BY <3>1, GotoType DEF CPhases
    <3>3. QED
      BY <1>7, <2>2, <3>2 DEF Goal, ControlTypeOK, MovesAlone, Drops, LeavingPhases
  <2>3. QED
    BY <2>1, <2>2
<1>8. CASE ClearLive(c) \/ DecLeaf(c) \/ DecRoot(c)
  <2>1. Cf' = Cf /\ UNCHANGED ret
    BY <1>8 DEF ClearLive, DecLeaf, DecRoot, tailVars
  <2>2. CASE Dropped(c)
    BY <1>7, <2>1, <2>2
  <2>3. CASE Goto(c, "decLeaf") \/ Goto(c, "decRoot")
    BY <1>0, <1>6, <2>1, <2>3 DEF ReleasePhases, LeavingPhases
  <2>4. QED
    BY <1>8, <2>2, <2>3 DEF ClearLive, DecLeaf, DecRoot
<1>9. CASE LeaveEpoch(c)
  <2>1. Cf' = Cf /\ UNCHANGED ret /\ (Goto(c, "clear") \/ Goto(c, "decLeaf"))
    BY <1>9 DEF LeaveEpoch, farmVars, tailVars
  <2>2. QED
    BY <1>0, <1>6, <2>1 DEF ReleasePhases, LeavingPhases
<1>10. CASE Left(c)
  <2>1. Cf' = Cf /\ Goto(c, "off") /\ ret' = [ret EXCEPT ![c] = "none"]
    BY <1>10 DEF Left, farmVars, tailVars, Set
  <2>2. ret[c] = "leaving"
    BY <1>10 DEF Left, LeavingSound
  <2>3. /\ cpc' \in [Consumers -> CPhases] /\ cpc'[c] = "off"
        /\ \A d \in Consumers \ {c} : cpc'[d] = cpc[d]
    BY <2>1, GotoType DEF CPhases
  <2>4. /\ ret' \in [Consumers -> Returns] /\ ret'[c] = "none"
        /\ \A d \in Consumers \ {c} : ret'[d] = ret[d]
    BY <2>1 DEF ControlTypeOK, Returns
  <2>5. QED
    BY <2>1, <2>2, <2>3, <2>4 DEF Goal, ControlTypeOK, MovesAlone, IsGone
<1>11. CASE Leave(c)
  <2>1. /\ Cf' = Cf - 1 /\ Goto(c, "leaving") /\ ret' = [ret EXCEPT ![c] = "leaving"]
        /\ cpc[c] = "leave"
    BY <1>11 DEF Leave, Set
  <2>2. ret[c] # "leaving"
    BY <2>1 DEF LeavingSound, LeavingPhases
  <2>3. /\ cpc' \in [Consumers -> CPhases] /\ cpc'[c] = "leaving"
        /\ \A d \in Consumers \ {c} : cpc'[d] = cpc[d]
    BY <2>1, GotoType DEF CPhases
  <2>4. /\ ret' \in [Consumers -> Returns] /\ ret'[c] = "leaving"
        /\ \A d \in Consumers \ {c} : ret'[d] = ret[d]
    BY <2>1 DEF ControlTypeOK, Returns
  <2>5. QED
    BY <2>1, <2>2, <2>3, <2>4 DEF Goal, ControlTypeOK, MovesAlone, Departs
<1>12. CASE cpc[c] \notin LeavingPhases /\ Cf' = Cf
  <2>1. ret[c] # "leaving"
    BY <1>12 DEF LeavingSound
  <2> USE <1>0 DEF ReleasePhases, ClaimPhases, Returns, Set
  <2>2. CASE Poll(c)
    BY <1>2, <1>3, <1>12, <2>1, <2>2 DEF Poll
  <2>3. CASE MoveLeaf(c) \/ MoveRoot(c)
    BY SMTT(30), <1>2, <1>12, <2>1, <2>3 DEF MoveLeaf, MoveRoot, Moved
  <2>4. CASE Visit(c)
    BY <1>2, <1>4, <1>12, <2>1, <2>4 DEF Visit, Process
  <2>5. CASE Migrate(c) \/ Release(c) \/ Unsubscribe(c)
    BY <1>2, <1>3, <1>12, <2>1, <2>5 DEF Migrate, Release, Unsubscribe
  <2>6. CASE SweepOldest(c) \/ SweepPosition(c)
    BY <1>2, <1>3, <1>12, <2>1, <2>6 DEF SweepOldest, SweepPosition, StartWalk
  <2>7. CASE Walk(c)
    <3>1. UNCHANGED ret /\ cpc[c] = "walk"
      BY <2>7 DEF Walk
    <3>2. CASE UNCHANGED cpc
      BY <1>1, <1>12, <2>1, <3>1, <3>2 DEF Goal, ControlTypeOK, MovesAlone, Pumps
    <3>3. CASE Goto(c, "claim")
      BY <1>2, <1>12, <2>1, <3>1, <3>3
    <3>4. QED
      BY <2>7, <3>2, <3>3 DEF Walk, Process
  <2>8. CASE EndWalk(c)
    BY <1>2, <1>3, <1>12, <2>1, <2>8 DEF EndWalk
  <2>9. CASE Claim(c)
    <3>1. CASE Processed(c, FALSE)
      BY <1>5, <1>12, <2>1, <3>1
    <3>2. CASE Goto(c, "complete") /\ UNCHANGED ret
      BY <1>2, <1>12, <2>1, <3>2
    <3>3. QED
      BY <2>9, <3>1, <3>2 DEF Claim
  <2>10. CASE Complete(c) \/ Progress(c) \/ Account(c) \/ Yield(c)
    <3>1. CASE Processed(c, TRUE) \/ Processed(c, FALSE)
      BY <1>5, <1>12, <2>1, <3>1
    <3>2. CASE UNCHANGED ret /\ \E phase \in ClaimPhases : Goto(c, phase)
      BY <1>2, <1>12, <2>1, <3>2
    <3>3. QED
      BY <2>10, <3>1, <3>2 DEF Complete, Progress, Account, Yield, Claiming
  <2>11. CASE ViewNext(c)
    BY <1>8, <1>9, <1>10, <1>11, <2>2, <2>3, <2>4, <2>5, <2>6, <2>7, <2>8, <2>9,
       <2>10, <2>11 DEF ViewNext
  <2>12. QED
    BY <2>5, <2>11
<1>13. CASE \/ Poll(c) \/ MoveLeaf(c) \/ MoveRoot(c) \/ Visit(c) \/ Migrate(c)
            \/ Release(c) \/ SweepOldest(c) \/ SweepPosition(c) \/ Walk(c)
            \/ EndWalk(c) \/ Claim(c) \/ Complete(c) \/ Progress(c) \/ Account(c)
            \/ Yield(c) \/ Unsubscribe(c)
  <2>1. cpc[c] \notin LeavingPhases
    BY <1>13 DEF Poll, MoveLeaf, MoveRoot, Visit, Migrate, Release, SweepOldest,
        SweepPosition, Walk, EndWalk, Claim, Complete, Progress, Account, Yield,
        Unsubscribe, LeavingPhases
  <2>2. Cf' = Cf
    BY <1>13 DEF Poll, MoveLeaf, MoveRoot, Visit, Migrate, Release, SweepOldest,
        SweepPosition, Walk, EndWalk, Claim, Complete, Progress, Account, Yield,
        Unsubscribe, farmVars, tailVars
  <2>3. QED
    BY <1>12, <2>1, <2>2
<1>14. QED
  BY <1>8, <1>9, <1>10, <1>11, <1>13 DEF ViewNext

LEMMA ViewSound ==
    ASSUME TypeInv, NEW c \in Consumers, ViewNext(c) \/ Unsubscribe(c)
    PROVE  AttemptsSound' /\ LeavingSound' /\ CountSound'
<1> USE DEF TypeInv, TypeOK, ConsumerTypeOK
<1>1. /\ ControlTypeOK' /\ MovesAlone(c)
      /\ cpc[c] \notin SubscribePhases \cup {"off"}
      /\ Pumps(c) \/ Departs(c) \/ Drops(c) \/ IsGone(c)
  BY ViewControl
<1>2. LeavingSound'
  BY <1>1 DEF LeavingSound, MovesAlone, Pumps, Departs, Drops, IsGone, LeavingPhases
<1>3. CountSound'
  BY <1>1, CountStep
  DEF Counted, MovesAlone, Pumps, Departs, Drops, IsGone, LeavingPhases
<1>4. AttemptsSound'
  <2>1. UNCHANGED <<round, sqRead>>
    BY DEF ViewNext, Poll, MoveLeaf, MoveRoot, Visit, Migrate, Release, ClearLive,
      DecLeaf, DecRoot, Leave, LeaveEpoch, Left, SweepOldest, SweepPosition,
      Walk, EndWalk, Claim, Complete, Progress, Account, Yield, Unsubscribe,
      attemptVars, stillVars
  <2>2. cpc[c] # "retry" /\ cpc'[c] \notin {"valWt", "valNext", "subLeaf"}
    BY <1>1 DEF Pumps, Departs, Drops, IsGone, SubscribePhases, LeavingPhases
  <2>3. QED
    BY <1>1, <2>1, <2>2 DEF AttemptsSound, MovesAlone
<1>5. QED
  BY <1>2, <1>3, <1>4

LEMMA ConsumerStep ==
    ASSUME TypeInv, NEW c \in Consumers, ConsumerNext(c), UNCHANGED producerVars
    PROVE  TypeInv'
<1>1. ControlTypeOK' /\ AttemptsSound' /\ LeavingSound' /\ CountSound'
  BY SubscriberControl, SubscriberSound, ViewControl, ViewSound DEF ConsumerNext
<1>2. ConsumerTypeOK'
  BY <1>1, ConsumerViewFields, ConsumerAttempt, ConsumerClaim DEF ConsumerTypeOK
<1>3. FarmTypeOK'
  <2>1. Cf' \in Nat
    <3>1. Counted' \in SUBSET Consumers
      BY DEF Counted
    <3>2. Cardinality(Counted') \in Nat
      BY <3>1, CountedFinite, FS_Subset, FS_CardinalityType
    <3>3. QED
      BY <1>1, <3>2 DEF CountSound
  <2>2. QED
    BY <2>1, ConsumerTail, ConsumerRoots, ConsumerStatsAndRing
    DEF FarmTypeOK, TailTypeOK
<1>4. ProducerTypeOK' /\ SizesFit'
  BY DEF TypeInv, TypeOK, ProducerTypeOK, SizesFit, producerVars
<1>5. QED
  BY <1>1, <1>2, <1>3, <1>4, ConsumerTail DEF TypeInv, TypeOK

LEMMA NextTypeInv == TypeInv /\ [Next]_vars => TypeInv'
<1> SUFFICES ASSUME TypeInv, [Next]_vars PROVE TypeInv'
  OBVIOUS
<1>1. CASE \E p \in Producers : ProducerNext(p) /\ UNCHANGED consumerVars
  BY <1>1, ProducerStep
<1>2. CASE \E c \in Consumers : ConsumerNext(c) /\ UNCHANGED producerVars
  BY <1>2, ConsumerStep
<1>3. CASE UNCHANGED vars
  <2>1. UNCHANGED <<farmVars, producerVars, consumerVars>>
    BY <1>3 DEF vars
  <2>2. FarmTypeOK' /\ CounterSound'
    BY <2>1 DEF TypeInv, TypeOK, FarmTypeOK, TailTypeOK, RootTypeOK, StatTypeOK,
        RingTypeOK, farmVars, tailVars, rootVars, statVars, ringVars, CounterSound
  <2>3. ProducerTypeOK' /\ SizesFit'
    BY <2>1 DEF TypeInv, TypeOK, ProducerTypeOK, producerVars, SizesFit
  <2>4. ViewTypeOK' /\ AttemptTypeOK' /\ ClaimTypeOK' /\ ControlTypeOK'
    BY <2>1 DEF TypeInv, TypeOK, ConsumerTypeOK, ViewTypeOK, AttemptTypeOK,
        ClaimTypeOK, ControlTypeOK, consumerVars, viewVars, attemptVars, claimVars
  <2>5. AttemptsSound' /\ LeavingSound'
    BY <2>1 DEF TypeInv, AttemptsSound, LeavingSound, consumerVars, attemptVars
  <2>6. CountSound'
    <3>1. Cf' = Cf /\ Counted' = Counted
      BY <2>1 DEF farmVars, tailVars, consumerVars, Counted
    <3>2. QED
      BY <3>1 DEF TypeInv, CountSound
  <2>7. QED
    BY <2>2, <2>3, <2>4, <2>5, <2>6 DEF TypeInv, TypeOK, ConsumerTypeOK
<1>4. QED
  BY <1>1, <1>2, <1>3 DEF Next

LEMMA TypeInvHolds == Spec => []TypeInv
  BY InitTypeInv, NextTypeInv, PTL DEF Spec

(* Every variable keeps its type: in particular a ticket is never charged  *)
(* more than the quota it has left, a sweep reads no more than K - 1 slots *)
(* ahead, a leaf index is within its segment's leaves, and the consumer    *)
(* count that sizes the shards is never negative.                          *)
THEOREM TypeCorrect == Spec => []TypeOK
  BY TypeInvHolds, PTL DEF TypeInv

-----------------------------------------------------------------------------
(* Admission.  Cf counts every view between its fetch-add and its          *)
(* fetch-sub, so a view that saw room saw fewer than MaxConsumers of them. *)

Admitted == {c \in Consumers : cpc[c] \notin {"off", "full"} /\ ret[c] # "leaving"}

LEMMA AdmittedFinite ==
    /\ IsFiniteSet(Admitted) /\ Cardinality(Admitted) \in Nat
    /\ Cardinality(Admitted) <= Cardinality(Counted)
<1>1. Admitted \in SUBSET Counted
  BY DEF Admitted, Counted
<1>2. QED
  BY <1>1, CountedFinite, FS_Subset, FS_CardinalityType

LEMMA AdmissionStep ==
    ASSUME TypeInv, AdmissionBounded, [Next]_vars
    PROVE  AdmissionBounded'
<1> USE DEF TypeInv, TypeOK, ConsumerTypeOK
<1>1. Cardinality(Admitted) <= MaxConsumers
  BY DEF AdmissionBounded, Admitted
<1>2. SUFFICES Cardinality(Admitted') <= MaxConsumers
  BY DEF AdmissionBounded, Admitted
<1>3. CASE Admitted' \subseteq Admitted
  <2>1. Cardinality(Admitted') <= Cardinality(Admitted) /\ Cardinality(Admitted') \in Nat
    BY <1>3, AdmittedFinite, FS_Subset, FS_CardinalityType
  <2>2. QED
    BY <1>1, <2>1, AdmittedFinite, ConsumerAssumption
<1>4. CASE \E c \in Consumers : CountConsumer(c)
  <2>1. PICK c \in Consumers : CountConsumer(c)
    BY <1>4
  <2>2. CASE Full(Cf)
    <3>1. cpc' = [cpc EXCEPT ![c] = "full"] /\ UNCHANGED ret
      BY <2>1, <2>2 DEF CountConsumer, Goto
    <3>2. Admitted' \subseteq Admitted
      BY <3>1 DEF Admitted, ControlTypeOK
    <3>3. QED
      BY <1>3, <3>2
  <2>3. CASE ~Full(Cf)
    <3>1. cpc' = [cpc EXCEPT ![c] = "probe"] /\ UNCHANGED ret /\ cpc[c] = "off"
      BY <2>1, <2>3 DEF CountConsumer, Goto
    <3>2. Admitted' \subseteq Admitted \cup {c}
      BY <3>1 DEF Admitted, ControlTypeOK
    <3>3. c \notin Admitted
      BY <3>1 DEF Admitted
    <3>4. /\ IsFiniteSet(Admitted \cup {c})
          /\ Cardinality(Admitted \cup {c}) = Cardinality(Admitted) + 1
      BY <3>3, AdmittedFinite, FS_AddElement
    <3>5. Cardinality(Admitted') <= Cardinality(Admitted) + 1
      BY <3>2, <3>4, FS_Subset
    <3>6. Cardinality(Admitted') \in Nat
      BY <3>2, <3>4, FS_Subset, FS_CardinalityType
    <3>7. Cardinality(Admitted) < MaxConsumers
      BY <2>3, AdmittedFinite, CountedFinite, ConsumerAssumption DEF Full, CountSound
    <3>8. QED
      BY <3>5, <3>6, <3>7, AdmittedFinite, ConsumerAssumption
  <2>4. QED
    BY <2>2, <2>3
<1>5. CASE \E p \in Producers : ProducerNext(p) /\ UNCHANGED consumerVars
  <2>1. Admitted' = Admitted
    BY <1>5 DEF Admitted, consumerVars
  <2>2. QED
    BY <1>3, <2>1
<1>6. ASSUME NEW c \in Consumers, SubscriberNext(c), ~CountConsumer(c)
      PROVE  Admitted' \subseteq Admitted
  <2>1. /\ UNCHANGED ret /\ \A d \in Consumers \ {c} : cpc'[d] = cpc[d]
        /\ cpc[c] \in SubscribePhases \cup {"off"}
        /\ cpc'[c] \in SubscribePhases \cup {"off", "ready"}
    BY <1>6, SubscriberControl
  <2>2. cpc[c] # "off"
    BY <1>6 DEF SubscriberNext, RefuseConsumer, ProbeTail, PinTail, Hint,
      PinCandidate, CandidateEs, CandidateRt, UnpinCandidate, ValidateEs,
      ValidateSeqt, ValidateWt, ValidateNext, Attach, AttachRoot, UnpinAll,
      Subscribed, RetrySubscribe
  <2>3. cpc[c] = "full" => cpc'[c] = "off"
    <3>1. cpc[c] = "full" => RefuseConsumer(c)
      BY <1>6 DEF SubscriberNext, ProbeTail, PinTail, Hint, PinCandidate,
        CandidateEs, CandidateRt, UnpinCandidate, ValidateEs, ValidateSeqt,
        ValidateWt, ValidateNext, Attach, AttachRoot, UnpinAll, Subscribed,
        RetrySubscribe
    <3>2. QED
      BY <3>1 DEF RefuseConsumer, Goto, ControlTypeOK
  <2>4. QED
    BY <2>1, <2>2, <2>3 DEF Admitted
<1>7. ASSUME NEW c \in Consumers, ViewNext(c) \/ Unsubscribe(c)
      PROVE  Admitted' \subseteq Admitted
  <2>1. /\ MovesAlone(c) /\ cpc[c] \notin SubscribePhases \cup {"off"}
        /\ Pumps(c) \/ Departs(c) \/ Drops(c) \/ IsGone(c)
    BY <1>7, ViewControl
  <2>2. cpc[c] # "full"
    BY <2>1 DEF SubscribePhases
  <2>3. QED
    BY <2>1, <2>2 DEF Admitted, MovesAlone, Pumps, Departs, Drops, IsGone
<1>8. CASE \E c \in Consumers : ConsumerNext(c) /\ UNCHANGED producerVars
  BY <1>3, <1>4, <1>6, <1>7, <1>8 DEF ConsumerNext
<1>9. CASE UNCHANGED vars
  <2>1. Admitted' = Admitted
    BY <1>9 DEF vars, consumerVars, Admitted
  <2>2. QED
    BY <1>3, <2>1
<1>10. QED
  BY <1>5, <1>8, <1>9 DEF Next

(* However many views race through add_consumer and unsubscribe, at most   *)
(* MaxConsumers are admitted and not leaving.                              *)
THEOREM AdmissionIsBounded == Spec => []AdmissionBounded
<1>1. Init => AdmissionBounded
  <2>1. Init => Admitted = {}
    BY DEF Init, ConsumerInit, Admitted
  <2>2. Cardinality({}) <= MaxConsumers
    BY FS_EmptySet, ConsumerAssumption
  <2>3. QED
    BY <2>1, <2>2 DEF AdmissionBounded, Admitted
<1>2. TypeInv /\ AdmissionBounded /\ [Next]_vars => AdmissionBounded'
  BY AdmissionStep
<1>3. QED
  BY <1>1, <1>2, TypeInvHolds, PTL DEF Spec

-----------------------------------------------------------------------------
(* The ring.  A sequence counts the units ever reserved, Idx says where in *)
(* the ring one lies, and epoch e is the e-th segment's worth of them.     *)

(* The ring has room for e: no later epoch has taken its slot.             *)
InWindow(e) == e <= Epoch(Wt) /\ Epoch(Wt) < e + K

(* The segment's statistics are those of e.                                *)
Initialised(e) == Es[Slot(e)] = e

(* A whole table lies at s.                                                *)
At(s) == Idx(s) \in Tables /\ Tsent[Idx(s)] = s

Apart(a, b, c, d) == b <= c \/ d <= a

(* A writer between its fetch-add and the first word of its table.         *)
Crossing == {"check", "stats", "raise", "es"}

(* The table being written by p starts before epoch e and ends in or after *)
(* it: p initialises e.  It has still to do so while Pending.              *)
Crosses(p, e) == Writing(p) /\ Epoch(wret[p]) < e /\ e <= Epoch(wtprime(p))

Pending(p, e) ==
    /\ Crosses(p, e)
    /\ ppc[p] \in Crossing
    /\ ppc[p] # "check" => fresh[p] <= e

(* Layout: tables and writers tile the window without overlap or gap.      *)

(* MaxSeq bounds the model's tail.                                         *)
TailBounded == Wt <= MaxSeq

WriterRanges ==
    \A p \in Producers : Writing(p) => size[p] >= 1 /\ wtprime(p) <= Wt

(* No two reservations overlap.                                            *)
WritersApart ==
    \A p, q \in Producers : p # q /\ Writing(p) /\ Writing(q) =>
        Apart(wret[p], wtprime(p), wret[q], wtprime(q))

(* A sentinel left in the ring is one the tail has passed, in its own      *)
(* place, and nobody is writing over it.                                   *)
SentinelSound(i) ==
    Tsent[i] # NoSeq =>
        /\ Tsent[i] \in Nat /\ Idx(Tsent[i]) = i /\ Tsent[i] < Wt
        /\ \A p \in Producers : Writing(p) => Tsent[i] < wret[p] \/ wtprime(p) <= Tsent[i]

SentinelsSound == \A i \in Indices : SentinelSound(i)

(* No table overlaps another one, or one being written.                    *)
TableSound(i) ==
    /\ Tsent[i] < Tnext[i] /\ Tnext[i] <= Wt /\ Tsq[i] # 0
    /\ \A p \in Producers : Writing(p) => Apart(Tsent[i], Tnext[i], wret[p], wtprime(p))
    /\ \A j \in Tables : j # i => Apart(Tsent[i], Tnext[i], Tsent[j], Tnext[j])

TablesSound == \A i \in Tables : TableSound(i)

(* A place where a table begins, or will.                                  *)
Boundary(s) ==
    \/ s = Wt
    \/ \E p \in Producers : Writing(p) /\ wret[p] = s
    \/ At(s)

Recent(s) == Wt <= s + Lap

(* A table ends where the next one begins, unless that one is overwritten. *)
Chained ==
    /\ \A p \in Producers : Writing(p) => Boundary(wtprime(p))
    /\ \A i \in Tables : Recent(Tnext[i]) => Boundary(Tnext[i])

Layout ==
    TailBounded /\ WriterRanges /\ WritersApart /\ SentinelsSound /\ TablesSound /\ Chained

(* What a writer knows at each of its steps.                               *)

(* A table between its last word and its sentinel.                         *)
Unpublished(p) ==
    LET i == Idx(wret[p]) IN
    /\ Tnext[i] = wtprime(p) /\ Tsq[i] # 0
    /\ Tclaims[i] = 0 /\ Tcomps[i] = 0 /\ ~Tprogress[i]

(* A ticket never has more than its quota; a writer's registers are what   *)
(* its phase says.                                                         *)
WritersSound ==
    \A p \in Producers :
        /\ quotaLeft[p] <= Quota[p]
        /\ ppc[p] # "idle" => sq[p] # 0
        /\ ppc[p] = "sweep" => anchor[p] <= Wt
        /\ ppc[p] # "sweep" => swept[p] = 0
        /\ ppc[p] = "sentinel" => Unpublished(p)

(* No writer is about to overwrite what another one is writing.            *)
WritersRecent == \A p \in Producers : Writing(p) => Wt < wret[p] + Lap

-----------------------------------------------------------------------------
(* Quota: how far the tail can get, counting what every ticket may still   *)
(* spend.  A sweep may be granted its whole quota, so a tail is bounded by *)
(* the sweeps under way too.                                               *)

(* What each ticket may still spend before a sweep anchored at m ends: the *)
(* sweeps anchored before it may be granted meanwhile.                     *)
Budget(m) == [p \in Producers |->
    IF ppc[p] = "sweep" /\ anchor[p] <= m THEN Quota[p] ELSE quotaLeft[p]]

Reach(m) == Wt + Total(Budget(m))

(* The sweep of p cannot grant a lap of epoch e.                           *)
Ahead(e, p) ==
    /\ Reach(anchor[p]) <= anchor[p] + Exmax \/ Epoch(Reach(anchor[p])) < e + K
    /\ e > Epoch(anchor[p]) + swept[p] - K

(* No ticket, and no sweep under way, can carry the tail to the next lap   *)
(* of e.                                                                   *)
Safe(e) ==
    /\ Epoch(SpentTail) < e + K
    /\ \A p \in Producers : ppc[p] = "sweep" => Ahead(e, p)

(* Who needs an epoch.                                                     *)

(* Epochs with work left; the tail's always, for work may begin in it.     *)
Worked(e) ==
    \/ e = Epoch(Wt)
    \/ \E p \in Producers : Writing(p) /\ Epoch(wret[p]) = e
    \/ \E i \in Tables : ~Tprogress[i] /\ Epoch(Tsent[i]) = e

(* A subscription that has seen e Live under its Sub, and may attach to e. *)
Claims(c, e) ==
    /\ at[c] = e
    /\ \/ cpc[c] \in {"valWt", "valNext", "subLeaf"}
       \/ cpc[c] \in {"valEs", "valSeqt"} /\ Epoch(Seqt[Slot(e)]) < e + K

(* A view that holds e or has still to lower the root it held e by.        *)
Held(c, e) == Holds(c, e) \/ (cpc[c] = "decRoot" /\ oldestEi[c] = e)

(* e is Live, and its slot is not being reinitialised.                     *)
Lit(e) ==
    /\ Initialised(e) /\ Live[Slot(e)]
    /\ \A q \in Producers : ~(ppc[q] = "es" /\ Slot(fresh[q]) = Slot(e))

(* Somebody relies on the statistics of e.                                 *)
Kept(e) == (\E c \in Consumers : Held(c, e) \/ Claims(c, e)) \/ Lit(e)

(* Somebody relies on e, or has work in it.                                *)
Protected(e) == Kept(e) \/ Worked(e)

(* The quota argument: no protected epoch is ever lapped.                  *)
QuotaSound == \A e \in Nat : Protected(e) => e <= Epoch(Wt) /\ Safe(e)

(* A view, or a subscription about to attach, never finds another epoch in *)
(* its slot.                                                               *)
KeptSound == \A e \in Nat : Kept(e) => Initialised(e)

-----------------------------------------------------------------------------
(* Statistics: when an epoch of the window is begun, and what its Seqt     *)
(* divides.                                                                *)

(* A writer that crosses is at an epoch it crosses into; what it has       *)
(* written of its statistics is still there.                               *)
InitsSound ==
    \A p \in Producers :
        /\ ppc[p] \in Crossing => Epoch(wret[p]) < fresh[p] /\ fresh[p] <= Epoch(wtprime(p))
        /\ ppc[p] \in {"raise", "es"} =>
              Seqt[Slot(fresh[p])] = wtprime(p) /\ Sd[Slot(fresh[p])] = 0 /\ SqCs[Slot(fresh[p])] # 0
        /\ ppc[p] = "es" => Live[Slot(fresh[p])]

(* A slot holds the statistics of an epoch the tail has reached; a Live    *)
(* one without them is being initialised.                                  *)
SlotSound(k) ==
    /\ Seqt[k] <= Wt
    /\ Es[k] >= 0 => /\ Es[k] <= Epoch(Wt) /\ Slot(Es[k]) = k
                     /\ Es[k] <= Epoch(Seqt[k]) /\ SqCs[k] # 0
    /\ Es[k] < 0 /\ Live[k] => \E p \in Producers : ppc[p] = "es" /\ Slot(fresh[p]) = k

SlotsSound == \A k \in Slots : SlotSound(k)

(* Every epoch of the window is initialised, or some writer has still to.  *)
EpochsBegun ==
    \A e \in Nat : InWindow(e) => Initialised(e) \/ \E p \in Producers : Pending(p, e)

(* Whoever has still to initialise an epoch finds an older one in its      *)
(* slot.                                                                   *)
PendingStale ==
    \A e \in Nat : \A p \in Producers : InWindow(e) /\ Pending(p, e) => Es[Slot(e)] < e

(* A table [s, t) that starts in or after e starts at or after the Seqt of *)
(* e; one that starts before e ends there, or before e.                    *)
Split(e, s, t) ==
    /\ Epoch(s) >= e => s >= Seqt[Slot(e)]
    /\ Epoch(s) < e => Epoch(t) < e \/ t = Seqt[Slot(e)]

EpochSplit(e) ==
    /\ Boundary(Seqt[Slot(e)])
    /\ \A p \in Producers : Writing(p) => Split(e, wret[p], wtprime(p))
    /\ \A i \in Tables : Split(e, Tsent[i], Tnext[i])

EpochsSplit == \A e \in Nat : InWindow(e) /\ Initialised(e) => EpochSplit(e)

(* An epoch with work left is Live.                                        *)
WorkLit == \A e \in Nat : Worked(e) /\ Initialised(e) => Live[Slot(e)]

(* The epoch of a completed table, while it is in the window, is           *)
(* initialised.                                                            *)
DoneBegun ==
    \A i \in Tables : InWindow(Epoch(Tsent[i])) /\ Tprogress[i] => Initialised(Epoch(Tsent[i]))

(* What is known of epochs, ...                                            *)
EpochInv ==
    /\ InitsSound /\ SlotsSound /\ EpochsBegun /\ PendingStale /\ EpochsSplit
    /\ WorkLit /\ DoneBegun

(* ... and of everything a producer's step is about.                       *)
Base == TypeInv /\ Layout /\ WritersSound /\ QuotaSound /\ EpochInv

-----------------------------------------------------------------------------
(* Accounting: the claims and completions of a table, and the words of an  *)
(* epoch that are discharged.                                              *)

(* The units of e whose table is complete and accounted for.               *)
Accounted(e) ==
    {u \in 0 .. MaxSeq : \E i \in Tables :
        /\ Tsent[i] <= u /\ u < Tnext[i] /\ Epoch(Tsent[i]) = e /\ Tprogress[i]
        /\ ~\E c \in Consumers : cpc[c] = "account" /\ tseq[c] = Tsent[i]}

(* Sd counts them.                                                         *)
SdSound ==
    \A e \in Nat : InWindow(e) /\ Initialised(e) => Sd[Slot(e)] = Cardinality(Accounted(e))

(* View c is at the given step of table i.                                 *)
OnTable(c, i, phase) == cpc[c] = phase /\ tseq[c] = Tsent[i]

(* Every claim is completed once or being worked on; the last completion,  *)
(* and only it, sets Tprogress, once, and is accounted for once.           *)
RunSound(i) ==
    /\ Tclaims[i] <= Runs
    /\ Tcomps[i] + Cardinality({c \in Consumers : OnTable(c, i, "complete")}) = Tclaims[i]
    /\ Tprogress[i] => Tcomps[i] = Runs
    /\ \A c \in Consumers : OnTable(c, i, "progress") => Tcomps[i] = Runs /\ ~Tprogress[i]
    /\ Tcomps[i] = Runs /\ ~Tprogress[i] => \E c \in Consumers : OnTable(c, i, "progress")
    /\ \A c \in Consumers : OnTable(c, i, "account") => Tprogress[i]
    /\ \A c, d \in Consumers :
          /\ OnTable(c, i, "progress") /\ OnTable(d, i, "progress") => c = d
          /\ OnTable(c, i, "account") /\ OnTable(d, i, "account") => c = d

RunsSound == \A i \in Tables : RunSound(i)

WorkInv == SdSound /\ RunsSound

(* Subscription: what an attempt has read, and what it may conclude from   *)
(* it.                                                                     *)

(* A subscription that has pinned a candidate, ...                         *)
Candidate == {"candEs", "candRt", "valEs", "valSeqt", "valWt", "valNext", "subLeaf", "unpinCand"}

(* ... is looking for one, ...                                             *)
Scanning == {"hint", "pinCand"} \cup Candidate

(* ... or has copied its statistics.                                       *)
Validated == {"valWt", "valNext", "subLeaf"}

(* The scan passes over no work; a pin holds the candidate's slot; what    *)
(* was copied under the pin is still there.                                *)
AttemptSound(c) ==
    /\ cpc[c] \in Scanning \cup {"pin", "unpinInvalid"} => probe[c] <= Epoch(Wt)
    /\ cpc[c] \in Scanning => at[c] <= probe[c]
    /\ cpc[c] \in Scanning => \A e \in Nat : Worked(e) => e >= at[c]
    /\ cpc[c] = "unpinCand" /\ at[c] < probe[c] => \A e \in Nat : Worked(e) => e > at[c]
    /\ cpc[c] \in Candidate \cup {"unpinInvalid", "subRoot"} => Slot(at[c]) \in subs[c]
    /\ cpc[c] \in {"candRt", "valEs", "valSeqt"} => Es[Slot(at[c])] >= at[c]
    /\ cpc[c] \in Validated =>
          /\ seqtRead[c] = Seqt[Slot(at[c])] /\ sqRead[c] = SqCs[Slot(at[c])]
          /\ at[c] <= Epoch(seqtRead[c])
    /\ cpc[c] = "subLeaf" => Initialised(Epoch(seqtRead[c]))
    /\ ~Attached(c) => sweepSeq[c] = 0 /\ oldSweepSeq[c] = 0

AttemptsInv == \A c \in Consumers : AttemptSound(c)

(* Views: the range of epochs a view holds, its position, the re-walks.    *)

Moving == {"moveLeaf", "moveRoot"}

(* A view's range ends at or behind its position, and a range is left from *)
(* its oldest end.                                                         *)
RangeSound(c) ==
    Attached(c) =>
        /\ oldestEi[c] <= newestEi[c] + 1
        /\ cpc[c] # "leaving" => oldestEi[c] <= newestEi[c]
        /\ newestEi[c] <= Epoch(nextSeq[c]) /\ nextSeq[c] <= Wt
        /\ cpc[c] \in Moving => newestEi[c] < at[c] /\ at[c] <= Epoch(nextSeq[c]) /\ ret[c] # "leaving"
        /\ cpc[c] = "migrate" => newestEi[c] < Epoch(nextSeq[c]) /\ ret[c] # "work"
        /\ cpc[c] = "subRoot" => at[c] = oldestEi[c] /\ at[c] = newestEi[c]
        /\ cpc[c] = "clear" => Confirmed(oldestEi[c])
        /\ cpc[c] \in {"subRoot", "unpinAll"} => ret[c] # "leaving"

RangesSound == \A c \in Consumers : RangeSound(c)

(* No work is behind a view that reads: neither a table being written nor  *)
(* an epoch before its oldest one.                                         *)
ReadingSound(c) ==
    Reading(c) =>
        /\ \A e \in Nat : newestEi[c] < e /\ e <= Epoch(nextSeq[c]) => Initialised(e)
        /\ \A p \in Producers : Writing(p) /\ Epoch(wret[p]) >= oldestEi[c] => wret[p] >= nextSeq[c]
        /\ \A i \in Tables : Tsent[i] < nextSeq[c] => Epoch(Tsent[i]) <= newestEi[c]
        /\ \A e \in Nat : Worked(e) => e >= oldestEi[c]
        /\ cpc[c] = "work" => At(nextSeq[c]) /\ Epoch(nextSeq[c]) = newestEi[c]
        /\ cpc[c] \in Moving /\ ret[c] = "work" => At(nextSeq[c])
        /\ cpc[c] = "sweepOldest" => Behind(c)
        /\ sweepSeq[c] = 0 \/ (Boundary(sweepSeq[c]) /\ Epoch(sweepSeq[c]) >= newestEi[c])
        /\ oldSweepSeq[c] = 0 \/ (Boundary(oldSweepSeq[c]) /\ Epoch(oldSweepSeq[c]) >= oldestEi[c])
        /\ cpc[c] \in {"clear", "decLeaf", "decRoot"} =>
             Behind(c) /\ \A e \in Nat : Worked(e) => e > oldestEi[c]

ReadingsSound == \A c \in Consumers : ReadingSound(c)

(* A view works at, or walks to, whole tables of its range.                *)
WalkSound(c) ==
    /\ cpc[c] \in ClaimPhases =>
         /\ At(tseq[c])
         /\ oldestEi[c] <= Epoch(tseq[c]) /\ Epoch(tseq[c]) <= newestEi[c]
         /\ job[c] \in {"visit", "carried"} => tseq[c] = nextSeq[c] /\ Epoch(tseq[c]) = newestEi[c]
         /\ job[c] = "position" => Epoch(tseq[c]) = newestEi[c]
         /\ job[c] = "trailing" => Epoch(tseq[c]) = oldestEi[c] /\ Behind(c)
         /\ job[c] # "none"
    /\ cpc[c] = "walk" =>
         /\ job[c] \in {"position", "trailing"}
         /\ Boundary(tseq[c])
         /\ job[c] = "position" => Epoch(tseq[c]) >= newestEi[c]
         /\ job[c] = "trailing" => Epoch(tseq[c]) >= oldestEi[c] /\ Behind(c)

WalksSound == \A c \in Consumers : WalkSound(c)

(* Tallies: leaves count holders, roots count leaves, Subs count pins,     *)
(* each up to the edges that are on their way.                             *)

(* The views that count in leaf l of slot k.                               *)
Holders(k, l) ==
    {c \in Consumers : ltiRing[c][k] = l /\ \E e \in Epochs : Slot(e) = k /\ Holds(c, e)}

(* The views that have still to raise the root for the edge they caused,   *)
(* ...                                                                     *)
Raisers(k) == {c \in Consumers : RaisingRoot(c, k)}

(* ... or to lower it.                                                     *)
Lowerers(k) == {c \in Consumers : LoweringRoot(c, k)}

Touched(k) == {l \in Leaves : Lt[k][l] > 0}

Pinners(k) == {c \in Consumers : k \in subs[c]}

LeavesAgree == \A k \in Slots : \A l \in Leaves : Lt[k][l] = Cardinality(Holders(k, l))

RootsAgree ==
    \A k \in Slots : Count[k] + Cardinality(Raisers(k))
                       = Cardinality(Touched(k)) + Cardinality(Lowerers(k))

SubsAgree == \A k \in Slots : Sub[k] = Cardinality(Pinners(k))

(* A leaf's edge is carried to its root by one view at a time.             *)
RaisersApart ==
    \A c, d \in Consumers : \A k \in Slots :
        RaisingRoot(c, k) /\ RaisingRoot(d, k) /\ ltiRing[c][k] = ltiRing[d][k] => c = d

TallyInv == LeavesAgree /\ RootsAgree /\ SubsAgree /\ RaisersApart

(* What is known of views and subscriptions.                               *)
ViewInv == KeptSound /\ AttemptsInv /\ RangesSound /\ TallyInv

(* The invariant of the quota argument.                                    *)
Inv == Base /\ ViewInv /\ ReadingsSound /\ WalksSound /\ WorkInv

-----------------------------------------------------------------------------
(* Arithmetic of sequences, epochs, slots and ring units.                  *)

LEMMA Division ==
    ASSUME NEW n \in Nat \ {0}, NEW s \in Nat
    PROVE  /\ s \div n \in Nat /\ s % n \in 0 .. n - 1
           /\ s = n * (s \div n) + (s % n)
  OBVIOUS

(* A quotient is the only number with its two bounds.                      *)
LEMMA DivisionIsUnique ==
    ASSUME NEW n \in Nat \ {0}, NEW s \in Nat, NEW q \in Int,
           q * n <= s, s < (q + 1) * n
    PROVE  s \div n = q
<1> DEFINE d == s \div n
<1>1. d \in Nat /\ n * d <= s /\ s < n * d + n
  BY Division
<1> HIDE DEF d
<1>2. q < d + 1
  <2>1. SUFFICES ASSUME q >= d + 1 PROVE FALSE
    BY <1>1
  <2>2. q * n >= (d + 1) * n
    BY <2>1, <1>1
  <2>3. QED
    BY <2>2, <1>1
<1>3. d < q + 1
  <2>1. SUFFICES ASSUME d >= q + 1 PROVE FALSE
    BY <1>1
  <2>2. d * n >= (q + 1) * n
    BY <2>1, <1>1
  <2>3. QED
    BY <2>2, <1>1
<1>4. d = q
  BY <1>1, <1>2, <1>3
<1>5. QED
  BY <1>4 DEF d

LEMMA DivisionShift ==
    ASSUME NEW n \in Nat \ {0}, NEW s \in Nat, NEW j \in Nat
    PROVE  (s + j * n) \div n = s \div n + j /\ (s + j * n) % n = s % n
<1> DEFINE d == s \div n
           r == s % n
           t == s + j * n
<1>1. d \in Nat /\ r \in 0 .. n - 1 /\ s = n * d + r
  BY Division
<1>2. t \in Nat
  OBVIOUS
<1>3. (d + j) * n <= t /\ t < (d + j + 1) * n
  <2> HIDE DEF d, r
  <2>1. t = n * d + r + j * n
    BY <1>1
  <2>2. (d + j) * n = n * d + j * n
    BY <1>1
  <2>3. (d + j + 1) * n = n * d + j * n + n
    BY <1>1
  <2>4. QED
    BY <2>1, <2>2, <2>3, <1>1
<1>4. t \div n = d + j
  <2> DEFINE q == d + j
  <2> HIDE DEF d, t
  <2>1. q \in Int /\ q * n <= t /\ t < (q + 1) * n
    BY <1>1, <1>3
  <2> HIDE DEF q
  <2>2. t \div n = q
    BY <1>2, <2>1, DivisionIsUnique
  <2>3. QED
    BY <2>2 DEF q
<1>5. t % n = r
  <2>1. t % n \in 0 .. n - 1 /\ t = n * (t \div n) + (t % n)
    BY <1>2, Division
  <2>2. n * (d + j) = n * d + j * n
    <3> HIDE DEF d
    <3>1. QED
      BY <1>1
  <2> HIDE DEF d, t, r
  <2>3. t = n * (d + j) + (t % n)
    BY <2>1, <1>4
  <2>4. QED
    BY <2>1, <2>2, <2>3, <1>1 DEF t
<1>6. QED
  BY <1>4, <1>5

LEMMA EpochType == \A s \in Nat : Epoch(s) \in Nat
  BY RingArithmetic

LEMMA EpochMonotone ==
    ASSUME NEW a \in Nat, NEW b \in Nat, a <= b
    PROVE  Epoch(a) <= Epoch(b)
<1> DEFINE d == Epoch(a)
           f == Epoch(b)
           n == SegCap
<1>1. n \in Nat \ {0}
  BY GeometryAssumption
<1>2. d \in Nat /\ n * d <= a
  BY <1>1, Division DEF Epoch
<1>3. f \in Nat /\ b < n * f + n
  BY <1>1, Division DEF Epoch
<1>4. SUFFICES ASSUME d >= f + 1 PROVE FALSE
  BY <1>2, <1>3
<1> HIDE DEF d, f, n
<1>5. n * d >= n * (f + 1)
  BY <1>1, <1>2, <1>3, <1>4
<1>6. QED
  BY <1>1, <1>2, <1>3, <1>5

LEMMA EpochShift ==
    ASSUME NEW s \in Nat, NEW j \in Nat
    PROVE  s + j * SegCap \in Nat /\ Epoch(s + j * SegCap) = Epoch(s) + j
<1>1. SegCap \in Nat \ {0}
  BY GeometryAssumption
<1>2. s + j * SegCap \in Nat
  BY <1>1
<1>3. QED
  BY <1>1, <1>2, DivisionShift DEF Epoch

(* A tail that has not reached the next lap of e has not reached the next  *)
(* lap of any unit of e or of a later epoch.                               *)
LEMMA WithinLap ==
    ASSUME NEW e \in Nat, NEW a \in Nat, NEW b \in Nat,
           e <= Epoch(a), Epoch(b) < e + K
    PROVE  b < a + Lap
<1>1. K \in Nat /\ Lap = K * SegCap
  BY GeometryAssumption DEF Lap
<1>2. SUFFICES ASSUME a + Lap <= b PROVE FALSE
  BY <1>1, Sizes
<1>3. a + K * SegCap \in Nat /\ Epoch(a + K * SegCap) = Epoch(a) + K
  BY <1>1, EpochShift
<1>4. Epoch(a) + K <= Epoch(b)
  BY <1>1, <1>2, <1>3, EpochMonotone
<1>5. QED
  BY <1>1, <1>4, EpochType

LEMMA EpochEnds ==
    ASSUME NEW e \in Nat, NEW s \in Nat
    PROVE  s < (e + 1) * SegCap <=> Epoch(s) <= e
<1> DEFINE d == Epoch(s)
           n == SegCap
<1>1. n \in Nat \ {0}
  BY GeometryAssumption
<1>2. d \in Nat /\ n * d <= s /\ s < n * d + n
  BY <1>1, Division DEF Epoch
<1> HIDE DEF d, n
<1>3. ASSUME s < (e + 1) * n, d >= e + 1 PROVE FALSE
  <2>1. n * d >= n * (e + 1)
    BY <1>1, <1>2, <1>3
  <2>2. QED
    BY <2>1, <1>1, <1>2, <1>3
<1>4. ASSUME d <= e PROVE s < (e + 1) * n
  <2>1. n * d <= n * e
    BY <1>1, <1>2, <1>4
  <2>2. QED
    BY <2>1, <1>1, <1>2
<1>5. QED
  BY <1>1, <1>2, <1>3, <1>4 DEF d, n

(* Less than n apart, two numbers have different remainders, ...           *)
LEMMA RemaindersApart ==
    ASSUME NEW n \in Nat \ {0}, NEW a \in Nat, NEW b \in Nat, a < b, b < a + n
    PROVE  a % n # b % n
<1> DEFINE d == a \div n
           f == b \div n
           r == a % n
<1>1. d \in Nat /\ r \in 0 .. n - 1 /\ a = n * d + r
  BY Division
<1>2. f \in Nat /\ b % n \in 0 .. n - 1 /\ b = n * f + (b % n)
  BY Division
<1>3. SUFFICES ASSUME r = b % n PROVE FALSE
  OBVIOUS
<1> HIDE DEF d, f, r
<1>4. f > d
  <2>1. SUFFICES ASSUME f <= d PROVE FALSE
    BY <1>1, <1>2
  <2>2. n * f <= n * d
    BY <2>1, <1>1, <1>2
  <2>3. QED
    BY <2>2, <1>1, <1>2, <1>3
<1>5. n * f >= n * (d + 1)
  BY <1>1, <1>2, <1>4
<1>6. QED
  BY <1>1, <1>2, <1>3, <1>5

(* ... so two epochs of one window have different slots, ...               *)
LEMMA SlotsApart ==
    ASSUME NEW e \in Nat, NEW f \in Nat, Slot(e) = Slot(f), e < f + K, f < e + K
    PROVE  e = f
<1>1. K \in Nat \ {0} /\ e % K = f % K
  BY GeometryAssumption DEF Slot
<1>2. ~(e < f) /\ ~(f < e)
  BY <1>1, RemaindersApart
<1>3. QED
  BY <1>2

(* ... and two sequences of one lap different units.                       *)
LEMMA UnitsApart ==
    ASSUME NEW a \in Nat, NEW b \in Nat, Idx(a) = Idx(b), a < b + Lap, b < a + Lap
    PROVE  a = b
<1>1. Lap \in Nat \ {0} /\ a % Lap = b % Lap
  BY Sizes DEF Idx
<1>2. ~(a < b) /\ ~(b < a)
  BY <1>1, RemaindersApart
<1>3. QED
  BY <1>2

LEMMA SlotShift ==
    ASSUME NEW e \in Nat
    PROVE  Slot(e + K) = Slot(e)
<1>1. K \in Nat \ {0} /\ e + 1 * K = e + K
  BY GeometryAssumption
<1>2. (e + 1 * K) % K = e % K
  BY <1>1, DivisionShift
<1>3. QED
  BY <1>1, <1>2 DEF Slot

-----------------------------------------------------------------------------
(* Layout.  Steps that move no table and no writer keep it, the fetch-add, *)
(* the words of a table and its sentinel each keep it.                     *)

(* Steps that move no table and no writer.                                 *)
SameLayout ==
    /\ UNCHANGED <<Wt, Tsent, Tnext, Tsq>>
    /\ \A q \in Producers :
         /\ Writing(q)' <=> Writing(q)
         /\ ppc'[q] = "sentinel" <=> ppc[q] = "sentinel"
         /\ Writing(q) => wret'[q] = wret[q] /\ size'[q] = size[q]

LEMMA SameTables ==
    ASSUME SameLayout
    PROVE  Tables' = Tables
<1>1. \A i : i \in Tables' <=> i \in Tables
  <2> TAKE i
  <2>1. \A q \in Producers : (ppc'[q] = "sentinel" /\ Idx(wret'[q]) = i)
                          <=> (ppc[q] = "sentinel" /\ Idx(wret[q]) = i)
    BY DEF SameLayout, Writing
  <2>2. QED
    BY <2>1 DEF Tables, SameLayout
<1>2. QED
  BY <1>1

LEMMA SameLayoutKeeps ==
    ASSUME SameLayout, Layout
    PROVE  Layout'
<1>1. Tables' = Tables /\ Wt' = Wt /\ Tsent' = Tsent /\ Tnext' = Tnext /\ Tsq' = Tsq
  BY SameTables DEF SameLayout
<1>2. \A q \in Producers : Writing(q)' <=> Writing(q)
  BY DEF SameLayout
<1>3. \A q \in Producers : Writing(q) => wret'[q] = wret[q] /\ wtprime(q)' = wtprime(q)
  BY DEF SameLayout, wtprime
<1>4. TailBounded' /\ WriterRanges'
  BY <1>1, <1>2, <1>3 DEF SameLayout, Layout, TailBounded, WriterRanges
<1>5. WritersApart'
  BY <1>2, <1>3 DEF Layout, WritersApart, Apart
<1>6. SentinelsSound'
  BY <1>1, <1>2, <1>3 DEF Layout, SentinelsSound, SentinelSound
<1>7. TablesSound'
  BY <1>1, <1>2, <1>3 DEF Layout, TablesSound, TableSound, Apart
<1>8. \A s : Boundary(s)' <=> Boundary(s)
  BY <1>1, <1>2, <1>3 DEF Boundary, At
<1>9. Chained'
  BY <1>1, <1>2, <1>3, <1>8 DEF Layout, Chained, Recent
<1>10. QED
  BY <1>4, <1>5, <1>6, <1>7, <1>9 DEF Layout

(* What becomes of tables and writers in any step.                         *)
WordsKept(i) ==
    /\ Tsent'[i] = Tsent[i] /\ Tnext'[i] = Tnext[i] /\ Tsq'[i] = Tsq[i]

ProgressKept(i) ==
    Tclaims'[i] = Tclaims[i] /\ Tcomps'[i] = Tcomps[i] /\ Tprogress'[i] = Tprogress[i]

LayoutKept ==
    /\ Wt <= Wt'
    /\ \A s \in Nat : Boundary(s) /\ Wt' <= s + Lap => Boundary(s)'
    /\ \A i \in Tables : Wt' <= Tsent[i] + Lap => i \in Tables' /\ WordsKept(i)
    /\ \A q \in Producers : Writing(q)' =>
          \/ Writing(q) /\ wret'[q] = wret[q] /\ size'[q] = size[q]
          \/ wret'[q] = Wt
    /\ \A i \in Tables' :
          \/ i \in Tables /\ WordsKept(i)
          \/ \E q \in Producers :
                ppc[q] = "sentinel" /\ Tsent'[i] = wret[q] /\ Tnext'[i] = wtprime(q) /\ Idx(wret[q]) = i

LEMMA LayoutTypes ==
    ASSUME TypeInv
    PROVE  /\ Wt \in Nat /\ Lap \in Nat /\ Lap > 0
           /\ \A p \in Producers : /\ wret[p] \in Nat /\ size[p] \in Nat /\ wtprime(p) \in Nat
                                   /\ wret[p] <= wtprime(p) /\ wtprime(p) = wret[p] + size[p]
                                   /\ fresh[p] \in Nat /\ anchor[p] \in Nat /\ Idx(wret[p]) \in Indices
           /\ \A i \in Indices : Tsent[i] \in Int /\ Tnext[i] \in Nat
<1>1. Lap \in Nat /\ Lap > 0
  BY Sizes
<1>2. Wt \in Nat /\ Tsent \in [Indices -> Int] /\ Tnext \in [Indices -> Nat]
  BY DEF TypeInv, TypeOK, FarmTypeOK, TailTypeOK, RingTypeOK
<1>3. /\ wret \in [Producers -> Nat] /\ size \in [Producers -> 0 .. Lap]
      /\ fresh \in [Producers -> Nat] /\ anchor \in [Producers -> Nat]
  BY DEF TypeInv, TypeOK, ProducerTypeOK
<1>4. ASSUME NEW p \in Producers
      PROVE  /\ wret[p] \in Nat /\ size[p] \in Nat /\ wtprime(p) \in Nat
             /\ wret[p] <= wtprime(p) /\ wtprime(p) = wret[p] + size[p]
             /\ fresh[p] \in Nat /\ anchor[p] \in Nat /\ Idx(wret[p]) \in Indices
  <2>1. wret[p] \in Nat /\ size[p] \in Nat /\ fresh[p] \in Nat /\ anchor[p] \in Nat
    BY <1>1, <1>3
  <2>2. QED
    BY <2>1, RingArithmetic DEF wtprime
<1>5. QED
  BY <1>1, <1>2, <1>4

LEMMA SameLayoutKept ==
    ASSUME TypeInv, SameLayout
    PROVE  LayoutKept
<1>1. Tables' = Tables /\ Wt' = Wt /\ Tsent' = Tsent /\ Tnext' = Tnext /\ Tsq' = Tsq
  BY SameTables DEF SameLayout
<1>2. \A q \in Producers : Writing(q)' <=> Writing(q)
  BY DEF SameLayout
<1>3. \A q \in Producers : Writing(q) => wret'[q] = wret[q] /\ size'[q] = size[q]
  BY DEF SameLayout
<1>4. \A s : Boundary(s)' <=> Boundary(s)
  BY <1>1, <1>2, <1>3 DEF Boundary, At
<1>5. QED
  BY <1>1, <1>2, <1>3, <1>4, LayoutTypes DEF LayoutKept, WordsKept

(* The fetch-add of the tail.                                              *)
LEMMA ReserveLayout ==
    ASSUME TypeInv, Layout, NEW p \in Producers, Reserve(p)
    PROVE  Layout' /\ LayoutKept
<1> USE LayoutTypes
<1>1. /\ ppc[p] = "reserve" /\ Wt' = Wt + size[p] /\ Wt' <= MaxSeq
      /\ size' = size /\ Tsent' = Tsent /\ Tnext' = Tnext /\ Tsq' = Tsq
      /\ wret' = [wret EXCEPT ![p] = Wt]
      /\ \E x \in {"check", "table"} : ppc' = [ppc EXCEPT ![p] = x]
  BY DEF Reserve, Become, ringVars
<1>2. /\ ppc \in [Producers -> PPhases] /\ wret \in [Producers -> Nat]
      /\ size[p] >= 1
  BY <1>1 DEF TypeInv, TypeOK, ProducerTypeOK, SizesFit
<1>3. \A q \in Producers : q # p => (Writing(q)' <=> Writing(q)) /\ wret'[q] = wret[q] /\ wtprime(q)' = wtprime(q) /\ ppc'[q] = ppc[q]
  BY <1>1, <1>2 DEF Writing, wtprime
<1>4. Writing(p)' /\ wret'[p] = Wt /\ wtprime(p)' = Wt' /\ ~Writing(p) /\ ppc'[p] # "sentinel" /\ ppc[p] # "sentinel"
  BY <1>1, <1>2 DEF Writing, wtprime
<1>5. \A i : i \in Tables' <=> i \in Tables
  <2> TAKE i
  <2>1. \A q \in Producers : (ppc'[q] = "sentinel" /\ Idx(wret'[q]) = i)
                          <=> (ppc[q] = "sentinel" /\ Idx(wret[q]) = i)
    BY <1>3, <1>4
  <2>2. QED
    BY <2>1, <1>1 DEF Tables
<1>6. Tables' = Tables
  BY <1>5
<1>7. TailBounded' /\ WriterRanges'
  BY <1>1, <1>2, <1>3, <1>4 DEF Layout, TailBounded, WriterRanges
<1>8. WritersApart'
  <2>1. \A q \in Producers : Writing(q) => wtprime(q) <= Wt
    BY DEF Layout, WriterRanges
  <2>2. QED
    BY <2>1, <1>3, <1>4 DEF Layout, WritersApart, Apart
<1>9. SentinelsSound'
  BY <1>1, <1>2, <1>3, <1>4 DEF Layout, SentinelsSound, SentinelSound
<1>10. TablesSound'
  <2>1. \A i \in Tables : i \in Indices
    BY DEF Tables
  <2>2. QED
    BY <1>1, <1>2, <1>3, <1>4, <1>6, <2>1 DEF Layout, TablesSound, TableSound, Apart
<1>11. \A s : Boundary(s) => Boundary(s)'
  BY <1>1, <1>3, <1>4, <1>6 DEF Boundary, At
<1>12. Chained'
  <2>1. Boundary(wtprime(p))'
    BY <1>4 DEF Boundary
  <2>2. \A q \in Producers : Writing(q)' => Boundary(wtprime(q))'
    <3> TAKE q \in Producers
    <3>1. CASE q = p
      BY <3>1, <2>1
    <3>2. CASE q # p
      <4>1. Writing(q)' => Writing(q) /\ wtprime(q)' = wtprime(q)
        BY <3>2, <1>3
      <4>2. Writing(q) => Boundary(wtprime(q))
        BY DEF Layout, Chained
      <4>3. Boundary(wtprime(q)) => Boundary(wtprime(q))'
        BY <1>1, <1>3, <1>4, <1>6, <3>2 DEF Boundary, At
      <4>4. QED
        BY <4>1, <4>2, <4>3
    <3>3. QED
      BY <3>1, <3>2
  <2>3. \A i \in Tables : Recent(Tnext[i])' => Recent(Tnext[i])
    BY <1>1, <1>2 DEF Recent, Tables
  <2>4. \A i \in Tables' : Recent(Tnext[i])' => Boundary(Tnext[i])'
    <3> TAKE i \in Tables'
    <3>1. i \in Tables
      BY <1>6
    <3>2. Recent(Tnext[i]) => Boundary(Tnext[i])
      BY <3>1 DEF Layout, Chained
    <3>3. Boundary(Tnext[i]) => Boundary(Tnext[i])'
      BY <1>1, <1>3, <1>4, <1>6 DEF Boundary, At
    <3>4. QED
      BY <3>1, <3>2, <3>3, <2>3
  <2>5. QED
    BY <2>2, <2>4 DEF Chained
<1>13. Layout'
  BY <1>7, <1>8, <1>9, <1>10, <1>12 DEF Layout
<1>14. LayoutKept
  BY <1>1, <1>2, <1>3, <1>4, <1>6, <1>11 DEF LayoutKept, WordsKept
<1>15. QED
  BY <1>13, <1>14

(* The words of a table and its sentinel.                                  *)
(* Two live units a lap of the ring holds are in different places.         *)
LEMMA WriterUnits ==
    ASSUME TypeInv, Layout, WritersRecent, NEW p \in Producers, Writing(p),
           NEW j \in 0 .. size[p] - 1, NEW s \in Nat,
           Idx(s) = Idx(wret[p] + j), s < Wt, Wt <= s + Lap
    PROVE  s = wret[p] + j
<1> USE LayoutTypes
<1>1. wret[p] + j \in Nat /\ wret[p] + j < Wt /\ Wt < wret[p] + j + Lap
  BY DEF Layout, WriterRanges, WritersRecent
<1>2. QED
  BY <1>1, UnitsApart

LEMMA StoreTableEffect ==
    ASSUME TypeInv, Layout, WritersSound, WritersRecent, NEW p \in Producers, StoreTable(p)
    PROVE  /\ Wt' = Wt /\ wret' = wret /\ size' = size
           /\ \A q \in Producers : Writing(q)' <=> Writing(q)
           /\ Writing(p)
           /\ \A i \in Tables' : i \in Tables /\ WordsKept(i) /\ ProgressKept(i)
           /\ \A i \in Indices : Tsent'[i] # NoSeq => Tsent'[i] = Tsent[i]
           /\ \A i \in Tables : Wt <= Tsent[i] + Lap =>
                  i \in Tables' /\ WordsKept(i) /\ ProgressKept(i)
           /\ \A i \in Indices : (\A j \in 0 .. size[p] - 1 : i # Idx(wret[p] + j)) =>
                  WordsKept(i) /\ ProgressKept(i)
           /\ Unpublished(p)'
<1> USE LayoutTypes
<1> DEFINE body == Body(wret[p], size[p])
           i0 == Idx(wret[p])
<1>1. /\ ppc[p] = "table" /\ ppc' = [ppc EXCEPT ![p] = "sentinel"]
      /\ Wt' = Wt /\ wret' = wret /\ size' = size /\ sq' = sq
  BY DEF StoreTable, Become, tailVars
<1>2. /\ ppc \in [Producers -> PPhases] /\ Tsent \in [Indices -> Int]
      /\ sq \in [Producers -> 0 .. MaxLeaves]
  BY DEF TypeInv, TypeOK, ProducerTypeOK, FarmTypeOK, RingTypeOK
<1>3. \A q \in Producers : Writing(q)' <=> Writing(q)
  BY <1>1, <1>2 DEF Writing
<1>4. Writing(p) /\ i0 \in Indices /\ size[p] >= 1 /\ wtprime(p) <= Wt
  BY <1>1 DEF Writing, Layout, WriterRanges
<1>5. \A i \in Indices : i # i0 /\ i \notin body => WordsKept(i) /\ ProgressKept(i)
  BY DEF StoreTable, WordsKept, ProgressKept
<1>6. \A i \in Indices : i \in body => Tsent'[i] = NoSeq
  BY DEF StoreTable
<1>7. \A i \in Indices : Tsent'[i] # NoSeq => Tsent'[i] = Tsent[i]
  BY DEF StoreTable
<1>8. i0 \notin body
  <2>1. SUFFICES ASSUME NEW j \in 1 .. size[p] - 1, i0 = Idx(wret[p] + j) PROVE FALSE
    BY DEF Body
  <2>2. wret[p] < Wt /\ Wt <= wret[p] + Lap
    BY <1>4 DEF WritersRecent
  <2>3. wret[p] = wret[p] + j
    BY <2>1, <2>2, <1>4, WriterUnits
  <2>4. QED
    BY <2>3
<1>9. Unpublished(p)'
  <2>1. Tnext'[i0] = wtprime(p) /\ Tsq'[i0] = sq[p] /\ Tclaims'[i0] = 0 /\ Tcomps'[i0] = 0 /\ ~Tprogress'[i0]
    BY <1>4, <1>8 DEF StoreTable
  <2>3. sq[p] # 0
    BY <1>1 DEF WritersSound
  <2>2. wtprime(p)' = wtprime(p) /\ Idx(wret[p])' = i0
    BY <1>1 DEF wtprime
  <2>4. QED
    BY <2>1, <2>2, <2>3 DEF Unpublished
<1>10. \A i \in Tables' : i \in Tables /\ i # i0 /\ i \notin body
  <2> TAKE i \in Tables'
  <2>1. i \in Indices /\ Tsent'[i] # NoSeq
    BY DEF Tables
  <2>2. i \notin body
    BY <2>1, <1>6
  <2>3. ppc'[p] = "sentinel" /\ wret'[p] = wret[p]
    BY <1>1, <1>2
  <2>4. i # i0
    BY <2>3 DEF Tables
  <2>5. \A q \in Producers : ppc[q] = "sentinel" => ppc'[q] = "sentinel" /\ wret'[q] = wret[q]
    BY <1>1, <1>2
  <2>6. \A q \in Producers : ~(ppc[q] = "sentinel" /\ Idx(wret[q]) = i)
    BY <2>5 DEF Tables
  <2>7. QED
    BY <2>1, <2>2, <2>4, <2>6, <1>7 DEF Tables
<1>11. \A i \in Indices : (\A j \in 0 .. size[p] - 1 : i # Idx(wret[p] + j)) => i # i0 /\ i \notin body
  <2> TAKE i \in Indices
  <2>1. HAVE \A j \in 0 .. size[p] - 1 : i # Idx(wret[p] + j)
  <2>2. 0 \in 0 .. size[p] - 1 /\ wret[p] + 0 = wret[p]
    BY <1>4
  <2>3. i # i0
    BY <2>1, <2>2
  <2>4. \A j \in 1 .. size[p] - 1 : j \in 0 .. size[p] - 1
    OBVIOUS
  <2>5. i \notin body
    BY <2>1, <2>4 DEF Body
  <2>6. QED
    BY <2>3, <2>5
<1>12. \A i \in Tables : Wt <= Tsent[i] + Lap => i # i0 /\ i \notin body
  <2> TAKE i \in Tables
  <2>1. HAVE Wt <= Tsent[i] + Lap
  <2>2. i \in Indices /\ Tsent[i] # NoSeq
    BY DEF Tables
  <2>3. /\ Tsent[i] \in Nat /\ Idx(Tsent[i]) = i /\ Tsent[i] < Wt
        /\ Tsent[i] < wret[p] \/ wtprime(p) <= Tsent[i]
    BY <2>2, <1>4 DEF Layout, SentinelsSound, SentinelSound
  <2>4. \A j \in 0 .. size[p] - 1 : i # Idx(wret[p] + j)
    <3> TAKE j \in 0 .. size[p] - 1
    <3>1. SUFFICES ASSUME i = Idx(wret[p] + j) PROVE FALSE
      OBVIOUS
    <3>2. Tsent[i] = wret[p] + j
      BY <3>1, <2>1, <2>3, <1>4, WriterUnits
    <3>3. QED
      BY <3>2, <2>3
  <2>5. QED
    BY <2>2, <2>4, <1>11
<1>13. \A i \in Tables : Wt <= Tsent[i] + Lap => i \in Tables'
  <2> TAKE i \in Tables
  <2>1. HAVE Wt <= Tsent[i] + Lap
  <2>2. i \in Indices /\ Tsent[i] # NoSeq /\ i # i0 /\ i \notin body
    BY <2>1, <1>12 DEF Tables
  <2>3. Tsent'[i] = Tsent[i]
    BY <2>2, <1>5 DEF WordsKept
  <2>4. \A q \in Producers : ~(ppc[q] = "sentinel" /\ Idx(wret[q]) = i)
    BY DEF Tables
  <2>5. \A q \in Producers : q # p => ppc'[q] = ppc[q]
    BY <1>1, <1>2
  <2>6. \A q \in Producers : ~(ppc'[q] = "sentinel" /\ Idx(wret'[q]) = i)
    BY <2>2, <2>4, <2>5, <1>1
  <2>7. QED
    BY <2>2, <2>3, <2>6 DEF Tables
<1>14. Tables \subseteq Indices
  BY DEF Tables
<1> HIDE DEF body, i0
<1>15. \A i \in Tables' : i \in Tables /\ WordsKept(i) /\ ProgressKept(i)
  BY <1>5, <1>10, <1>14
<1>16. \A i \in Tables : Wt <= Tsent[i] + Lap =>
          i \in Tables' /\ WordsKept(i) /\ ProgressKept(i)
  BY <1>5, <1>12, <1>13, <1>14
<1>17. \A i \in Indices : (\A j \in 0 .. size[p] - 1 : i # Idx(wret[p] + j)) =>
          WordsKept(i) /\ ProgressKept(i)
  BY <1>5, <1>11
<1>18. QED
  BY <1>1, <1>3, <1>4, <1>7, <1>9, <1>15, <1>16, <1>17

LEMMA StoreTableLayout ==
    ASSUME TypeInv, Layout, WritersSound, WritersRecent, NEW p \in Producers, StoreTable(p)
    PROVE  Layout' /\ LayoutKept
<1> USE LayoutTypes
<1>1. /\ Wt' = Wt /\ wret' = wret /\ size' = size
      /\ \A q \in Producers : Writing(q)' <=> Writing(q)
  BY StoreTableEffect
<1>2. /\ \A i \in Tables' : i \in Tables /\ WordsKept(i)
      /\ \A i \in Indices : Tsent'[i] # NoSeq => Tsent'[i] = Tsent[i]
      /\ \A i \in Tables : Wt <= Tsent[i] + Lap => i \in Tables' /\ WordsKept(i)
  BY StoreTableEffect
<1>3. \A q \in Producers : wtprime(q)' = wtprime(q)
  BY <1>1 DEF wtprime
<1>4. TailBounded' /\ WriterRanges' /\ WritersApart'
  BY <1>1, <1>3 DEF Layout, TailBounded, WriterRanges, WritersApart, Apart
<1>5. SentinelsSound'
  BY <1>1, <1>2, <1>3 DEF Layout, SentinelsSound, SentinelSound
<1>6. TablesSound'
  BY <1>1, <1>2, <1>3 DEF Layout, TablesSound, TableSound, Apart, WordsKept
<1>7. \A s \in Nat : Boundary(s) /\ Wt <= s + Lap => Boundary(s)'
  BY <1>1, <1>2 DEF Boundary, At, WordsKept
<1>8. \A q \in Producers : Writing(q)' => Boundary(wtprime(q))'
  <2> TAKE q \in Producers
  <2>1. HAVE Writing(q)'
  <2>2. Writing(q) /\ wtprime(q)' = wtprime(q) /\ wtprime(q) \in Nat
    BY <2>1, <1>1, <1>3
  <2>3. Boundary(wtprime(q))
    BY <2>2 DEF Layout, Chained
  <2>4. Wt <= wtprime(q) + Lap
    BY <2>2 DEF WritersRecent
  <2>5. QED
    BY <2>2, <2>3, <2>4, <1>7
<1>9. \A i \in Tables' : Recent(Tnext[i])' => Boundary(Tnext[i])'
  <2> TAKE i \in Tables'
  <2>1. HAVE Recent(Tnext[i])'
  <2>2. i \in Tables /\ Tnext'[i] = Tnext[i] /\ Tnext[i] \in Nat
    BY <1>2 DEF WordsKept, Tables
  <2>3. Wt <= Tnext[i] + Lap
    BY <2>1, <2>2, <1>1 DEF Recent
  <2>4. Boundary(Tnext[i])
    BY <2>2, <2>3 DEF Layout, Chained, Recent
  <2>5. QED
    BY <2>2, <2>3, <2>4, <1>7
<1>10. Layout'
  BY <1>4, <1>5, <1>6, <1>8, <1>9 DEF Layout, Chained
<1>11. LayoutKept
  BY <1>1, <1>2, <1>7 DEF LayoutKept
<1>12. QED
  BY <1>10, <1>11

LEMMA PublishTableEffect ==
    ASSUME TypeInv, Layout, WritersSound, WritersRecent, NEW p \in Producers, PublishTable(p)
    PROVE  /\ Wt' = Wt /\ Tnext' = Tnext /\ Tsq' = Tsq
           /\ UNCHANGED <<Tclaims, Tcomps, Tprogress>>
           /\ Writing(p) /\ ~Writing(p)' /\ ppc[p] = "sentinel"
           /\ \A q \in Producers : q # p =>
                 /\ Writing(q)' <=> Writing(q)
                 /\ ppc'[q] = ppc[q] /\ wret'[q] = wret[q] /\ size'[q] = size[q]
                 /\ wtprime(q)' = wtprime(q)
           /\ Idx(wret[p]) \notin Tables /\ Tsent'[Idx(wret[p])] = wret[p]
           /\ \A i \in Indices : i # Idx(wret[p]) => Tsent'[i] = Tsent[i]
           /\ Tables' = Tables \cup {Idx(wret[p])}
<1> USE LayoutTypes
<1> DEFINE i0 == Idx(wret[p])
<1>1. /\ ppc[p] = "sentinel" /\ ppc' = [ppc EXCEPT ![p] = "idle"]
      /\ wret' = [wret EXCEPT ![p] = 0] /\ size' = [size EXCEPT ![p] = 0]
      /\ Tsent' = [Tsent EXCEPT ![i0] = wret[p]]
      /\ Wt' = Wt /\ Tnext' = Tnext /\ Tsq' = Tsq
      /\ UNCHANGED <<Tclaims, Tcomps, Tprogress>>
  BY DEF PublishTable, Return, Become, tailVars
<1>2. /\ ppc \in [Producers -> PPhases] /\ Tsent \in [Indices -> Int]
      /\ wret \in [Producers -> Nat] /\ size \in [Producers -> 0 .. Lap]
  BY DEF TypeInv, TypeOK, ProducerTypeOK, FarmTypeOK, RingTypeOK
<1>3. Writing(p) /\ ~Writing(p)'
  BY <1>1, <1>2 DEF Writing
<1>4. \A q \in Producers : q # p =>
        /\ Writing(q)' <=> Writing(q)
        /\ ppc'[q] = ppc[q] /\ wret'[q] = wret[q] /\ size'[q] = size[q]
        /\ wtprime(q)' = wtprime(q)
  BY <1>1, <1>2 DEF Writing, wtprime
<1>5. i0 \in Indices /\ i0 \notin Tables /\ Tsent'[i0] = wret[p] /\ wret[p] # NoSeq
  BY <1>1, <1>2 DEF Tables, NoSeq
<1>6. \A i \in Indices : i # i0 => Tsent'[i] = Tsent[i]
  BY <1>1, <1>2
<1>7. \A q \in Producers : q # p /\ ppc[q] = "sentinel" => Idx(wret[q]) # i0
  <2>1. SUFFICES ASSUME NEW q \in Producers, q # p, ppc[q] = "sentinel", Idx(wret[q]) = Idx(wret[p])
                 PROVE  FALSE
    OBVIOUS
  <2>2. Writing(q)
    BY <2>1 DEF Writing
  <2>3. wtprime(q) <= Wt /\ wtprime(p) <= Wt /\ size[q] >= 1 /\ size[p] >= 1
    BY <2>2, <1>3 DEF Layout, WriterRanges
  <2>4. Wt < wret[q] + Lap /\ Wt < wret[p] + Lap
    BY <2>2, <1>3 DEF WritersRecent
  <2>5. wret[q] < wret[p] + Lap /\ wret[p] < wret[q] + Lap
    BY <2>3, <2>4
  <2>6. wret[q] = wret[p]
    BY <2>1, <2>5, UnitsApart
  <2>7. Apart(wret[p], wtprime(p), wret[q], wtprime(q))
    BY <2>1, <2>2, <1>3 DEF Layout, WritersApart
  <2>8. QED
    BY <2>3, <2>6, <2>7 DEF Apart
<1>8. \A i : i \in Tables' <=> i \in Tables \/ i = i0
  <2> TAKE i
  <2>1. CASE i = i0
    <3>1. \A q \in Producers : ~(ppc'[q] = "sentinel" /\ Idx(wret'[q]) = i)
      BY <1>1, <1>2, <1>4, <1>7, <2>1
    <3>2. QED
      BY <3>1, <2>1, <1>5 DEF Tables
  <2>2. CASE i # i0
    <3>1. \A q \in Producers : (ppc'[q] = "sentinel" /\ Idx(wret'[q]) = i)
                           <=> (ppc[q] = "sentinel" /\ Idx(wret[q]) = i)
      BY <1>1, <1>2, <1>4, <2>2
    <3>2. QED
      BY <3>1, <2>2, <1>6 DEF Tables
  <2>3. QED
    BY <2>1, <2>2
<1>9. Tables' = Tables \cup {i0}
  BY <1>8
<1>10. QED
  BY <1>1, <1>3, <1>4, <1>5, <1>6, <1>9

LEMMA PublishTableLayout ==
    ASSUME TypeInv, Layout, WritersSound, WritersRecent, NEW p \in Producers, PublishTable(p)
    PROVE  Layout' /\ LayoutKept
<1> USE LayoutTypes
<1>0. PICK i0 \in Indices : i0 = Idx(wret[p])
  OBVIOUS
<1>1. /\ Wt' = Wt /\ Tnext' = Tnext /\ Tsq' = Tsq
      /\ Writing(p) /\ ~Writing(p)'
      /\ \A q \in Producers : q # p =>
            /\ Writing(q)' <=> Writing(q)
            /\ wret'[q] = wret[q] /\ size'[q] = size[q]
            /\ wtprime(q)' = wtprime(q)
  BY PublishTableEffect
<1>2. /\ i0 \in Indices /\ i0 \notin Tables /\ Tsent'[i0] = wret[p]
      /\ \A i \in Indices : i # i0 => Tsent'[i] = Tsent[i]
      /\ Tables' = Tables \cup {i0}
  BY <1>0, PublishTableEffect
<1>3. /\ ppc[p] = "sentinel" /\ Tnext[i0] = wtprime(p) /\ Tsq[i0] # 0
      /\ wret[p] < wtprime(p) /\ wtprime(p) <= Wt /\ size[p] >= 1
  <2>1. ppc[p] = "sentinel"
    BY PublishTableEffect
  <2>2. QED
    BY <2>1, <1>0, <1>1 DEF WritersSound, Unpublished, Layout, WriterRanges
<1>4. Tables \subseteq Indices
  BY DEF Tables
<1>5. TailBounded' /\ WriterRanges' /\ WritersApart'
  BY <1>1 DEF Layout, TailBounded, WriterRanges, WritersApart, Apart
<1>6. SentinelsSound'
  <2> SUFFICES ASSUME NEW i \in Indices PROVE SentinelSound(i)'
    BY DEF SentinelsSound
  <2>1. CASE i = i0
    <3>1. \A q \in Producers : Writing(q)' => wret[p] < wret'[q] \/ wtprime(q)' <= wret[p]
      <4>1. SUFFICES ASSUME NEW q \in Producers, Writing(q)'
                     PROVE  wret[p] < wret'[q] \/ wtprime(q)' <= wret[p]
        OBVIOUS
      <4>2. q # p /\ Writing(q) /\ wret'[q] = wret[q] /\ wtprime(q)' = wtprime(q)
        BY <4>1, <1>1
      <4>3. Apart(wret[p], wtprime(p), wret[q], wtprime(q))
        BY <4>2, <1>1 DEF Layout, WritersApart
      <4>4. QED
        BY <4>2, <4>3, <1>3 DEF Apart
    <3>2. Tsent'[i] = wret[p] /\ wret[p] \in Nat /\ Idx(wret[p]) = i /\ wret[p] < Wt'
      BY <2>1, <1>0, <1>1, <1>2, <1>3
    <3>3. QED
      BY <3>1, <3>2 DEF SentinelSound
  <2>2. CASE i # i0
    <3>1. Tsent'[i] = Tsent[i] /\ SentinelSound(i)
      BY <2>2, <1>2 DEF Layout, SentinelsSound
    <3>2. QED
      BY <3>1, <1>1 DEF SentinelSound
  <2>3. QED
    BY <2>1, <2>2
<1>7. TablesSound'
  <2>1. \A j \in Tables : Tsent'[j] = Tsent[j] /\ j # i0 /\ j \in Indices
    BY <1>2, <1>4
  <2>2. \A j \in Tables : Apart(Tsent[j], Tnext[j], wret[p], wtprime(p))
    BY <1>1 DEF Layout, TablesSound, TableSound
  <2>3. TableSound(i0)'
    <3>1. \A q \in Producers : Writing(q)' => Apart(Tsent[i0], Tnext[i0], wret[q], wtprime(q))'
      <4>1. SUFFICES ASSUME NEW q \in Producers, Writing(q)'
                     PROVE  Apart(Tsent[i0], Tnext[i0], wret[q], wtprime(q))'
        OBVIOUS
      <4>2. q # p /\ Writing(q) /\ wret'[q] = wret[q] /\ wtprime(q)' = wtprime(q)
        BY <4>1, <1>1
      <4>3. Apart(wret[p], wtprime(p), wret[q], wtprime(q))
        BY <4>2, <1>1 DEF Layout, WritersApart
      <4>4. QED
        BY <4>2, <4>3, <1>1, <1>2, <1>3 DEF Apart
    <3>2. \A j \in Tables' : j # i0 => Apart(Tsent[i0], Tnext[i0], Tsent[j], Tnext[j])'
      BY <2>1, <2>2, <1>1, <1>2, <1>3 DEF Apart
    <3>3. QED
      BY <3>1, <3>2, <1>1, <1>2, <1>3 DEF TableSound
  <2>4. ASSUME NEW i \in Tables PROVE TableSound(i)'
    <3>1. TableSound(i) /\ Tsent'[i] = Tsent[i] /\ Tnext'[i] = Tnext[i] /\ Tsq'[i] = Tsq[i]
      BY <2>1, <1>1 DEF Layout, TablesSound
    <3>2. \A q \in Producers : Writing(q)' => Apart(Tsent[i], Tnext[i], wret[q], wtprime(q))'
      BY <3>1, <1>1 DEF TableSound, Apart
    <3>3. \A j \in Tables' : j # i => Apart(Tsent[i], Tnext[i], Tsent[j], Tnext[j])'
      <4> TAKE j \in Tables'
      <4>1. HAVE j # i
      <4>2. CASE j = i0
        BY <4>2, <2>2, <3>1, <1>2, <1>3, <1>1 DEF Apart
      <4>3. CASE j # i0
        BY <4>1, <4>3, <2>1, <3>1, <1>1, <1>2 DEF TableSound, Apart
      <4>4. QED
        BY <4>2, <4>3
    <3>4. QED
      BY <3>1, <3>2, <3>3, <1>1 DEF TableSound
  <2>5. QED
    BY <2>3, <2>4, <1>2 DEF TablesSound
<1>8. \A s \in Nat : Boundary(s) => Boundary(s)'
  <2> TAKE s \in Nat
  <2>1. CASE s = Wt
    BY <2>1, <1>1 DEF Boundary
  <2>2. ASSUME NEW q \in Producers, Writing(q), wret[q] = s PROVE Boundary(s)'
    <3>1. CASE q = p
      BY <2>2, <3>1, <1>0, <1>2 DEF Boundary, At
    <3>2. CASE q # p
      BY <2>2, <3>2, <1>1 DEF Boundary
    <3>3. QED
      BY <3>1, <3>2
  <2>3. ASSUME At(s) PROVE Boundary(s)'
    BY <2>3, <1>2, <1>4 DEF Boundary, At
  <2>4. QED
    BY <2>1, <2>2, <2>3 DEF Boundary
<1>9. Chained'
  <2>1. \A q \in Producers : Writing(q)' => Boundary(wtprime(q))'
    BY <1>1, <1>8 DEF Layout, Chained
  <2>2. Boundary(wtprime(p)) /\ wtprime(p) \in Nat
    BY <1>1 DEF Layout, Chained
  <2>3. \A i \in Tables' : Recent(Tnext[i])' => Boundary(Tnext[i])'
    <3> TAKE i \in Tables'
    <3>1. HAVE Recent(Tnext[i])'
    <3>2. Tnext'[i] = Tnext[i] /\ Tnext[i] \in Nat
      BY <1>1, <1>2, <1>4
    <3>3. Recent(Tnext[i])
      BY <3>1, <3>2, <1>1 DEF Recent
    <3>4. Boundary(Tnext[i])
      BY <3>3, <2>2, <1>2, <1>3 DEF Layout, Chained
    <3>5. QED
      BY <3>2, <3>4, <1>8
  <2>4. QED
    BY <2>1, <2>3 DEF Chained
<1>10. Layout'
  BY <1>5, <1>6, <1>7, <1>9 DEF Layout
<1>11. LayoutKept
  <2>1. \A i \in Tables : i \in Tables' /\ WordsKept(i)
    BY <1>1, <1>2, <1>4 DEF WordsKept
  <2>2. \A i \in Tables' : i \in Tables \/ (Tsent'[i] = wret[p] /\ Tnext'[i] = wtprime(p) /\ Idx(wret[p]) = i)
    BY <1>0, <1>1, <1>2, <1>3
  <2>3. QED
    BY <2>1, <2>2, <1>1, <1>3, <1>8 DEF LayoutKept
<1>12. QED
  BY <1>10, <1>11

-----------------------------------------------------------------------------
(* Quota.  Sums of quotas are counted unit by unit, so that a sum over the *)
(* producers needs no induction.                                           *)

(* Sums of quotas, counted unit by unit.                                   *)
LEMMA UnitsFinite ==
    ASSUME NEW q
    PROVE  IsFiniteSet(Units(q)) /\ Total(q) \in Nat
<1>1. IsFiniteSet(Producers \X (1 .. Lap))
  <2>1. IsFiniteSet(1 .. Lap)
    BY FS_Interval, Sizes
  <2>2. QED
    BY <2>1, FS_Product, QuotaAssumption
<1>2. Units(q) \in SUBSET (Producers \X (1 .. Lap))
  BY DEF Units
<1>3. IsFiniteSet(Units(q))
  BY <1>1, <1>2, FS_Subset
<1>4. QED
  BY <1>3, FS_CardinalityType DEF Total

LEMMA TotalMonotone ==
    ASSUME NEW q \in [Producers -> Int], NEW r \in [Producers -> Int],
           \A p \in Producers : q[p] <= r[p]
    PROVE  Total(q) <= Total(r)
<1>1. Units(q) \in SUBSET Units(r)
  BY Sizes DEF Units
<1>2. QED
  BY <1>1, UnitsFinite, FS_Subset DEF Total

LEMMA TotalCharge ==
    ASSUME NEW q \in [Producers -> 0 .. Lap], NEW p \in Producers, NEW n \in 0 .. q[p]
    PROVE  Total([q EXCEPT ![p] = @ - n]) = Total(q) - n
<1> DEFINE r == [q EXCEPT ![p] = @ - n]
           spent == {p} \X (q[p] - n + 1 .. q[p])
<1>0. q[p] \in 0 .. Lap /\ q[p] \in Int /\ n \in Int /\ Lap \in Nat
  BY Sizes
<1>1. IsFiniteSet(spent) /\ Cardinality(spent) = n
  <2>1. /\ IsFiniteSet(q[p] - n + 1 .. q[p])
        /\ Cardinality(q[p] - n + 1 .. q[p]) = n
    <3> DEFINE a == q[p] - n + 1
               b == q[p]
    <3>1. a \in Int /\ b \in Int /\ n \in Nat /\ b = a + n - 1
      BY <1>0
    <3> HIDE DEF a, b
    <3>2. IsFiniteSet(a .. b) /\ Cardinality(a .. b) = IF a > b THEN 0 ELSE b - a + 1
      BY <3>1, FS_Interval
    <3>3. (IF a > b THEN 0 ELSE b - a + 1) = n
      BY <3>1
    <3>4. IsFiniteSet(a .. b) /\ Cardinality(a .. b) = n
      BY <3>2, <3>3
    <3>5. QED
      BY <3>4 DEF a, b
  <2>2. IsFiniteSet({p}) /\ Cardinality({p}) = 1
    BY FS_Singleton
  <2> DEFINE v == q[p] - n + 1 .. q[p]
  <2> HIDE DEF v
  <2>3. IsFiniteSet({p} \X v) /\ Cardinality({p} \X v) = Cardinality({p}) * Cardinality(v)
    BY <2>1, <2>2, FS_Product DEF v
  <2>4. Cardinality({p}) * Cardinality(v) = n
    BY <2>1, <2>2, <1>0 DEF v
  <2>5. QED
    BY <2>3, <2>4 DEF v
<1>2. Units(r) = Units(q) \ spent
  <2>1. ASSUME NEW u \in Producers \X (1 .. Lap)
        PROVE  u[2] <= r[u[1]] <=> u[2] <= q[u[1]] /\ u \notin spent
    <3>1. u = <<u[1], u[2]>> /\ u[1] \in Producers /\ u[2] \in 1 .. Lap
      OBVIOUS
    <3>2. CASE u[1] = p
      BY <3>1, <3>2, <1>0
    <3>3. CASE u[1] # p
      BY <3>1, <3>3
    <3>4. QED
      BY <3>2, <3>3
  <2>2. QED
    BY <2>1 DEF Units
<1>3. Units(q) \cap spent = spent
  <2>1. \A u \in spent : u \in Units(q)
    <3>1. SUFFICES ASSUME NEW j \in q[p] - n + 1 .. q[p] PROVE <<p, j>> \in Units(q)
      OBVIOUS
    <3>2. j \in 1 .. Lap /\ j <= q[p]
      BY <1>0
    <3>3. QED
      BY <3>2 DEF Units
  <2>2. QED
    BY <2>1
<1> HIDE DEF spent
<1>4. Cardinality(Units(q) \ spent) = Cardinality(Units(q)) - n
  BY <1>1, <1>3, UnitsFinite, FS_Difference
<1>5. QED
  BY <1>2, <1>4 DEF Total

(* A tail that advances by no more than every quota stays within K epochs. *)
LEMMA ExcursionBound ==
    ASSUME NEW s \in Nat, NEW t \in Nat, t <= s + Exmax
    PROVE  Epoch(t) < Epoch(s) + K
<1>1. Exmax \in Nat /\ Exmax <= (K - 1) * SegCap /\ SegCap \in Nat \ {0} /\ K - 1 \in Nat /\ K \in Nat
  BY ExmaxIsNat, QuotaAssumption, GeometryAssumption
<1>2. s + (K - 1) * SegCap \in Nat /\ Epoch(s + (K - 1) * SegCap) = Epoch(s) + (K - 1)
  BY <1>1, EpochShift
<1>3. t <= s + (K - 1) * SegCap
  <2> DEFINE m == (K - 1) * SegCap
  <2>1. m \in Int
    BY <1>1
  <2>2. Exmax <= m /\ Exmax \in Nat
    BY <1>1
  <2> HIDE DEF m
  <2>3. t <= s + m
    BY <2>1, <2>2
  <2>4. QED
    BY <2>3 DEF m
<1>4. Epoch(t) <= Epoch(s + (K - 1) * SegCap)
  BY <1>2, <1>3, EpochMonotone
<1>5. QED
  BY <1>1, <1>2, <1>4, EpochType

(* Enough free segments carry the tail over such an excursion.             *)
LEMMA SweptEnough ==
    ASSUME NEW s \in Nat, NEW t \in Nat, t <= s + Exmax, NEW n \in Nat, Enough(n)
    PROVE  Epoch(t) <= Epoch(s) + n
<1> DEFINE m == n * SegCap
<1>1. Exmax \in Nat /\ SegCap \in Nat \ {0} /\ m \in Nat /\ m >= Exmax
  BY ExmaxIsNat, GeometryAssumption DEF Enough
<1>2. s + m \in Nat /\ Epoch(s + m) = Epoch(s) + n
  BY <1>1, EpochShift
<1> HIDE DEF m
<1>3. Epoch(t) <= Epoch(s + m)
  BY <1>1, <1>2, EpochMonotone
<1>4. QED
  BY <1>2, <1>3

LEMMA QuotaTypes ==
    ASSUME TypeInv, WritersSound
    PROVE  /\ quotaLeft \in [Producers -> 0 .. Lap] /\ quotaLeft \in [Producers -> Int]
           /\ Quota \in [Producers -> Int]
           /\ \A p \in Producers : quotaLeft[p] \in Nat /\ Quota[p] \in Nat /\ quotaLeft[p] <= Quota[p]
           /\ \A m \in Nat : Budget(m) \in [Producers -> Int] /\ Reach(m) \in Nat
           /\ SpentTail \in Nat /\ Exmax \in Nat /\ K \in Nat /\ K >= 2
           /\ \A p \in Producers : anchor[p] \in Nat /\ swept[p] \in Nat
           /\ Wt \in Nat
<1>1. /\ quotaLeft \in [Producers -> 0 .. Lap] /\ Wt \in Nat /\ anchor \in [Producers -> Nat]
      /\ swept \in [Producers -> 0 .. K - 1]
  BY DEF TypeInv, TypeOK, ProducerTypeOK, FarmTypeOK, TailTypeOK
<1>2. Quota \in [Producers -> 1 .. Lap] /\ Lap \in Nat
  BY Sizes
<1>3. \A p \in Producers : quotaLeft[p] \in Nat /\ Quota[p] \in Nat /\ quotaLeft[p] <= Quota[p]
  BY <1>1, <1>2 DEF WritersSound
<1>4. \A m \in Nat : Budget(m) \in [Producers -> Int] /\ Reach(m) \in Nat
  BY <1>1, <1>3, UnitsFinite DEF Budget, Reach
<1>5. SpentTail \in Nat
  BY <1>1, UnitsFinite DEF SpentTail
<1>6. quotaLeft \in [Producers -> Int] /\ Quota \in [Producers -> Int]
  BY <1>1, <1>2
<1>7. \A p \in Producers : anchor[p] \in Nat /\ swept[p] \in Nat
  BY <1>1, GeometryAssumption
<1>8. QED
  BY <1>1, <1>3, <1>4, <1>5, <1>6, <1>7, ExmaxIsNat, GeometryAssumption

(* What is safe for an epoch is safe for a later one.                      *)
LEMMA SafeUpward ==
    ASSUME TypeInv, WritersSound, NEW e \in Nat, NEW f \in Nat, e <= f, Safe(e)
    PROVE  Safe(f)
<1> USE QuotaTypes, EpochType
<1>1. Epoch(SpentTail) < f + K
  BY DEF Safe
<1>2. \A p \in Producers : ppc[p] = "sweep" => Ahead(f, p)
  <2>1. SUFFICES ASSUME NEW p \in Producers, Ahead(e, p) PROVE Ahead(f, p)
    BY DEF Safe
  <2>2. Epoch(anchor[p]) \in Nat /\ swept[p] \in Nat /\ K \in Nat /\ Epoch(Reach(anchor[p])) \in Nat
    OBVIOUS
  <2>3. Reach(anchor[p]) <= anchor[p] + Exmax \/ Epoch(Reach(anchor[p])) < f + K
    BY <2>1, <2>2 DEF Ahead
  <2>4. f > Epoch(anchor[p]) + swept[p] - K
    BY <2>1, <2>2 DEF Ahead
  <2>5. QED
    BY <2>3, <2>4 DEF Ahead
<1>3. QED
  BY <1>1, <1>2 DEF Safe

-----------------------------------------------------------------------------
(* Each step of a producer that moves quota, an anchor or the tail keeps   *)
(* every safe epoch safe.                                                  *)

(* The sweeps and the quotas are as they were.                             *)
SameQuota ==
    /\ Wt' = Wt /\ quotaLeft' = quotaLeft
    /\ \A q \in Producers :
         /\ ppc'[q] = "sweep" <=> ppc[q] = "sweep"
         /\ ppc[q] = "sweep" => anchor'[q] = anchor[q] /\ swept'[q] = swept[q]

LEMMA SameQuotaKeeps ==
    ASSUME SameQuota, NEW e, Safe(e)
    PROVE  Safe(e)'
<1>1. \A m : Budget(m)' = Budget(m)
  BY DEF SameQuota, Budget
<1>2. \A m : Reach(m)' = Reach(m)
  BY <1>1 DEF Reach, SameQuota
<1>3. SpentTail' = SpentTail
  BY DEF SpentTail, SameQuota
<1>4. ASSUME NEW q \in Producers, ppc'[q] = "sweep"
      PROVE  Ahead(e, q)'
  <2>1. Ahead(e, q) /\ anchor'[q] = anchor[q] /\ swept'[q] = swept[q]
    BY <1>4 DEF Safe, SameQuota
  <2>2. Reach(anchor[q])' = Reach(anchor[q])
    BY <1>2, <2>1 DEF Reach, Budget
  <2>3. QED
    BY <2>1, <2>2 DEF Ahead
<1>5. QED
  BY <1>3, <1>4 DEF Safe

(* A reservation spends quota: no bound moves.                             *)
LEMMA ReserveSafe ==
    ASSUME TypeInv, WritersSound, NEW p \in Producers, Reserve(p), NEW e \in Nat, Safe(e)
    PROVE  Safe(e)'
<1> USE QuotaTypes
<1>1. /\ ppc[p] = "reserve" /\ Wt' = Wt + size[p]
      /\ quotaLeft' = [quotaLeft EXCEPT ![p] = @ - size[p]]
      /\ anchor' = anchor /\ swept' = swept
      /\ \E x \in {"check", "table"} : ppc' = [ppc EXCEPT ![p] = x]
  BY DEF Reserve, Become
<1>2. ppc \in [Producers -> PPhases] /\ size[p] \in 0 .. quotaLeft[p]
  BY <1>1 DEF TypeInv, TypeOK, ProducerTypeOK, SizesFit
<1>3. SpentTail' = SpentTail
  <2>1. Total(quotaLeft') = Total(quotaLeft) - size[p]
    BY <1>1, <1>2, TotalCharge
  <2>2. QED
    BY <2>1, <1>1, <1>2, UnitsFinite DEF SpentTail
<1>4. ASSUME NEW m \in Nat PROVE Reach(m)' = Reach(m)
  <2>1. Budget(m) \in [Producers -> 0 .. Lap] /\ Budget(m)[p] = quotaLeft[p]
    <3>1. Quota \in [Producers -> 0 .. Lap]
      BY Sizes
    <3>2. QED
      BY <3>1, <1>1 DEF Budget
  <2>2. Budget(m)' = [Budget(m) EXCEPT ![p] = @ - size[p]]
    <3>1. \A q \in Producers : q # p => ppc'[q] = ppc[q] /\ quotaLeft'[q] = quotaLeft[q]
      BY <1>1, <1>2
    <3>2. ppc'[p] # "sweep" /\ quotaLeft'[p] = quotaLeft[p] - size[p]
      BY <1>1, <1>2
    <3>3. \A q \in Producers : Budget(m)'[q] = IF q = p THEN Budget(m)[q] - size[p] ELSE Budget(m)[q]
      BY <3>1, <3>2, <2>1, <1>1 DEF Budget
    <3>4. Budget(m)' = [q \in Producers |-> Budget(m)'[q]]
      BY DEF Budget
    <3>5. QED
      BY <3>3, <3>4, <2>1
  <2>3. Total([Budget(m) EXCEPT ![p] = @ - size[p]]) = Total(Budget(m)) - size[p]
    BY <2>1, <1>2, TotalCharge
  <2>4. QED
    BY <2>2, <2>3, <1>1, <1>2, UnitsFinite DEF Reach
<1>5. ASSUME NEW q \in Producers, ppc'[q] = "sweep"
      PROVE  Ahead(e, q)'
  <2>1. q # p /\ ppc[q] = "sweep"
    BY <1>1, <1>2, <1>5
  <2>2. Ahead(e, q) /\ anchor'[q] = anchor[q] /\ swept'[q] = swept[q] /\ anchor[q] \in Nat
    BY <2>1, <1>1 DEF Safe
  <2>3. Reach(anchor[q])' = Reach(anchor[q])
    <3>1. PICK m \in Nat : m = anchor[q]
      BY <2>2
    <3>2. Reach(m)' = Reach(m) /\ anchor'[q] = m
      BY <3>1, <2>2, <1>4
    <3>3. QED
      BY <3>1, <3>2 DEF Reach, Budget
  <2>4. QED
    BY <2>2, <2>3 DEF Ahead
<1>6. QED
  BY <1>3, <1>5 DEF Safe

(* A sweep begins at the tail, where every quota fits the excursion.       *)
LEMMA WriteSafe ==
    ASSUME TypeInv, WritersSound, NEW p \in Producers, Write(p), NEW e \in Nat, Safe(e)
    PROVE  Safe(e)'
<1> USE QuotaTypes
<1>1. /\ ppc[p] = "idle" /\ Wt' = Wt /\ quotaLeft' = quotaLeft /\ swept' = swept
      /\ \/ ppc' = [ppc EXCEPT ![p] = "reserve"] /\ anchor' = anchor
         \/ ppc' = [ppc EXCEPT ![p] = "sweep"] /\ anchor' = [anchor EXCEPT ![p] = Wt]
  BY DEF Write, Become, farmVars, tailVars
<1>2. ppc \in [Producers -> PPhases] /\ anchor \in [Producers -> Nat]
  BY DEF TypeInv, TypeOK, ProducerTypeOK
<1>3. CASE ppc' = [ppc EXCEPT ![p] = "reserve"] /\ anchor' = anchor
  <2>1. SameQuota
    BY <1>1, <1>2, <1>3 DEF SameQuota
  <2>2. QED
    BY <2>1, SameQuotaKeeps
<1>4. CASE ppc' = [ppc EXCEPT ![p] = "sweep"] /\ anchor' = [anchor EXCEPT ![p] = Wt]
  <2>1. SpentTail' = SpentTail
    BY <1>1 DEF SpentTail
  <2>2. \A q \in Producers : q # p => ppc'[q] = ppc[q] /\ anchor'[q] = anchor[q]
    BY <1>2, <1>4
  <2>3. ppc'[p] = "sweep" /\ anchor'[p] = Wt
    BY <1>2, <1>4
  <2>4. ASSUME NEW m \in Nat, m < Wt PROVE Reach(m)' = Reach(m)
    <3>1. Budget(m)' = Budget(m)
      BY <2>2, <2>3, <2>4, <1>1 DEF Budget
    <3>2. QED
      BY <3>1, <1>1 DEF Reach
  <2>5. Wt + Total([q \in Producers |-> IF ppc'[q] = "sweep" /\ anchor'[q] <= Wt THEN Quota[q] ELSE quotaLeft[q]])
          <= Wt + Exmax
    <3> DEFINE b == [q \in Producers |-> IF ppc'[q] = "sweep" /\ anchor'[q] <= Wt THEN Quota[q] ELSE quotaLeft[q]]
    <3>1. b \in [Producers -> Int]
      BY DEF Exmax
    <3>2. \A q \in Producers : b[q] <= Quota[q]
      OBVIOUS
    <3> HIDE DEF b
    <3>3. Total(b) <= Total(Quota)
      BY <3>1, <3>2, TotalMonotone
    <3>4. QED
      BY <3>3, UnitsFinite DEF b, Exmax
  <2>6. Reach(Wt)' <= Wt + Exmax
    BY <2>5, <1>1 DEF Reach, Budget
  <2>7. Epoch(Wt) < e + K
    <3>1. Wt <= SpentTail
      BY UnitsFinite DEF SpentTail
    <3>2. QED
      BY <3>1, EpochMonotone, EpochType DEF Safe
  <2>8. swept[p] = 0
    BY <1>1 DEF WritersSound
  <2>9. ASSUME NEW q \in Producers, ppc'[q] = "sweep"
        PROVE  Ahead(e, q)'
    <3>1. PICK m \in Nat : m = anchor'[q]
      BY <2>2, <2>3
    <3>2. Ahead(e, q)' <=> /\ Reach(m)' <= m + Exmax \/ Epoch(Reach(m)') < e + K
                           /\ e > Epoch(m) + swept[q] - K
      <4>1. Reach(anchor[q])' = Reach(m)'
        BY <3>1 DEF Reach, Budget
      <4>2. QED
        BY <3>1, <4>1, <1>1 DEF Ahead
    <3>3. q # p => ppc[q] = "sweep" /\ anchor[q] = m /\ m <= Wt
      BY <2>2, <2>9, <3>1 DEF WritersSound
    <3>4. q # p => /\ Reach(m) <= m + Exmax \/ Epoch(Reach(m)) < e + K
                   /\ e > Epoch(m) + swept[q] - K
      BY <3>3 DEF Safe, Ahead
    <3>5. CASE m < Wt
      <4>1. q # p
        BY <3>1, <3>5, <2>3
      <4>2. Reach(m)' = Reach(m)
        BY <3>5, <2>4
      <4>3. QED
        BY <3>2, <3>4, <4>1, <4>2
    <3>6. CASE m = Wt
      <4>0. Reach(m)' = Reach(Wt)'
        BY <3>6, <1>1 DEF Reach, Budget
      <4>1. Reach(m)' <= m + Exmax
        BY <4>0, <3>6, <2>6
      <4>2. e > Epoch(m) + swept[q] - K
        <5>1. CASE q = p
          BY <5>1, <3>6, <2>7, <2>8, EpochType
        <5>2. CASE q # p
          BY <5>2, <3>4
        <5>3. QED
          BY <5>1, <5>2
      <4>3. QED
        BY <3>2, <4>1, <4>2
    <3>7. q = p => m = Wt
      BY <2>3, <3>1
    <3>8. m < Wt \/ m = Wt
      <4>1. m <= Wt
        <5>1. CASE q = p
          BY <5>1, <3>7, <2>8
        <5>2. CASE q # p
          BY <5>2, <3>3
        <5>3. QED
          BY <5>1, <5>2
      <4>2. Wt \in Nat
        BY QuotaTypes
      <4>3. QED
        BY <4>1, <4>2
    <3>9. QED
      BY <3>5, <3>6, <3>8
  <2>10. QED
    BY <2>1, <2>9 DEF Safe
<1>5. QED
  BY <1>1, <1>3, <1>4

(* A sweep that gives up takes its claim on the quota back.                *)
LEMMA BlockedSafe ==
    ASSUME TypeInv, WritersSound, NEW p \in Producers, SweepBlocked(p), NEW e \in Nat, Safe(e)
    PROVE  Safe(e)'
<1> USE QuotaTypes
<1>1. /\ ppc[p] = "sweep" /\ Wt' = Wt /\ quotaLeft' = quotaLeft
      /\ ppc' = [ppc EXCEPT ![p] = "idle"]
      /\ anchor' = [anchor EXCEPT ![p] = 0] /\ swept' = [swept EXCEPT ![p] = 0]
  BY DEF SweepBlocked, Return, Become, farmVars, tailVars
<1>2. ppc \in [Producers -> PPhases] /\ anchor \in [Producers -> Nat] /\ swept \in [Producers -> 0 .. K - 1]
  BY DEF TypeInv, TypeOK, ProducerTypeOK
<1>3. SpentTail' = SpentTail
  BY <1>1 DEF SpentTail
<1>4. \A q \in Producers : q # p => ppc'[q] = ppc[q] /\ anchor'[q] = anchor[q] /\ swept'[q] = swept[q]
  BY <1>1, <1>2
<1>5. ppc'[p] = "idle"
  BY <1>1, <1>2
<1>6. ASSUME NEW m \in Nat PROVE Reach(m)' <= Reach(m) /\ Reach(m)' \in Nat
  <2> DEFINE b == [q \in Producers |-> IF ppc'[q] = "sweep" /\ anchor'[q] <= m THEN Quota[q] ELSE quotaLeft[q]]
  <2>1. b \in [Producers -> Int] /\ \A q \in Producers : b[q] <= Budget(m)[q]
    BY <1>4, <1>5 DEF Budget
  <2>2. Reach(m)' = Wt + Total(b)
    BY <1>1 DEF Reach, Budget
  <2> HIDE DEF b
  <2>3. Total(b) <= Total(Budget(m))
    BY <2>1, TotalMonotone
  <2>4. QED
    BY <2>2, <2>3, UnitsFinite DEF Reach
<1>7. ASSUME NEW q \in Producers, ppc'[q] = "sweep"
      PROVE  Ahead(e, q)'
  <2>1. q # p /\ ppc[q] = "sweep"
    BY <1>4, <1>5, <1>7
  <2>2. PICK m \in Nat : m = anchor[q]
    OBVIOUS
  <2>3. anchor'[q] = m /\ swept'[q] = swept[q] /\ Ahead(e, q)
    BY <2>1, <2>2, <1>4 DEF Safe
  <2>4. Reach(m)' <= Reach(m) /\ Reach(m)' \in Nat
    BY <1>6
  <2>5. Epoch(Reach(m)') <= Epoch(Reach(m)) /\ Epoch(Reach(m)') \in Nat /\ Epoch(Reach(m)) \in Nat
    BY <2>4, EpochMonotone, EpochType
  <2>6. Reach(anchor[q])' = Reach(m)'
    BY <2>3 DEF Reach, Budget
  <2>7. Ahead(e, q)' <=> /\ Reach(m)' <= m + Exmax \/ Epoch(Reach(m)') < e + K
                         /\ e > Epoch(m) + swept[q] - K
    BY <2>3, <2>6 DEF Ahead
  <2>8. /\ Reach(m) <= m + Exmax \/ Epoch(Reach(m)) < e + K
        /\ e > Epoch(m) + swept[q] - K
    BY <2>2, <2>3 DEF Ahead
  <2>9. QED
    BY <2>4, <2>5, <2>7, <2>8
<1>8. QED
  BY <1>3, <1>7 DEF Safe

(* A free slot behind the anchor is one more the sweep need not fear; the  *)
(* grant stays within the reach of the sweep that is granted.              *)
LEMMA SweepFreeSafe ==
    ASSUME TypeInv, WritersSound, NEW p \in Producers, SweepFree(p), NEW e \in Nat, Safe(e),
           e # Epoch(anchor[p]) + swept[p] + 1 - K
    PROVE  Safe(e)'
<1>0. /\ Wt \in Nat /\ K \in Nat /\ anchor[p] \in Nat /\ swept[p] \in Nat /\ Epoch(anchor[p]) \in Nat
      /\ Exmax \in Nat
  BY QuotaTypes, EpochType
<1>1. ppc[p] = "sweep" /\ Wt' = Wt
  BY DEF SweepFree, farmVars, tailVars
<1>2. /\ ppc \in [Producers -> PPhases] /\ anchor \in [Producers -> Nat] /\ swept \in [Producers -> 0 .. K - 1]
      /\ quotaLeft \in [Producers -> 0 .. Lap]
  BY DEF TypeInv, TypeOK, ProducerTypeOK
<1>3. e > Epoch(anchor[p]) + swept[p] + 1 - K
  BY <1>0, <1>1 DEF Safe, Ahead
<1>4. CASE ~Enough(swept[p] + 1)
  <2>1. /\ swept' = [swept EXCEPT ![p] = @ + 1]
        /\ quotaLeft' = quotaLeft /\ anchor' = anchor /\ ppc' = ppc
    BY <1>4 DEF SweepFree
  <2>2. SpentTail' = SpentTail
    BY <2>1, <1>1 DEF SpentTail
  <2>3. \A m : Reach(m)' = Reach(m)
    BY <2>1, <1>1 DEF Reach, Budget
  <2>4. ASSUME NEW q \in Producers, ppc'[q] = "sweep"
        PROVE  Ahead(e, q)'
    <3>1. Ahead(e, q) /\ anchor'[q] = anchor[q]
      BY <2>1, <2>4 DEF Safe
    <3>2. Reach(anchor[q])' = Reach(anchor[q])
      BY <3>1, <2>1, <1>1 DEF Reach, Budget
    <3>3. e > Epoch(anchor[q]) + swept'[q] - K
      <4>1. CASE q = p
        BY <4>1, <2>1, <1>0, <1>2, <1>3
      <4>2. CASE q # p
        BY <4>2, <2>1, <1>2, <3>1 DEF Ahead
      <4>3. QED
        BY <4>1, <4>2
    <3>4. QED
      BY <3>1, <3>2, <3>3 DEF Ahead
  <2>5. QED
    BY <2>2, <2>4 DEF Safe
<1>5. CASE Enough(swept[p] + 1)
  <2>1. /\ quotaLeft' = [quotaLeft EXCEPT ![p] = Quota[p]]
        /\ swept' = [swept EXCEPT ![p] = 0] /\ anchor' = [anchor EXCEPT ![p] = 0]
        /\ ppc' = [ppc EXCEPT ![p] = "reserve"]
    BY <1>5 DEF SweepFree, Become
  <2>2. /\ \A q \in Producers : q # p =>
              /\ ppc'[q] = ppc[q] /\ anchor'[q] = anchor[q] /\ swept'[q] = swept[q]
              /\ quotaLeft'[q] = quotaLeft[q]
        /\ ppc'[p] = "reserve" /\ quotaLeft'[p] = Quota[p]
    BY <2>1, <1>2
  <2>3. \A q \in Producers : quotaLeft[q] \in Int /\ Quota[q] \in Int /\ quotaLeft[q] <= Quota[q]
    BY QuotaTypes
  <2>4. PICK a \in Nat : a = anchor[p]
    BY <1>0
  <2>5. Budget(a) \in [Producers -> Int] /\ Reach(a) \in Nat
    BY QuotaTypes
  <2>6. Epoch(Reach(a)) < e + K
    <3>1. Reach(a) <= a + Exmax \/ Epoch(Reach(a)) < e + K
      BY <1>1, <2>4 DEF Safe, Ahead
    <3>2. Reach(a) <= a + Exmax => Epoch(Reach(a)) <= Epoch(a) + (swept[p] + 1)
      BY <1>0, <1>5, <2>5, SweptEnough
    <3>3. Epoch(Reach(a)) \in Nat
      BY <2>5, EpochType
    <3>4. QED
      BY <3>1, <3>2, <3>3, <2>4, <1>0, <1>3
  <2>7. ASSUME NEW b \in [Producers -> Int], \A q \in Producers : b[q] <= Budget(a)[q]
        PROVE  Wt + Total(b) <= Reach(a) /\ Epoch(Wt + Total(b)) < e + K
    <3>1. Total(b) <= Total(Budget(a))
      BY <2>5, <2>7, TotalMonotone
    <3>2. Wt + Total(b) <= Reach(a) /\ Wt + Total(b) \in Nat
      BY <3>1, <1>0, UnitsFinite DEF Reach
    <3>3. Epoch(Wt + Total(b)) <= Epoch(Reach(a)) /\ Epoch(Wt + Total(b)) \in Nat /\ Epoch(Reach(a)) \in Nat
      BY <3>2, <2>5, EpochMonotone, EpochType
    <3>4. QED
      BY <3>2, <3>3, <2>6, <1>0
  <2>8. Epoch(SpentTail') < e + K
    <3>1. quotaLeft' \in [Producers -> Int]
      BY <2>1, <2>3, <1>2
    <3>2. \A q \in Producers : quotaLeft'[q] <= Budget(a)[q]
      BY <2>2, <2>3, <2>4, <1>0, <1>1 DEF Budget
    <3>3. Epoch(Wt + Total(quotaLeft')) < e + K
      BY <3>1, <3>2, <2>7
    <3>4. QED
      BY <3>3, <1>1 DEF SpentTail
  <2>9. ASSUME NEW q \in Producers, ppc'[q] = "sweep"
        PROVE  Ahead(e, q)'
    <3>1. q # p /\ ppc[q] = "sweep"
      BY <2>2, <2>9
    <3>2. PICK m \in Nat : m = anchor[q]
      BY <1>2
    <3>3. anchor'[q] = m /\ swept'[q] = swept[q]
      BY <3>1, <3>2, <2>2
    <3>4. /\ Reach(m) <= m + Exmax \/ Epoch(Reach(m)) < e + K
          /\ e > Epoch(m) + swept[q] - K
      BY <3>1, <3>2 DEF Safe, Ahead
    <3>5. Reach(m)' <= m + Exmax \/ Epoch(Reach(m)') < e + K
      <4>1. CASE a <= m
        <5>1. Budget(m)' = Budget(m)
          <6>1. \A r \in Producers : Budget(m)'[r] = Budget(m)[r]
            BY <4>1, <2>2, <2>4, <1>1 DEF Budget
          <6>2. Budget(m)' = [r \in Producers |-> Budget(m)'[r]] /\ Budget(m) = [r \in Producers |-> Budget(m)[r]]
            BY DEF Budget
          <6>3. QED
            BY <6>1, <6>2
        <5>2. Reach(m)' = Reach(m)
          BY <5>1, <1>1 DEF Reach
        <5>3. QED
          BY <5>2, <3>4
      <4>2. CASE m < a
        <5> DEFINE b == [r \in Producers |-> IF ppc'[r] = "sweep" /\ anchor'[r] <= m THEN Quota[r] ELSE quotaLeft'[r]]
        <5>1. Reach(m)' = Wt + Total(b)
          BY <1>1 DEF Reach, Budget
        <5>2. b \in [Producers -> Int]
          BY <2>1, <2>3, <1>2
        <5>3. \A r \in Producers : b[r] <= Budget(a)[r]
          <6> SUFFICES ASSUME NEW r \in Producers PROVE b[r] <= Budget(a)[r]
            OBVIOUS
          <6>1. CASE r = p
            BY <6>1, <2>2, <2>3, <2>4, <1>1, <1>0 DEF Budget
          <6>2. CASE r # p
            <7>1. anchor[r] \in Nat
              BY <1>2
            <7>2. QED
              BY <6>2, <7>1, <4>2, <2>2, <2>3 DEF Budget
          <6>3. QED
            BY <6>1, <6>2
        <5> HIDE DEF b
        <5>4. Epoch(Wt + Total(b)) < e + K
          BY <5>2, <5>3, <2>7
        <5>5. QED
          BY <5>1, <5>4
      <4>3. QED
        BY <4>1, <4>2
    <3>6. Reach(anchor[q])' = Reach(m)'
      BY <3>3 DEF Reach, Budget
    <3>7. QED
      BY <3>3, <3>4, <3>5, <3>6 DEF Ahead
  <2>10. QED
    BY <2>8, <2>9 DEF Safe
<1>6. QED
  BY <1>4, <1>5

-----------------------------------------------------------------------------
(* Windows: what is protected is in the window, so writers are at          *)
(* different slots.                                                        *)

LEMMA StatTypes ==
    ASSUME TypeInv
    PROVE  /\ \A k \in Slots : /\ Es[k] \in Int /\ Seqt[k] \in Nat /\ SqCs[k] \in Nat /\ Sd[k] \in Int
                               /\ Live[k] \in BOOLEAN
           /\ \A e \in Nat : Slot(e) \in Slots /\ Epoch(e) \in Nat
           /\ K \in Nat /\ K >= 2
<1>1. /\ Es \in [Slots -> Int] /\ Seqt \in [Slots -> Nat] /\ SqCs \in [Slots -> 0 .. MaxLeaves]
      /\ Sd \in [Slots -> Int] /\ Live \in [Slots -> BOOLEAN]
  BY DEF TypeInv, TypeOK, FarmTypeOK, StatTypeOK, RootTypeOK
<1>2. \A k \in Slots : /\ Es[k] \in Int /\ Seqt[k] \in Nat /\ SqCs[k] \in 0 .. MaxLeaves /\ Sd[k] \in Int
                        /\ Live[k] \in BOOLEAN
  BY <1>1
<1>3. \A k \in Slots : SqCs[k] \in Nat
  BY <1>2, ConsumerAssumption
<1>4. \A e \in Nat : Slot(e) \in Slots /\ Epoch(e) \in Nat
  BY RingArithmetic
<1>5. QED
  BY <1>2, <1>3, <1>4, GeometryAssumption

(* No protected epoch is lapped, so nothing that crosses one is.           *)
LEMMA Windows ==
    ASSUME TypeInv, Layout, QuotaSound
    PROVE  /\ \A e \in Nat : Protected(e) => InWindow(e)
           /\ \A p \in Producers : Writing(p) => InWindow(Epoch(wret[p])) /\ Worked(Epoch(wret[p]))
           /\ \A p \in Producers : \A e \in Nat : Crosses(p, e) => InWindow(e)
           /\ WritersRecent
<1> USE LayoutTypes, StatTypes
<1>1. ASSUME NEW e \in Nat, Protected(e) PROVE InWindow(e)
  <2>1. e <= Epoch(Wt) /\ Epoch(SpentTail) < e + K
    BY <1>1 DEF QuotaSound, Safe
  <2>2. SpentTail \in Nat /\ Wt <= SpentTail
    BY UnitsFinite DEF SpentTail
  <2>3. Epoch(Wt) <= Epoch(SpentTail)
    BY <2>2, EpochMonotone
  <2>4. QED
    BY <2>1, <2>2, <2>3 DEF InWindow
<1>2. ASSUME NEW p \in Producers, Writing(p)
      PROVE  InWindow(Epoch(wret[p])) /\ Worked(Epoch(wret[p]))
  <2>1. Worked(Epoch(wret[p]))
    BY <1>2 DEF Worked
  <2>2. Epoch(wret[p]) \in Nat
    OBVIOUS
  <2>3. QED
    BY <2>1, <2>2, <1>1 DEF Protected
<1>3. ASSUME NEW p \in Producers, NEW e \in Nat, Crosses(p, e) PROVE InWindow(e)
  <2>1. Writing(p) /\ Epoch(wret[p]) < e /\ e <= Epoch(wtprime(p)) /\ wtprime(p) <= Wt
    BY <1>3 DEF Crosses, Layout, WriterRanges
  <2>2. Epoch(wtprime(p)) <= Epoch(Wt)
    BY <2>1, EpochMonotone
  <2>3. Epoch(Wt) < Epoch(wret[p]) + K
    BY <2>1, <1>2 DEF InWindow
  <2>4. Epoch(wret[p]) \in Nat /\ Epoch(Wt) \in Nat /\ Epoch(wtprime(p)) \in Nat
    OBVIOUS
  <2>5. QED
    BY <2>1, <2>2, <2>3, <2>4 DEF InWindow
<1>4. WritersRecent
  <2>1. ASSUME NEW p \in Producers, Writing(p) PROVE Wt < wret[p] + Lap
    <3>1. Epoch(Wt) < Epoch(wret[p]) + K /\ wret[p] \in Nat /\ Epoch(wret[p]) \in Nat
      BY <2>1, <1>2 DEF InWindow
    <3>2. QED
      BY <3>1, WithinLap
  <2>2. QED
    BY <2>1 DEF WritersRecent
<1>5. QED
  BY <1>1, <1>2, <1>3, <1>4

(* No two tables being written cross into the same epoch.                  *)
LEMMA CrossersApart ==
    ASSUME TypeInv, Layout, NEW e \in Nat, NEW p \in Producers, NEW q \in Producers,
           Crosses(p, e), Crosses(q, e)
    PROVE  p = q
<1> USE LayoutTypes, StatTypes
<1>1. ASSUME NEW r \in Producers, NEW s \in Producers, Crosses(r, e), Crosses(s, e),
             wtprime(r) <= wret[s]
      PROVE  FALSE
  <2>1. Epoch(wtprime(r)) <= Epoch(wret[s])
    BY <1>1, EpochMonotone
  <2>2. QED
    BY <1>1, <2>1 DEF Crosses
<1>2. SUFFICES ASSUME p # q PROVE FALSE
  OBVIOUS
<1>3. wtprime(p) <= wret[q] \/ wtprime(q) <= wret[p]
  BY <1>2 DEF Layout, WritersApart, Apart, Crosses
<1>4. QED
  BY <1>1, <1>3

(* A writer that crosses has to initialise the epoch it is at.             *)
LEMMA FreshPending ==
    ASSUME TypeInv, Layout, QuotaSound, InitsSound, PendingStale,
           NEW p \in Producers, ppc[p] \in Crossing
    PROVE  /\ fresh[p] \in Nat /\ Crosses(p, fresh[p]) /\ Pending(p, fresh[p]) /\ InWindow(fresh[p])
           /\ Slot(fresh[p]) \in Slots /\ Es[Slot(fresh[p])] < fresh[p]
<1>1. fresh[p] \in Nat
  BY LayoutTypes
<1>2. Crosses(p, fresh[p])
  BY DEF Crosses, Writing, Crossing, InitsSound
<1>3. Pending(p, fresh[p])
  BY <1>1, <1>2 DEF Pending
<1>4. InWindow(fresh[p])
  BY <1>1, <1>2, Windows
<1>5. QED
  BY <1>1, <1>2, <1>3, <1>4, StatTypes DEF PendingStale

(* Two writers that cross are at different slots, ...                      *)
LEMMA FreshApart ==
    ASSUME TypeInv, Layout, QuotaSound, InitsSound, PendingStale,
           NEW p \in Producers, ppc[p] \in Crossing, NEW q \in Producers, ppc[q] \in Crossing,
           Slot(fresh[p]) = Slot(fresh[q])
    PROVE  p = q
<1>1. /\ fresh[p] \in Nat /\ Crosses(p, fresh[p]) /\ InWindow(fresh[p])
      /\ fresh[q] \in Nat /\ Crosses(q, fresh[q]) /\ InWindow(fresh[q])
  BY FreshPending
<1>2. fresh[p] < fresh[q] + K /\ fresh[q] < fresh[p] + K
  <2>1. K \in Nat /\ Epoch(Wt) \in Nat
    BY StatTypes, LayoutTypes
  <2>2. QED
    BY <1>1, <2>1 DEF InWindow
<1>4. fresh[p] = fresh[q]
  BY <1>1, <1>2, SlotsApart
<1>3. QED
  BY <1>1, <1>4, CrossersApart

(* ... and none at the slot of an epoch of the window that is initialised. *)
LEMMA FreshElsewhere ==
    ASSUME TypeInv, Layout, QuotaSound, InitsSound, PendingStale,
           NEW p \in Producers, ppc[p] \in Crossing, NEW e \in Nat, InWindow(e), Initialised(e)
    PROVE  Slot(fresh[p]) # Slot(e)
<1>1. SUFFICES ASSUME Slot(fresh[p]) = Slot(e) PROVE FALSE
  OBVIOUS
<1>2. fresh[p] \in Nat /\ InWindow(fresh[p]) /\ Es[Slot(fresh[p])] < fresh[p]
  BY FreshPending
<1>3. fresh[p] < e + K /\ e < fresh[p] + K
  <2>1. K \in Nat /\ Epoch(Wt) \in Nat
    BY StatTypes, LayoutTypes
  <2>2. QED
    BY <1>2, <2>1 DEF InWindow
<1>4. fresh[p] = e
  BY <1>1, <1>2, <1>3, SlotsApart
<1>5. QED
  BY <1>2, <1>4 DEF Initialised

-----------------------------------------------------------------------------
(* The producer's steps, register by register.                             *)

(* What a writer's step does to its registers, and to nobody else's.       *)
OthersStill(p) ==
    \A q \in Producers \ {p} :
        /\ ppc'[q] = ppc[q] /\ quotaLeft'[q] = quotaLeft[q] /\ size'[q] = size[q]
        /\ sq'[q] = sq[q] /\ anchor'[q] = anchor[q] /\ swept'[q] = swept[q]
        /\ wret'[q] = wret[q] /\ fresh'[q] = fresh[q]

LEMMA ProducerFunctions ==
    ASSUME TypeInv
    PROVE  /\ ppc \in [Producers -> PPhases] /\ quotaLeft \in [Producers -> 0 .. Lap]
           /\ size \in [Producers -> 0 .. Lap] /\ sq \in [Producers -> 0 .. MaxLeaves]
           /\ anchor \in [Producers -> Nat] /\ swept \in [Producers -> 0 .. K - 1]
           /\ wret \in [Producers -> Nat] /\ fresh \in [Producers -> Nat]
  BY DEF TypeInv, TypeOK, ProducerTypeOK

LEMMA ProducerFrame ==
    ASSUME TypeInv, NEW p \in Producers, ProducerNext(p)
    PROVE  OthersStill(p) /\ UNCHANGED <<Cf, Reqs_c, Sub, Count, Lt>>
<1> USE ProducerFunctions
<1>1. CASE Write(p) \/ SweepFree(p) \/ SweepBlocked(p) \/ Decline(p)
  BY <1>1 DEF Write, SweepFree, SweepBlocked, Decline, Become, Return, OthersStill,
              farmVars, tailVars, rootVars
<1>2. CASE Reserve(p) \/ CheckFresh(p)
  BY <1>2 DEF Reserve, CheckFresh, Become, OthersStill, farmVars, tailVars, rootVars
<1>3. CASE InitStats(p) \/ RaiseLive(p) \/ PublishEs(p)
  BY <1>3 DEF InitStats, RaiseLive, PublishEs, Become, OthersStill, tailVars, rootVars
<1>4. CASE StoreTable(p) \/ PublishTable(p)
  BY <1>4 DEF StoreTable, PublishTable, Become, Return, OthersStill, tailVars, rootVars
<1>5. QED
  BY <1>1, <1>2, <1>3, <1>4 DEF ProducerNext

(* The writer's own registers.                                             *)
Still(p) ==
    /\ quotaLeft'[p] = quotaLeft[p] /\ size'[p] = size[p] /\ sq'[p] = sq[p]
    /\ anchor'[p] = anchor[p] /\ swept'[p] = swept[p] /\ wret'[p] = wret[p]

LEMMA WriteStep ==
    ASSUME TypeInv, NEW p \in Producers, Write(p)
    PROVE  /\ ppc[p] = "idle" /\ ppc'[p] \in {"sweep", "reserve"} /\ UNCHANGED farmVars
           /\ quotaLeft'[p] = quotaLeft[p] /\ swept'[p] = swept[p]
           /\ wret'[p] = wret[p] /\ fresh'[p] = fresh[p]
           /\ sq'[p] = SqcsOf[Larger(Cf, 1)]
           /\ ppc'[p] = "sweep" => anchor'[p] = Wt
  BY ProducerFunctions DEF Write, Become

LEMMA SweepFreeStep ==
    ASSUME TypeInv, NEW p \in Producers, SweepFree(p)
    PROVE  /\ ppc[p] = "sweep" /\ ppc'[p] \in {"sweep", "reserve"} /\ UNCHANGED farmVars
           /\ size'[p] = size[p] /\ sq'[p] = sq[p]
           /\ wret'[p] = wret[p] /\ fresh'[p] = fresh[p]
           /\ ppc'[p] = "sweep" => anchor'[p] = anchor[p] /\ quotaLeft'[p] = quotaLeft[p]
           /\ ppc'[p] = "reserve" => swept'[p] = 0 /\ quotaLeft'[p] = Quota[p]
<1> USE ProducerFunctions
<1>1. CASE Enough(swept[p] + 1)
  BY <1>1 DEF SweepFree, Become
<1>2. CASE ~Enough(swept[p] + 1)
  BY <1>2 DEF SweepFree
<1>3. QED
  BY <1>1, <1>2

LEMMA ReturnStep ==
    ASSUME TypeInv, NEW p \in Producers, Return(p)
    PROVE  /\ ppc'[p] = "idle" /\ size'[p] = 0 /\ sq'[p] = 0 /\ anchor'[p] = 0
           /\ swept'[p] = 0 /\ wret'[p] = 0 /\ fresh'[p] = 0
  BY ProducerFunctions DEF Return, Become

LEMMA ReserveStep ==
    ASSUME TypeInv, NEW p \in Producers, Reserve(p)
    PROVE  /\ ppc[p] = "reserve" /\ Wt' = Wt + size[p] /\ wret'[p] = Wt
           /\ size'[p] = size[p] /\ sq'[p] = sq[p] /\ anchor'[p] = anchor[p] /\ swept'[p] = swept[p]
           /\ quotaLeft'[p] = quotaLeft[p] - size[p] /\ fresh'[p] = Epoch(Wt) + 1
           /\ ppc'[p] = IF Epoch(Wt) # Epoch(Wt') THEN "check" ELSE "table"
           /\ UNCHANGED <<rootVars, statVars, ringVars>>
  BY ProducerFunctions DEF Reserve, Become

LEMMA CheckFreshStep ==
    ASSUME TypeInv, NEW p \in Producers, CheckFresh(p)
    PROVE  /\ ppc[p] = "check" /\ UNCHANGED farmVars /\ Still(p)
           /\ \/ /\ ppc'[p] = "check" /\ fresh'[p] = fresh[p] + 1
                 /\ fresh[p] < Epoch(wtprime(p))
              \/ /\ ppc'[p] = "stats" /\ fresh'[p] = Epoch(wret[p]) + 1
<1> USE ProducerFunctions
<1>1. CASE fresh[p] < Epoch(wtprime(p))
  BY <1>1 DEF CheckFresh, Still
<1>2. CASE ~(fresh[p] < Epoch(wtprime(p)))
  BY <1>2 DEF CheckFresh, Become, Still
<1>3. QED
  BY <1>1, <1>2

LEMMA InitStatsStep ==
    ASSUME TypeInv, NEW p \in Producers, InitStats(p)
    PROVE  /\ ppc[p] = "stats" /\ ppc'[p] = "raise" /\ Still(p) /\ fresh'[p] = fresh[p]
           /\ UNCHANGED <<tailVars, rootVars, Es, ringVars>>
           /\ Slot(fresh[p]) \in Slots
           /\ Seqt'[Slot(fresh[p])] = wtprime(p) /\ SqCs'[Slot(fresh[p])] = sq[p]
           /\ Sd'[Slot(fresh[p])] = 0
           /\ \A k \in Slots \ {Slot(fresh[p])} :
                 Seqt'[k] = Seqt[k] /\ SqCs'[k] = SqCs[k] /\ Sd'[k] = Sd[k]
<1> USE ProducerFunctions
<1>1. Slot(fresh[p]) \in Slots
  BY RingArithmetic
<1>2. /\ Seqt \in [Slots -> Nat] /\ SqCs \in [Slots -> 0 .. MaxLeaves] /\ Sd \in [Slots -> Int]
  BY DEF TypeInv, TypeOK, FarmTypeOK, StatTypeOK
<1>3. QED
  BY <1>1, <1>2 DEF InitStats, Become, Still

LEMMA RaiseLiveStep ==
    ASSUME TypeInv, NEW p \in Producers, RaiseLive(p)
    PROVE  /\ ppc[p] = "raise" /\ ppc'[p] = "es" /\ Still(p) /\ fresh'[p] = fresh[p]
           /\ UNCHANGED <<tailVars, statVars, ringVars>>
           /\ Slot(fresh[p]) \in Slots /\ Live'[Slot(fresh[p])]
           /\ \A k \in Slots \ {Slot(fresh[p])} : Live'[k] = Live[k]
<1> USE ProducerFunctions
<1>1. Slot(fresh[p]) \in Slots
  BY RingArithmetic
<1>2. Live \in [Slots -> BOOLEAN]
  BY DEF TypeInv, TypeOK, FarmTypeOK, RootTypeOK
<1>3. QED
  BY <1>1, <1>2 DEF RaiseLive, Become, Still

LEMMA PublishEsStep ==
    ASSUME TypeInv, NEW p \in Producers, PublishEs(p)
    PROVE  /\ ppc[p] = "es" /\ Still(p)
           /\ UNCHANGED <<tailVars, rootVars, Seqt, SqCs, Sd, ringVars>>
           /\ Slot(fresh[p]) \in Slots /\ Es'[Slot(fresh[p])] = fresh[p]
           /\ \A k \in Slots \ {Slot(fresh[p])} : Es'[k] = Es[k]
           /\ \/ /\ ppc'[p] = "stats" /\ fresh'[p] = fresh[p] + 1
                 /\ fresh[p] < Epoch(wtprime(p))
              \/ /\ ppc'[p] = "table" /\ fresh'[p] = fresh[p]
                 /\ ~(fresh[p] < Epoch(wtprime(p)))
<1> USE ProducerFunctions
<1>1. Slot(fresh[p]) \in Slots
  BY RingArithmetic
<1>2. Es \in [Slots -> Int]
  BY DEF TypeInv, TypeOK, FarmTypeOK, StatTypeOK
<1>3. Es'[Slot(fresh[p])] = fresh[p] /\ \A k \in Slots \ {Slot(fresh[p])} : Es'[k] = Es[k]
  BY <1>1, <1>2 DEF PublishEs
<1>4. /\ ppc[p] = "es" /\ Still(p)
      /\ UNCHANGED <<tailVars, rootVars, Seqt, SqCs, Sd, ringVars>>
  BY DEF PublishEs, Still
<1>5. CASE fresh[p] < Epoch(wtprime(p))
  BY <1>1, <1>3, <1>4, <1>5 DEF PublishEs, Become
<1>6. CASE ~(fresh[p] < Epoch(wtprime(p)))
  BY <1>1, <1>3, <1>4, <1>6 DEF PublishEs, Become
<1>7. QED
  BY <1>5, <1>6

(* Tables and writers keep their layout in every step of a producer, ...   *)
LEMMA ProducerLayout ==
    ASSUME TypeInv, Layout, WritersSound, WritersRecent, NEW p \in Producers, ProducerNext(p)
    PROVE  Layout' /\ LayoutKept
<1>1. ASSUME UNCHANGED <<Wt, Tsent, Tnext, Tsq>>,
             Writing(p)' <=> Writing(p), ppc'[p] = "sentinel" <=> ppc[p] = "sentinel",
             Writing(p) => wret'[p] = wret[p] /\ size'[p] = size[p]
      PROVE  Layout' /\ LayoutKept
  <2>1. OthersStill(p)
    BY ProducerFrame
  <2>2. SameLayout
    <3> SUFFICES ASSUME NEW q \in Producers
                 PROVE  /\ Writing(q)' <=> Writing(q)
                        /\ ppc'[q] = "sentinel" <=> ppc[q] = "sentinel"
                        /\ Writing(q) => wret'[q] = wret[q] /\ size'[q] = size[q]
      BY <1>1 DEF SameLayout
    <3>1. CASE q = p
      BY <3>1, <1>1
    <3>2. CASE q # p
      BY <3>2, <2>1 DEF OthersStill, Writing
    <3>3. QED
      BY <3>1, <3>2
  <2>3. QED
    BY <2>2, SameLayoutKeeps, SameLayoutKept
<1>2. CASE Write(p)
  <2>1. ppc[p] = "idle" /\ ppc'[p] \in {"sweep", "reserve"} /\ UNCHANGED farmVars
    BY <1>2, WriteStep
  <2>2. QED
    BY <2>1, <1>1 DEF Writing, farmVars, tailVars, ringVars
<1>3. CASE SweepFree(p)
  <2>1. ppc[p] = "sweep" /\ ppc'[p] \in {"sweep", "reserve"} /\ UNCHANGED farmVars
    BY <1>3, SweepFreeStep
  <2>2. QED
    BY <2>1, <1>1 DEF Writing, farmVars, tailVars, ringVars
<1>4. CASE SweepBlocked(p) \/ Decline(p)
  <2>1. ppc[p] \in {"sweep", "reserve"} /\ Return(p) /\ UNCHANGED farmVars
    BY <1>4 DEF SweepBlocked, Decline
  <2>2. ppc'[p] = "idle"
    BY <2>1, ReturnStep
  <2>3. QED
    BY <2>1, <2>2, <1>1 DEF Writing, farmVars, tailVars, ringVars
<1>5. CASE CheckFresh(p)
  <2>1. ppc[p] = "check" /\ ppc'[p] \in {"check", "stats"} /\ UNCHANGED farmVars /\ Still(p)
    BY <1>5, CheckFreshStep
  <2>2. QED
    BY <2>1, <1>1 DEF Writing, Still, farmVars, tailVars, ringVars
<1>6. CASE InitStats(p)
  <2>1. ppc[p] = "stats" /\ ppc'[p] = "raise" /\ Still(p) /\ UNCHANGED <<tailVars, ringVars>>
    BY <1>6, InitStatsStep
  <2>2. QED
    BY <2>1, <1>1 DEF Writing, Still, tailVars, ringVars
<1>7. CASE RaiseLive(p)
  <2>1. ppc[p] = "raise" /\ ppc'[p] = "es" /\ Still(p) /\ UNCHANGED <<tailVars, ringVars>>
    BY <1>7, RaiseLiveStep
  <2>2. QED
    BY <2>1, <1>1 DEF Writing, Still, tailVars, ringVars
<1>8. CASE PublishEs(p)
  <2>1. ppc[p] = "es" /\ ppc'[p] \in {"stats", "table"} /\ Still(p) /\ UNCHANGED <<tailVars, ringVars>>
    BY <1>8, PublishEsStep
  <2>2. QED
    BY <2>1, <1>1 DEF Writing, Still, tailVars, ringVars
<1>9. QED
  BY <1>2, <1>3, <1>4, <1>5, <1>6, <1>7, <1>8, ReserveLayout, StoreTableLayout, PublishTableLayout
     DEF ProducerNext

-----------------------------------------------------------------------------
(* Writers and tables in a producer's step.                                *)

(* ... and what writers know stays true.                                   *)
WriterSound(p) ==
    /\ quotaLeft[p] <= Quota[p]
    /\ ppc[p] # "idle" => sq[p] # 0
    /\ ppc[p] = "sweep" => anchor[p] <= Wt
    /\ ppc[p] # "sweep" => swept[p] = 0

LEMMA TailGrows ==
    ASSUME TypeInv, NEW p \in Producers, ProducerNext(p)
    PROVE  Wt' \in Nat /\ Wt <= Wt'
<1>1. CASE Reserve(p)
  BY <1>1, ReserveStep, LayoutTypes
<1>2. CASE ~Reserve(p)
  <2>1. Wt' = Wt
    BY <1>2 DEF ProducerNext, Write, SweepFree, SweepBlocked, Decline, StoreTable,
           CheckFresh, InitStats, RaiseLive, PublishEs, PublishTable, farmVars, tailVars
  <2>2. QED
    BY <2>1, LayoutTypes
<1>3. QED
  BY <1>1, <1>2

LEMMA WriterSoundStep ==
    ASSUME TypeInv, WritersSound, NEW p \in Producers, ProducerNext(p)
    PROVE  \A q \in Producers : WriterSound(q)'
<1> USE LayoutTypes, QuotaTypes
<1>1. \A q \in Producers : WriterSound(q)
  BY DEF WritersSound, WriterSound
<1>2. WriterSound(p)' /\ Wt <= Wt'
  <2>1. CASE Write(p)
    <3>1. /\ ppc[p] = "idle" /\ ppc'[p] \in {"sweep", "reserve"} /\ Wt' = Wt
          /\ quotaLeft'[p] = quotaLeft[p] /\ swept'[p] = swept[p]
          /\ sq'[p] = SqcsOf[Larger(Cf, 1)]
          /\ ppc'[p] = "sweep" => anchor'[p] = Wt
      BY <2>1, WriteStep DEF farmVars, tailVars
    <3>2. SqcsOf[Larger(Cf, 1)] \in 1 .. MaxLeaves
      BY CountBounds DEF TypeInv
    <3>3. SqcsOf[Larger(Cf, 1)] # 0
      BY <3>2, ConsumerAssumption
    <3>4. QED
      BY <3>1, <3>3, <1>1 DEF WriterSound
  <2>2. CASE SweepFree(p)
    <3>1. /\ ppc[p] = "sweep" /\ ppc'[p] \in {"sweep", "reserve"} /\ Wt' = Wt /\ sq'[p] = sq[p]
          /\ ppc'[p] = "sweep" => anchor'[p] = anchor[p] /\ quotaLeft'[p] = quotaLeft[p]
          /\ ppc'[p] = "reserve" => swept'[p] = 0 /\ quotaLeft'[p] = Quota[p]
      BY <2>2, SweepFreeStep DEF farmVars, tailVars
    <3>2. QED
      BY <3>1, <1>1 DEF WriterSound
  <2>3. CASE SweepBlocked(p) \/ Decline(p)
    <3>1. quotaLeft'[p] = quotaLeft[p] /\ Wt' = Wt /\ Return(p)
      BY <2>3 DEF SweepBlocked, Decline, farmVars, tailVars
    <3>2. ppc'[p] = "idle" /\ swept'[p] = 0
      BY <3>1, ReturnStep
    <3>3. QED
      BY <3>1, <3>2, <1>1 DEF WriterSound
  <2>4. CASE Reserve(p)
    <3>1. /\ ppc[p] = "reserve" /\ Wt' = Wt + size[p] /\ ppc'[p] \in {"check", "table"}
          /\ sq'[p] = sq[p] /\ swept'[p] = swept[p] /\ quotaLeft'[p] = quotaLeft[p] - size[p]
      BY <2>4, ReserveStep
    <3>2. QED
      BY <3>1, <1>1 DEF WriterSound
  <2>5. CASE CheckFresh(p)
    <3>1. ppc[p] = "check" /\ ppc'[p] \in {"check", "stats"} /\ Wt' = Wt /\ Still(p)
      BY <2>5, CheckFreshStep DEF farmVars, tailVars
    <3>2. QED
      BY <3>1, <1>1 DEF WriterSound, Still
  <2>6. CASE InitStats(p)
    <3>1. ppc[p] = "stats" /\ ppc'[p] = "raise" /\ Wt' = Wt /\ Still(p)
      BY <2>6, InitStatsStep DEF tailVars
    <3>2. QED
      BY <3>1, <1>1 DEF WriterSound, Still
  <2>7. CASE RaiseLive(p)
    <3>1. ppc[p] = "raise" /\ ppc'[p] = "es" /\ Wt' = Wt /\ Still(p)
      BY <2>7, RaiseLiveStep DEF tailVars
    <3>2. QED
      BY <3>1, <1>1 DEF WriterSound, Still
  <2>8. CASE PublishEs(p)
    <3>1. ppc[p] = "es" /\ ppc'[p] \in {"stats", "table"} /\ Wt' = Wt /\ Still(p)
      BY <2>8, PublishEsStep DEF tailVars
    <3>2. QED
      BY <3>1, <1>1 DEF WriterSound, Still
  <2>9. CASE StoreTable(p)
    <3>1. /\ ppc[p] = "table" /\ ppc'[p] = "sentinel" /\ Wt' = Wt
          /\ sq' = sq /\ swept' = swept /\ quotaLeft' = quotaLeft
      BY <2>9, ProducerFunctions DEF StoreTable, Become, tailVars
    <3>2. QED
      BY <3>1, <1>1 DEF WriterSound
  <2>10. CASE PublishTable(p)
    <3>1. quotaLeft'[p] = quotaLeft[p] /\ Wt' = Wt /\ Return(p)
      BY <2>10 DEF PublishTable, tailVars
    <3>2. ppc'[p] = "idle" /\ swept'[p] = 0
      BY <3>1, ReturnStep
    <3>3. QED
      BY <3>1, <3>2, <1>1 DEF WriterSound
  <2>11. QED
    BY <2>1, <2>2, <2>3, <2>4, <2>5, <2>6, <2>7, <2>8, <2>9, <2>10 DEF ProducerNext
<1>3. ASSUME NEW q \in Producers, q # p PROVE WriterSound(q)'
  <2>1. /\ ppc'[q] = ppc[q] /\ quotaLeft'[q] = quotaLeft[q]
        /\ sq'[q] = sq[q] /\ anchor'[q] = anchor[q] /\ swept'[q] = swept[q]
    BY <1>3, ProducerFrame DEF OthersStill
  <2>2. Wt' \in Nat
    BY TailGrows
  <2>3. QED
    BY <2>1, <2>2, <1>1, <1>2 DEF WriterSound
<1>4. QED
  BY <1>2, <1>3

LEMMA UnpublishedStep ==
    ASSUME TypeInv, Layout, WritersSound, WritersRecent, NEW p \in Producers, ProducerNext(p),
           NEW q \in Producers, ppc'[q] = "sentinel"
    PROVE  Unpublished(q)'
<1>1. OthersStill(p)
  BY ProducerFrame
<1>2. CASE StoreTable(p)
  <2>1. CASE q = p
    BY <2>1, <1>2, StoreTableEffect
  <2>2. CASE q # p
    <3>1. /\ ppc[q] = "sentinel" /\ wret'[q] = wret[q] /\ size'[q] = size[q] /\ Writing(q)
          /\ Unpublished(q)
      BY <2>2, <1>1 DEF OthersStill, Writing, WritersSound
    <3>2. Idx(wret[q]) \in Indices /\ wret[q] \in Nat /\ wret[q] < Wt /\ Wt <= wret[q] + Lap
      BY <3>1, LayoutTypes DEF WritersRecent, Layout, WriterRanges
    <3>3. Writing(p)
      BY <1>2 DEF StoreTable, Writing
    <3>4. \A j \in 0 .. size[p] - 1 : Idx(wret[q]) # Idx(wret[p] + j)
      <4> SUFFICES ASSUME NEW j \in 0 .. size[p] - 1, Idx(wret[q]) = Idx(wret[p] + j) PROVE FALSE
        OBVIOUS
      <4>1. wret[q] = wret[p] + j
        BY <3>2, <3>3, WriterUnits
      <4>2. Apart(wret[p], wtprime(p), wret[q], wtprime(q)) /\ wret[q] < wtprime(q)
        BY <2>2, <3>1, <3>3, LayoutTypes DEF Layout, WritersApart, WriterRanges
      <4>3. QED
        BY <4>1, <4>2, LayoutTypes DEF Apart
    <3>5. WordsKept(Idx(wret[q])) /\ ProgressKept(Idx(wret[q]))
      BY <3>2, <3>4, <1>2, StoreTableEffect
    <3>6. QED
      BY <3>1, <3>5 DEF Unpublished, WordsKept, ProgressKept, wtprime
  <2>3. QED
    BY <2>1, <2>2
<1>3. CASE ~StoreTable(p)
  <2>1. UNCHANGED <<Tnext, Tsq, Tclaims, Tcomps, Tprogress>>
    BY <1>3 DEF ProducerNext, Write, SweepFree, SweepBlocked, Decline, Reserve,
           CheckFresh, InitStats, RaiseLive, PublishEs, PublishTable, farmVars, ringVars
  <2>2. ppc[q] = "sentinel" /\ wret'[q] = wret[q] /\ size'[q] = size[q]
    <3>1. CASE q = p
      <4>1. CASE Write(p) \/ SweepFree(p)
        BY <4>1, <3>1, WriteStep, SweepFreeStep
      <4>2. CASE SweepBlocked(p) \/ Decline(p) \/ PublishTable(p)
        BY <4>2, <3>1, ReturnStep DEF SweepBlocked, Decline, PublishTable
      <4>3. CASE Reserve(p) \/ CheckFresh(p)
        BY <4>3, <3>1, ReserveStep, CheckFreshStep
      <4>4. CASE InitStats(p) \/ RaiseLive(p) \/ PublishEs(p)
        BY <4>4, <3>1, InitStatsStep, RaiseLiveStep, PublishEsStep
      <4>5. QED
        BY <4>1, <4>2, <4>3, <4>4, <1>3 DEF ProducerNext
    <3>2. CASE q # p
      BY <3>2, <1>1 DEF OthersStill
    <3>3. QED
      BY <3>1, <3>2
  <2>3. Unpublished(q)
    BY <2>2 DEF WritersSound
  <2>4. QED
    BY <2>1, <2>2, <2>3 DEF Unpublished, wtprime
<1>4. QED
  BY <1>2, <1>3

LEMMA ProducerWriters ==
    ASSUME TypeInv, Layout, WritersSound, WritersRecent, NEW p \in Producers, ProducerNext(p)
    PROVE  WritersSound'
<1>1. \A q \in Producers : WriterSound(q)'
  BY WriterSoundStep
<1>2. \A q \in Producers : ppc'[q] = "sentinel" => Unpublished(q)'
  BY UnpublishedStep
<1>3. QED
  BY <1>1, <1>2 DEF WritersSound, WriterSound

(* Where the tables come from in a producer's step.                        *)
LEMMA ProducerTables ==
    ASSUME Base, NEW p \in Producers, ProducerNext(p)
    PROVE  /\ \A i \in Tables' :
                 \/ i \in Tables /\ WordsKept(i) /\ ProgressKept(i)
                 \/ /\ PublishTable(p) /\ i = Idx(wret[p]) /\ i \notin Tables
                    /\ Writing(p) /\ Tsent'[i] = wret[p] /\ Tnext'[i] = wtprime(p)
                    /\ Tclaims'[i] = 0 /\ Tcomps'[i] = 0 /\ ~Tprogress'[i]
           /\ \A i \in Tables : Wt' <= Tsent[i] + Lap => i \in Tables' /\ WordsKept(i) /\ ProgressKept(i)
<1>0. TypeInv /\ Layout /\ WritersSound /\ WritersRecent
  BY Windows DEF Base
<1>1. CASE StoreTable(p)
  <2>1. Wt' = Wt
    BY <1>1 DEF StoreTable, tailVars
  <2>2. QED
    BY <1>0, <1>1, <2>1, StoreTableEffect
<1>2. CASE PublishTable(p)
  <2>1. /\ Wt' = Wt /\ Tnext' = Tnext /\ Tsq' = Tsq
        /\ UNCHANGED <<Tclaims, Tcomps, Tprogress>>
        /\ Writing(p) /\ ppc[p] = "sentinel"
        /\ Idx(wret[p]) \notin Tables /\ Tsent'[Idx(wret[p])] = wret[p]
        /\ \A i \in Indices : i # Idx(wret[p]) => Tsent'[i] = Tsent[i]
        /\ Tables' = Tables \cup {Idx(wret[p])}
    BY <1>0, <1>2, PublishTableEffect
  <2>2. Unpublished(p)
    BY <1>0, <2>1 DEF WritersSound
  <2>3. \A i \in Tables : i \in Indices
    BY DEF Tables
  <2>4. \A i \in Tables : i \in Tables' /\ WordsKept(i) /\ ProgressKept(i)
    BY <2>1, <2>3 DEF WordsKept, ProgressKept
  <2>5. ASSUME NEW i, i = Idx(wret[p])
        PROVE  /\ PublishTable(p) /\ i = Idx(wret[p]) /\ i \notin Tables
               /\ Writing(p) /\ Tsent'[i] = wret[p] /\ Tnext'[i] = wtprime(p)
               /\ Tclaims'[i] = 0 /\ Tcomps'[i] = 0 /\ ~Tprogress'[i]
    BY <1>2, <2>1, <2>2, <2>5 DEF Unpublished
  <2>6. QED
    BY <2>1, <2>4, <2>5
<1>3. CASE ~StoreTable(p) /\ ~PublishTable(p)
  <2>1. UNCHANGED <<Tsent, Tnext, Tsq, Tclaims, Tcomps, Tprogress>>
    BY <1>3 DEF ProducerNext, Write, SweepFree, SweepBlocked, Decline, Reserve,
           CheckFresh, InitStats, RaiseLive, PublishEs, farmVars, ringVars
  <2>2. OthersStill(p)
    BY <1>0, ProducerFrame
  <2>3. ppc[p] # "sentinel" /\ ppc'[p] # "sentinel"
    <3>1. CASE Write(p) \/ SweepFree(p)
      BY <1>0, <3>1, WriteStep, SweepFreeStep
    <3>2. CASE SweepBlocked(p) \/ Decline(p)
      BY <1>0, <3>2, ReturnStep DEF SweepBlocked, Decline
    <3>3. CASE Reserve(p) \/ CheckFresh(p)
      BY <1>0, <3>3, ReserveStep, CheckFreshStep
    <3>4. CASE InitStats(p) \/ RaiseLive(p) \/ PublishEs(p)
      BY <1>0, <3>4, InitStatsStep, RaiseLiveStep, PublishEsStep
    <3>5. QED
      BY <3>1, <3>2, <3>3, <3>4, <1>3 DEF ProducerNext
  <2>4. \A q \in Producers : ppc'[q] = "sentinel" <=> ppc[q] = "sentinel"
    BY <2>2, <2>3 DEF OthersStill
  <2>5. \A q \in Producers : ppc[q] = "sentinel" => wret'[q] = wret[q]
    BY <2>2, <2>3 DEF OthersStill
  <2>6. \A i : i \in Tables' <=> i \in Tables
    <3> TAKE i
    <3>1. \A q \in Producers : (ppc'[q] = "sentinel" /\ Idx(wret'[q]) = i)
                            <=> (ppc[q] = "sentinel" /\ Idx(wret[q]) = i)
      BY <2>4, <2>5
    <3>2. QED
      BY <2>1, <3>1 DEF Tables
  <2>7. QED
    BY <2>1, <2>6 DEF WordsKept, ProgressKept
<1>4. QED
  BY <1>1, <1>2, <1>3

(* What a step does to the epochs of the window.                           *)
LEMMA EpochsKept ==
    ASSUME Base, NEW p \in Producers, ProducerNext(p), NEW e \in Nat, InWindow(e), Initialised(e)
    PROVE  Initialised(e)' /\ Seqt'[Slot(e)] = Seqt[Slot(e)] /\ SqCs'[Slot(e)] = SqCs[Slot(e)]
           /\ Sd'[Slot(e)] = Sd[Slot(e)]
<1>0. /\ TypeInv /\ Layout /\ QuotaSound /\ InitsSound /\ PendingStale
      /\ Slot(e) \in Slots
  BY StatTypes DEF Base, EpochInv
<1>1. CASE InitStats(p)
  <2>1. ppc[p] = "stats"
    BY <1>0, <1>1, InitStatsStep
  <2>2. Slot(fresh[p]) # Slot(e)
    BY <1>0, <2>1, FreshElsewhere DEF Crossing
  <2>3. QED
    BY <1>0, <1>1, <2>2, InitStatsStep DEF Initialised
<1>2. CASE PublishEs(p)
  <2>1. ppc[p] = "es"
    BY <1>0, <1>2, PublishEsStep
  <2>2. Slot(fresh[p]) # Slot(e)
    BY <1>0, <2>1, FreshElsewhere DEF Crossing
  <2>3. QED
    BY <1>0, <1>2, <2>2, PublishEsStep DEF Initialised
<1>3. CASE ~InitStats(p) /\ ~PublishEs(p)
  <2>1. UNCHANGED statVars
    BY <1>3 DEF ProducerNext, Write, SweepFree, SweepBlocked, Decline, Reserve,
           CheckFresh, RaiseLive, StoreTable, PublishTable, farmVars
  <2>2. QED
    BY <2>1 DEF Initialised, statVars
<1>4. QED
  BY <1>1, <1>2, <1>3

(* Only the producer that initialises an epoch publishes its Es.           *)
LEMMA InitialisedAnew ==
    ASSUME Base, NEW p \in Producers, ProducerNext(p), NEW e \in Nat, Initialised(e)'
    PROVE  Initialised(e) \/ (PublishEs(p) /\ e = fresh[p])
<1>0. TypeInv /\ Slot(e) \in Slots
  BY StatTypes DEF Base
<1>1. CASE PublishEs(p)
  <2>1. CASE Slot(e) = Slot(fresh[p])
    BY <2>1, <1>0, <1>1, PublishEsStep DEF Initialised
  <2>2. CASE Slot(e) # Slot(fresh[p])
    BY <2>2, <1>0, <1>1, PublishEsStep DEF Initialised
  <2>3. QED
    BY <2>1, <2>2
<1>2. CASE ~PublishEs(p)
  <2>1. Es' = Es
    BY <1>2 DEF ProducerNext, Write, SweepFree, SweepBlocked, Decline, Reserve,
           CheckFresh, InitStats, RaiseLive, StoreTable, PublishTable, farmVars, statVars
  <2>2. QED
    BY <2>1 DEF Initialised
<1>3. QED
  BY <1>1, <1>2

LEMMA WindowShrinks ==
    ASSUME TypeInv, Wt' \in Nat, Wt <= Wt', NEW e \in Nat, InWindow(e)', e <= Epoch(Wt)
    PROVE  InWindow(e)
<1>1. Epoch(Wt) <= Epoch(Wt') /\ Epoch(Wt) \in Nat /\ Epoch(Wt') \in Nat /\ K \in Nat
  BY LayoutTypes, EpochMonotone, StatTypes, EpochType
<1>2. QED
  BY <1>1 DEF InWindow

(* An epoch that was begun before the step, was initialised before it.     *)
LEMMA BegunBefore ==
    ASSUME TypeInv, SlotsSound, NEW e \in Nat, Initialised(e)
    PROVE  e <= Epoch(Wt) /\ e <= Epoch(Seqt[Slot(e)]) /\ Seqt[Slot(e)] <= Wt /\ SqCs[Slot(e)] # 0
<1>1. Slot(e) \in Slots
  BY StatTypes
<1>2. QED
  BY <1>1 DEF SlotsSound, SlotSound, Initialised

(* Work comes up only at the tail.                                         *)
LEMMA WorkedAnew ==
    ASSUME Base, NEW p \in Producers, ProducerNext(p), NEW e \in Nat, Worked(e)'
    PROVE  Worked(e) \/ (Reserve(p) /\ e = Epoch(Wt'))
<1>0. TypeInv /\ Layout /\ WritersSound /\ WritersRecent
  BY Windows DEF Base
<1>1. ASSUME NEW q \in Producers, Writing(q)', Epoch(wret'[q]) = e PROVE Worked(e)
  <2>1. \/ Writing(q) /\ wret'[q] = wret[q]
        \/ wret'[q] = Wt
    BY <1>0, <1>1, ProducerLayout DEF LayoutKept
  <2>2. QED
    BY <1>1, <2>1 DEF Worked
<1>2. ASSUME NEW i \in Tables', ~Tprogress'[i], Epoch(Tsent'[i]) = e PROVE Worked(e)
  <2>1. \/ i \in Tables /\ WordsKept(i) /\ ProgressKept(i)
        \/ Writing(p) /\ Tsent'[i] = wret[p]
    BY ProducerTables
  <2>2. QED
    BY <1>2, <2>1 DEF Worked, WordsKept, ProgressKept
<1>3. CASE e = Epoch(Wt')
  <2>1. CASE Reserve(p)
    BY <2>1, <1>3
  <2>2. CASE ~Reserve(p)
    <3>1. Wt' = Wt
      BY <2>2 DEF ProducerNext, Write, SweepFree, SweepBlocked, Decline, StoreTable,
             CheckFresh, InitStats, RaiseLive, PublishEs, PublishTable, farmVars, tailVars
    <3>2. QED
      BY <3>1, <1>3 DEF Worked
  <2>3. QED
    BY <2>1, <2>2
<1>4. QED
  BY <1>1, <1>2, <1>3 DEF Worked

LEMMA WriterTypesNext ==
    ASSUME TypeInv, NEW p \in Producers, ProducerNext(p), UNCHANGED consumerVars
    PROVE  TypeInv'
  BY ProducerStep

-----------------------------------------------------------------------------
(* Epochs in a producer's step.                                            *)

(* The steps that raise Live, or initialise statistics.                    *)
LEMMA LiveOnlyRaised ==
    ASSUME TypeInv, NEW p \in Producers, ProducerNext(p), NEW k \in Slots, Live[k]
    PROVE  Live'[k]
<1>1. CASE RaiseLive(p)
  BY <1>1, RaiseLiveStep
<1>2. CASE ~RaiseLive(p)
  <2>1. Live' = Live
    BY <1>2 DEF ProducerNext, Write, SweepFree, SweepBlocked, Decline, StoreTable, Reserve,
           CheckFresh, InitStats, PublishEs, PublishTable, farmVars, rootVars
  <2>2. QED
    BY <2>1
<1>3. QED
  BY <1>1, <1>2

InitSound(q) ==
    /\ ppc[q] \in Crossing => Epoch(wret[q]) < fresh[q] /\ fresh[q] <= Epoch(wtprime(q))
    /\ ppc[q] \in {"raise", "es"} =>
          Seqt[Slot(fresh[q])] = wtprime(q) /\ Sd[Slot(fresh[q])] = 0 /\ SqCs[Slot(fresh[q])] # 0
    /\ ppc[q] = "es" => Live[Slot(fresh[q])]

LEMMA InitsOfOthers ==
    ASSUME Base, NEW p \in Producers, ProducerNext(p), NEW q \in Producers, q # p
    PROVE  InitSound(q)'
<1>0. /\ TypeInv /\ Layout /\ QuotaSound /\ InitsSound /\ PendingStale
      /\ InitSound(q) /\ Slot(fresh[q]) \in Slots
  BY StatTypes, LayoutTypes DEF Base, EpochInv, InitsSound, InitSound
<1>1. /\ ppc'[q] = ppc[q] /\ size'[q] = size[q] /\ wret'[q] = wret[q] /\ fresh'[q] = fresh[q]
  BY <1>0, ProducerFrame DEF OthersStill
<1>2. ppc[q] = "es" => Live'[Slot(fresh[q])]
  BY <1>0, LiveOnlyRaised DEF InitSound
<1>3. ppc[q] \in {"raise", "es"} =>
         /\ Seqt'[Slot(fresh[q])] = Seqt[Slot(fresh[q])]
         /\ Sd'[Slot(fresh[q])] = Sd[Slot(fresh[q])]
         /\ SqCs'[Slot(fresh[q])] = SqCs[Slot(fresh[q])]
  <2>1. CASE InitStats(p)
    <3>1. ASSUME ppc[q] \in {"raise", "es"} PROVE Slot(fresh[q]) # Slot(fresh[p])
      <4>1. ppc[p] \in Crossing /\ ppc[q] \in Crossing
        BY <1>0, <2>1, <3>1, InitStatsStep DEF Crossing
      <4>2. QED
        BY <1>0, <4>1, FreshApart
    <3>2. QED
      BY <1>0, <2>1, <3>1, InitStatsStep
  <2>2. CASE ~InitStats(p)
    <3>1. UNCHANGED <<Seqt, Sd, SqCs>>
      BY <2>2 DEF ProducerNext, Write, SweepFree, SweepBlocked, Decline, StoreTable, Reserve,
             CheckFresh, RaiseLive, PublishEs, PublishTable, farmVars, statVars
    <3>2. QED
      BY <3>1
  <2>3. QED
    BY <2>1, <2>2
<1>4. QED
  BY <1>0, <1>1, <1>2, <1>3 DEF InitSound, wtprime

LEMMA InitsOfWriter ==
    ASSUME Base, NEW p \in Producers, ProducerNext(p)
    PROVE  InitSound(p)'
<1>0. /\ TypeInv /\ Layout /\ InitSound(p) /\ Slot(fresh[p]) \in Slots
      /\ fresh[p] \in Nat /\ wret[p] \in Nat /\ wtprime(p) \in Nat
      /\ Epoch(wret[p]) \in Nat /\ Epoch(wtprime(p)) \in Nat
      /\ WritersSound
  BY StatTypes, LayoutTypes DEF Base, EpochInv, InitsSound, InitSound
<1>1. CASE Write(p) \/ SweepFree(p)
  <2>1. ppc'[p] \in {"sweep", "reserve"}
    BY <1>0, <1>1, WriteStep, SweepFreeStep
  <2>2. QED
    BY <2>1 DEF InitSound, Crossing
<1>2. CASE SweepBlocked(p) \/ Decline(p) \/ PublishTable(p) \/ StoreTable(p)
  <2>1. ppc'[p] \in {"idle", "sentinel"}
    BY <1>0, <1>2, ReturnStep, ProducerFunctions DEF SweepBlocked, Decline, PublishTable, StoreTable, Become
  <2>2. QED
    BY <2>1 DEF InitSound, Crossing
<1>3. CASE Reserve(p)
  <2>1. /\ Wt' = Wt + size[p] /\ wret'[p] = Wt /\ size'[p] = size[p] /\ fresh'[p] = Epoch(Wt) + 1
        /\ ppc'[p] = IF Epoch(Wt) # Epoch(Wt') THEN "check" ELSE "table"
    BY <1>0, <1>3, ReserveStep
  <2>2. wtprime(p)' = Wt'
    BY <2>1 DEF wtprime
  <2>3. Epoch(Wt) <= Epoch(Wt') /\ Epoch(Wt) \in Nat /\ Epoch(Wt') \in Nat
    BY <1>0, <2>1, LayoutTypes, EpochMonotone, EpochType
  <2>4. QED
    BY <2>1, <2>2, <2>3 DEF InitSound, Crossing
<1>4. CASE CheckFresh(p)
  <2>1. /\ ppc[p] = "check" /\ Still(p)
        /\ \/ ppc'[p] = "check" /\ fresh'[p] = fresh[p] + 1 /\ fresh[p] < Epoch(wtprime(p))
           \/ ppc'[p] = "stats" /\ fresh'[p] = Epoch(wret[p]) + 1
    BY <1>0, <1>4, CheckFreshStep
  <2>2. wtprime(p)' = wtprime(p) /\ wret'[p] = wret[p]
    BY <2>1 DEF Still, wtprime
  <2>3. Epoch(wret[p]) < fresh[p] /\ fresh[p] <= Epoch(wtprime(p))
    BY <1>0, <2>1 DEF InitSound, Crossing
  <2>4. Epoch(wret'[p]) < fresh'[p] /\ fresh'[p] <= Epoch(wtprime(p)')
    BY <2>1, <2>2, <2>3, <1>0
  <2>5. QED
    BY <2>1, <2>4 DEF InitSound
<1>5. CASE InitStats(p)
  <2>1. /\ ppc[p] = "stats" /\ ppc'[p] = "raise" /\ Still(p) /\ fresh'[p] = fresh[p]
        /\ Seqt'[Slot(fresh[p])] = wtprime(p) /\ SqCs'[Slot(fresh[p])] = sq[p]
        /\ Sd'[Slot(fresh[p])] = 0
    BY <1>0, <1>5, InitStatsStep
  <2>2. wtprime(p)' = wtprime(p) /\ wret'[p] = wret[p]
    BY <2>1 DEF Still, wtprime
  <2>3. sq[p] # 0
    BY <1>0, <2>1 DEF WritersSound
  <2>4. QED
    BY <1>0, <2>1, <2>2, <2>3 DEF InitSound, Crossing
<1>6. CASE RaiseLive(p)
  <2>1. /\ ppc[p] = "raise" /\ ppc'[p] = "es" /\ Still(p) /\ fresh'[p] = fresh[p]
        /\ UNCHANGED statVars /\ Live'[Slot(fresh[p])]
    BY <1>0, <1>6, RaiseLiveStep
  <2>2. wtprime(p)' = wtprime(p) /\ wret'[p] = wret[p]
    BY <2>1 DEF Still, wtprime
  <2>3. QED
    BY <1>0, <2>1, <2>2 DEF InitSound, Crossing, statVars
<1>7. CASE PublishEs(p)
  <2>1. /\ ppc[p] = "es" /\ Still(p)
        /\ \/ ppc'[p] = "stats" /\ fresh'[p] = fresh[p] + 1 /\ fresh[p] < Epoch(wtprime(p))
           \/ ppc'[p] = "table"
    BY <1>0, <1>7, PublishEsStep
  <2>2. wtprime(p)' = wtprime(p) /\ wret'[p] = wret[p]
    BY <2>1 DEF Still, wtprime
  <2>3. QED
    BY <1>0, <2>1, <2>2 DEF InitSound, Crossing
<1>8. QED
  BY <1>1, <1>2, <1>3, <1>4, <1>5, <1>6, <1>7 DEF ProducerNext

LEMMA ProducerInits ==
    ASSUME Base, NEW p \in Producers, ProducerNext(p)
    PROVE  InitsSound'
<1>1. \A q \in Producers : InitSound(q)'
  BY InitsOfOthers, InitsOfWriter
<1>2. QED
  BY <1>1 DEF InitsSound, InitSound

(* Statistics stay behind the tail and ahead of their epoch.               *)
LEMMA ProducerSlots ==
    ASSUME Base, NEW p \in Producers, ProducerNext(p)
    PROVE  SlotsSound'
<1>0. /\ TypeInv /\ Layout /\ QuotaSound /\ InitsSound /\ PendingStale /\ SlotsSound /\ WritersSound
      /\ Wt \in Nat /\ Wt' \in Nat /\ Wt <= Wt' /\ Epoch(Wt) \in Nat /\ Epoch(Wt') \in Nat
      /\ fresh[p] \in Nat /\ wtprime(p) \in Nat /\ Slot(fresh[p]) \in Slots
  BY TailGrows, EpochType, LayoutTypes, StatTypes DEF Base, EpochInv
<1>1. Epoch(Wt) <= Epoch(Wt')
  BY <1>0, EpochMonotone
<1>2. SUFFICES ASSUME NEW k \in Slots PROVE SlotSound(k)'
  BY DEF SlotsSound
<1>3. SlotSound(k) /\ Es[k] \in Int /\ Seqt[k] \in Nat /\ Epoch(Seqt[k]) \in Nat
  BY <1>0, StatTypes, EpochType DEF SlotsSound
<1>4. ASSUME ppc[p] \in Crossing
      PROVE  /\ Es[Slot(fresh[p])] < fresh[p] /\ fresh[p] <= Epoch(wtprime(p))
             /\ wtprime(p) <= Wt /\ Epoch(wtprime(p)) <= Epoch(Wt) /\ Epoch(wtprime(p)) \in Nat
             /\ sq[p] # 0
  <2>1. Writing(p) /\ ppc[p] # "idle"
    BY <1>4 DEF Writing, Crossing
  <2>2. wtprime(p) <= Wt /\ sq[p] # 0
    BY <1>0, <2>1 DEF Layout, WriterRanges, WritersSound
  <2>3. fresh[p] <= Epoch(wtprime(p))
    BY <1>0, <1>4 DEF InitsSound
  <2>4. Es[Slot(fresh[p])] < fresh[p]
    BY <1>0, <1>4, FreshPending
  <2>5. QED
    BY <1>0, <2>2, <2>3, <2>4, EpochMonotone, EpochType
<1>5. CASE InitStats(p) /\ k = Slot(fresh[p])
  <2>1. /\ ppc[p] = "stats" /\ Es' = Es /\ Live' = Live /\ Wt' = Wt
        /\ Seqt'[k] = wtprime(p) /\ SqCs'[k] = sq[p]
    BY <1>0, <1>5, InitStatsStep DEF rootVars, tailVars
  <2>2. ASSUME Es[k] < 0, Live[k]
        PROVE  \E q \in Producers : ppc'[q] = "es" /\ Slot(fresh'[q]) = k
    <3>1. PICK q \in Producers : ppc[q] = "es" /\ Slot(fresh[q]) = k
      BY <1>3, <2>2 DEF SlotSound
    <3>2. q # p
      BY <3>1, <2>1
    <3>3. QED
      BY <3>1, <3>2, <1>0, ProducerFrame DEF OthersStill
  <2>3. Seqt'[k] <= Wt' /\ SqCs'[k] # 0
    BY <2>1, <1>4 DEF Crossing
  <2>4. Es'[k] >= 0 => Es'[k] <= Epoch(Wt') /\ Slot(Es'[k]) = k /\ Es'[k] <= Epoch(Seqt'[k])
    <3>1. Es[k] < fresh[p] /\ fresh[p] <= Epoch(wtprime(p)) /\ Epoch(wtprime(p)) \in Nat
      BY <1>4, <1>5, <2>1 DEF Crossing
    <3>2. QED
      BY <1>0, <1>3, <2>1, <3>1 DEF SlotSound
  <2>5. QED
    BY <2>1, <2>2, <2>3, <2>4 DEF SlotSound
<1>6. CASE PublishEs(p) /\ k = Slot(fresh[p])
  <2>1. /\ ppc[p] = "es" /\ Es'[k] = fresh[p] /\ Seqt' = Seqt /\ SqCs' = SqCs /\ Wt' = Wt
    BY <1>0, <1>6, PublishEsStep DEF rootVars, tailVars
  <2>2. Seqt[k] = wtprime(p) /\ SqCs[k] # 0
    BY <1>0, <1>6, <2>1 DEF InitsSound
  <2>3. fresh[p] <= Epoch(wtprime(p)) /\ Epoch(wtprime(p)) <= Epoch(Wt) /\ Epoch(wtprime(p)) \in Nat
    BY <1>4, <2>1 DEF Crossing
  <2>4. fresh[p] <= Epoch(Wt)
    BY <2>3, <1>0
  <2>5. QED
    BY <1>0, <1>3, <1>6, <2>1, <2>2, <2>3, <2>4 DEF SlotSound
<1>7. CASE ~(InitStats(p) /\ k = Slot(fresh[p])) /\ ~(PublishEs(p) /\ k = Slot(fresh[p]))
  <2>1. Es'[k] = Es[k] /\ Seqt'[k] = Seqt[k] /\ SqCs'[k] = SqCs[k]
    <3>1. CASE InitStats(p)
      BY <3>1, <1>0, <1>7, InitStatsStep
    <3>2. CASE PublishEs(p)
      BY <3>2, <1>0, <1>7, PublishEsStep
    <3>3. CASE ~InitStats(p) /\ ~PublishEs(p)
      BY <3>3 DEF ProducerNext, Write, SweepFree, SweepBlocked, Decline, Reserve,
             CheckFresh, RaiseLive, StoreTable, PublishTable, farmVars, statVars
    <3>4. QED
      BY <3>1, <3>2, <3>3
  <2>2. ASSUME Es'[k] < 0, Live'[k]
        PROVE  \E q \in Producers : ppc'[q] = "es" /\ Slot(fresh'[q]) = k
    <3>1. CASE RaiseLive(p) /\ Slot(fresh[p]) = k
      <4>1. ppc'[p] = "es" /\ fresh'[p] = fresh[p]
        BY <1>0, <3>1, RaiseLiveStep
      <4>2. QED
        BY <4>1, <3>1
    <3>2. CASE ~(RaiseLive(p) /\ Slot(fresh[p]) = k)
      <4>1. Live[k]
        <5>1. CASE RaiseLive(p)
          BY <5>1, <3>2, <2>2, <1>0, RaiseLiveStep
        <5>2. CASE ~RaiseLive(p)
          BY <5>2, <2>2 DEF ProducerNext, Write, SweepFree, SweepBlocked, Decline, StoreTable, Reserve,
                 CheckFresh, InitStats, PublishEs, PublishTable, farmVars, rootVars
        <5>3. QED
          BY <5>1, <5>2
      <4>2. PICK q \in Producers : ppc[q] = "es" /\ Slot(fresh[q]) = k
        BY <1>3, <2>1, <2>2, <4>1 DEF SlotSound
      <4>3. q # p
        <5>1. SUFFICES ASSUME q = p PROVE FALSE
          OBVIOUS
        <5>2. PublishEs(p)
          BY <5>1, <4>2 DEF ProducerNext, Write, SweepFree, SweepBlocked, Decline, Reserve,
                 CheckFresh, InitStats, RaiseLive, StoreTable, PublishTable
        <5>3. QED
          BY <5>1, <5>2, <4>2, <1>7
      <4>4. QED
        BY <4>2, <4>3, <1>0, ProducerFrame DEF OthersStill
    <3>3. QED
      BY <3>1, <3>2
  <2>3. Seqt'[k] <= Wt'
    BY <2>1, <1>0, <1>3 DEF SlotSound
  <2>4. Es'[k] >= 0 => Es'[k] <= Epoch(Wt')
    BY <2>1, <1>0, <1>1, <1>3 DEF SlotSound
  <2>5. QED
    BY <2>1, <2>2, <2>3, <2>4, <1>3 DEF SlotSound
<1>8. QED
  BY <1>5, <1>6, <1>7

(* Who has to initialise an epoch, before and after a step.                *)
LEMMA PendingKept ==
    ASSUME Base, NEW p \in Producers, ProducerNext(p), NEW e \in Nat, NEW q \in Producers,
           Pending(q, e), ~(PublishEs(p) /\ q = p /\ e = fresh[p])
    PROVE  Pending(q, e)'
<1>0. /\ TypeInv /\ Layout /\ InitsSound /\ e \in Nat
      /\ fresh[q] \in Nat /\ Epoch(wret[q]) \in Nat /\ Epoch(wtprime(q)) \in Nat
  BY LayoutTypes, EpochType DEF Base, EpochInv
<1>1. /\ Writing(q) /\ Epoch(wret[q]) < e /\ e <= Epoch(wtprime(q)) /\ ppc[q] \in Crossing
      /\ ppc[q] # "check" => fresh[q] <= e
  BY DEF Pending, Crosses
<1>2. CASE q # p
  <2>1. ppc'[q] = ppc[q] /\ wret'[q] = wret[q] /\ size'[q] = size[q] /\ fresh'[q] = fresh[q]
    BY <1>0, <1>2, ProducerFrame DEF OthersStill
  <2>2. wtprime(q)' = wtprime(q) /\ Writing(q)'
    BY <2>1, <1>1 DEF wtprime, Writing
  <2>3. QED
    BY <2>1, <2>2, <1>1 DEF Pending, Crosses
<1>3. CASE q = p
  <2>1. CASE CheckFresh(p)
    <3>1. /\ ppc[p] = "check" /\ Still(p)
          /\ \/ ppc'[p] = "check"
             \/ ppc'[p] = "stats" /\ fresh'[p] = Epoch(wret[p]) + 1
      BY <1>0, <2>1, CheckFreshStep
    <3>2. wret'[q] = wret[q] /\ wtprime(q)' = wtprime(q) /\ Writing(q)'
      BY <3>1, <1>3 DEF wtprime, Writing, Still
    <3>3. QED
      BY <3>1, <3>2, <1>0, <1>1, <1>3 DEF Pending, Crosses, Crossing
  <2>2. CASE InitStats(p) \/ RaiseLive(p)
    <3>1. /\ ppc[p] \in {"stats", "raise"} /\ ppc'[p] \in {"raise", "es"} /\ Still(p)
          /\ fresh'[p] = fresh[p]
      BY <1>0, <2>2, InitStatsStep, RaiseLiveStep
    <3>2. wret'[q] = wret[q] /\ wtprime(q)' = wtprime(q) /\ Writing(q)'
      BY <3>1, <1>3 DEF wtprime, Writing, Still
    <3>3. QED
      BY <3>1, <3>2, <1>1, <1>3 DEF Pending, Crosses, Crossing
  <2>3. CASE PublishEs(p)
    <3>1. /\ ppc[p] = "es" /\ Still(p)
          /\ \/ ppc'[p] = "stats" /\ fresh'[p] = fresh[p] + 1
             \/ ~(fresh[p] < Epoch(wtprime(p)))
      BY <1>0, <2>3, PublishEsStep
    <3>2. fresh[p] < e /\ e <= Epoch(wtprime(p))
      BY <1>0, <1>1, <1>3, <2>3, <3>1
    <3>3. ppc'[p] = "stats" /\ fresh'[p] = fresh[p] + 1
      BY <1>0, <1>3, <3>1, <3>2
    <3>4. wret'[q] = wret[q] /\ wtprime(q)' = wtprime(q) /\ Writing(q)'
      BY <3>1, <3>3, <1>3 DEF wtprime, Writing, Still
    <3>5. QED
      BY <3>2, <3>3, <3>4, <1>0, <1>1, <1>3 DEF Pending, Crosses, Crossing
  <2>4. CASE ~CheckFresh(p) /\ ~InitStats(p) /\ ~RaiseLive(p) /\ ~PublishEs(p)
    <3>1. ppc[p] \in {"idle", "sweep", "reserve", "table", "sentinel"}
      BY <2>4 DEF ProducerNext, Write, SweepFree, SweepBlocked, Decline, Reserve, StoreTable, PublishTable
    <3>2. QED
      BY <3>1, <1>1, <1>3 DEF Crossing
  <2>5. QED
    BY <2>1, <2>2, <2>3, <2>4
<1>4. QED
  BY <1>2, <1>3

LEMMA PendingAnew ==
    ASSUME Base, NEW p \in Producers, ProducerNext(p), NEW e \in Nat, NEW q \in Producers,
           Pending(q, e)'
    PROVE  \/ Pending(q, e) /\ ~(PublishEs(p) /\ q = p /\ e = fresh[p])
           \/ Reserve(p) /\ q = p /\ Epoch(Wt) < e
<1>0. /\ TypeInv /\ Layout /\ InitsSound /\ e \in Nat
      /\ fresh[q] \in Nat /\ Epoch(wret[q]) \in Nat /\ Epoch(wtprime(q)) \in Nat
  BY LayoutTypes, EpochType DEF Base, EpochInv
<1>1. /\ Writing(q)' /\ Epoch(wret'[q]) < e /\ e <= Epoch(wtprime(q)') /\ ppc'[q] \in Crossing
      /\ ppc'[q] # "check" => fresh'[q] <= e
  BY DEF Pending, Crosses
<1>2. CASE q # p
  <2>1. ppc'[q] = ppc[q] /\ wret'[q] = wret[q] /\ size'[q] = size[q] /\ fresh'[q] = fresh[q]
    BY <1>0, <1>2, ProducerFrame DEF OthersStill
  <2>2. wtprime(q)' = wtprime(q) /\ Writing(q)
    BY <2>1, <1>1 DEF wtprime, Writing
  <2>3. QED
    BY <2>1, <2>2, <1>1, <1>2 DEF Pending, Crosses
<1>3. CASE q = p
  <2>1. CASE CheckFresh(p)
    <3>1. ppc[p] = "check" /\ Still(p)
      BY <1>0, <2>1, CheckFreshStep
    <3>2. wret'[q] = wret[q] /\ wtprime(q)' = wtprime(q) /\ Writing(q)
      BY <3>1, <1>3 DEF wtprime, Writing, Still
    <3>3. ~PublishEs(p)
      BY <3>1 DEF PublishEs
    <3>4. QED
      BY <3>1, <3>2, <3>3, <1>1, <1>3 DEF Pending, Crosses, Crossing
  <2>2. CASE InitStats(p) \/ RaiseLive(p)
    <3>1. /\ ppc[p] \in {"stats", "raise"} /\ ppc'[p] \in {"raise", "es"} /\ Still(p)
          /\ fresh'[p] = fresh[p]
      BY <1>0, <2>2, InitStatsStep, RaiseLiveStep
    <3>2. wret'[q] = wret[q] /\ wtprime(q)' = wtprime(q) /\ Writing(q)
      BY <3>1, <1>3 DEF wtprime, Writing, Still
    <3>3. ~PublishEs(p)
      BY <3>1 DEF PublishEs
    <3>4. QED
      BY <3>1, <3>2, <3>3, <1>1, <1>3 DEF Pending, Crosses, Crossing
  <2>3. CASE PublishEs(p)
    <3>1. /\ ppc[p] = "es" /\ Still(p)
          /\ \/ ppc'[p] = "stats" /\ fresh'[p] = fresh[p] + 1
             \/ ppc'[p] = "table"
      BY <1>0, <2>3, PublishEsStep
    <3>2. ppc'[p] = "stats" /\ fresh'[p] = fresh[p] + 1
      BY <1>1, <1>3, <3>1 DEF Crossing
    <3>3. fresh[p] + 1 <= e
      BY <1>1, <1>3, <3>2
    <3>4. wret'[q] = wret[q] /\ wtprime(q)' = wtprime(q) /\ Writing(q)
      BY <3>1, <1>3 DEF wtprime, Writing, Still
    <3>5. QED
      BY <3>1, <3>3, <3>4, <1>0, <1>1, <1>3 DEF Pending, Crosses, Crossing
  <2>4. CASE Reserve(p)
    <3>1. wret'[p] = Wt
      BY <1>0, <2>4, ReserveStep
    <3>2. QED
      BY <3>1, <2>4, <1>1, <1>3
  <2>5. CASE Write(p) \/ SweepFree(p) \/ SweepBlocked(p) \/ Decline(p) \/ PublishTable(p) \/ StoreTable(p)
    <3>1. ppc'[p] \in {"idle", "sweep", "reserve", "sentinel"}
      BY <1>0, <2>5, WriteStep, SweepFreeStep, ReturnStep, ProducerFunctions
         DEF SweepBlocked, Decline, PublishTable, StoreTable, Become
    <3>2. QED
      BY <3>1, <1>1, <1>3 DEF Crossing
  <2>6. QED
    BY <2>1, <2>2, <2>3, <2>4, <2>5 DEF ProducerNext
<1>4. QED
  BY <1>2, <1>3

LEMMA ProducerBegins ==
    ASSUME Base, NEW p \in Producers, ProducerNext(p)
    PROVE  EpochsBegun'
<1>0. /\ TypeInv /\ Layout /\ EpochsBegun /\ InitsSound
      /\ Wt \in Nat /\ Wt' \in Nat /\ Wt <= Wt' /\ Epoch(Wt) \in Nat /\ Epoch(Wt') \in Nat
  BY TailGrows, EpochType, LayoutTypes, StatTypes DEF Base, EpochInv
<1>1. SUFFICES ASSUME NEW e \in Nat, InWindow(e)'
               PROVE  Initialised(e)' \/ \E q \in Producers : Pending(q, e)'
  BY DEF EpochsBegun
<1>2. CASE e <= Epoch(Wt)
  <2>1. InWindow(e)
    BY <1>0, <1>1, <1>2, WindowShrinks
  <2>2. CASE Initialised(e)
    BY <2>1, <2>2, EpochsKept
  <2>3. ASSUME NEW q \in Producers, Pending(q, e)
        PROVE  Initialised(e)' \/ Pending(q, e)'
    <3>1. CASE PublishEs(p) /\ e = fresh[p]
      BY <3>1, <1>0, PublishEsStep DEF Initialised
    <3>2. QED
      BY <2>3, <3>1, PendingKept
  <2>4. QED
    BY <2>1, <2>2, <2>3, <1>0 DEF EpochsBegun
<1>3. CASE ~(e <= Epoch(Wt))
  <2>1. e <= Epoch(Wt')
    BY <1>1 DEF InWindow
  <2>2. Reserve(p)
    <3>1. Wt' # Wt
      BY <1>3, <2>1
    <3>2. QED
      BY <3>1 DEF ProducerNext, Write, SweepFree, SweepBlocked, Decline, StoreTable,
             CheckFresh, InitStats, RaiseLive, PublishEs, PublishTable, farmVars, tailVars
  <2>3. /\ Wt' = Wt + size[p] /\ wret'[p] = Wt /\ size'[p] = size[p]
        /\ ppc'[p] = IF Epoch(Wt) # Epoch(Wt') THEN "check" ELSE "table"
    BY <1>0, <2>2, ReserveStep
  <2>4. wtprime(p)' = Wt'
    BY <2>3 DEF wtprime
  <2>5. Epoch(Wt) < e /\ Epoch(Wt) # Epoch(Wt')
    BY <1>0, <1>3, <2>1
  <2>6. Pending(p, e)'
    BY <2>1, <2>3, <2>4, <2>5 DEF Pending, Crosses, Crossing, Writing
  <2>7. QED
    BY <2>6
<1>4. QED
  BY <1>2, <1>3

LEMMA ProducerStale ==
    ASSUME Base, NEW p \in Producers, ProducerNext(p)
    PROVE  PendingStale'
<1>0. /\ TypeInv /\ Layout /\ QuotaSound /\ PendingStale /\ InitsSound /\ SlotsSound
      /\ Wt \in Nat /\ Wt' \in Nat /\ Wt <= Wt' /\ Epoch(Wt) \in Nat /\ Epoch(Wt') \in Nat
      /\ K \in Nat /\ fresh[p] \in Nat
  BY TailGrows, EpochType, LayoutTypes, StatTypes DEF Base, EpochInv
<1>1. SUFFICES ASSUME NEW e \in Nat, NEW q \in Producers, InWindow(e)', Pending(q, e)'
               PROVE  Es'[Slot(e)] < e
  BY DEF PendingStale
<1>2. Slot(e) \in Slots /\ Es[Slot(e)] \in Int
  BY <1>0, StatTypes
<1>3. CASE Reserve(p) /\ q = p /\ Epoch(Wt) < e
  <2>1. Es' = Es
    BY <1>0, <1>3, ReserveStep DEF statVars
  <2>2. QED
    BY <1>0, <1>2, <1>3, <2>1 DEF SlotsSound, SlotSound
<1>4. CASE Pending(q, e) /\ ~(PublishEs(p) /\ q = p /\ e = fresh[p])
  <2>1. InWindow(e)
    BY <1>0, <1>4, Windows DEF Pending
  <2>2. Es[Slot(e)] < e
    BY <1>0, <1>4, <2>1 DEF PendingStale
  <2>3. CASE PublishEs(p) /\ Slot(fresh[p]) = Slot(e)
    <3>1. ppc[p] \in Crossing
      BY <1>0, <2>3, PublishEsStep DEF Crossing
    <3>2. Crosses(p, fresh[p]) /\ InWindow(fresh[p])
      BY <1>0, <3>1, FreshPending
    <3>3. fresh[p] < e + K /\ e < fresh[p] + K
      BY <1>0, <2>1, <3>2 DEF InWindow
    <3>4. fresh[p] = e
      BY <1>0, <2>3, <3>3, SlotsApart
    <3>5. p = q
      BY <1>0, <1>4, <3>2, <3>4, CrossersApart DEF Pending
    <3>6. QED
      BY <1>4, <2>3, <3>4, <3>5
  <2>4. CASE ~(PublishEs(p) /\ Slot(fresh[p]) = Slot(e))
    <3>1. Es'[Slot(e)] = Es[Slot(e)]
      <4>1. CASE PublishEs(p)
        BY <4>1, <2>4, <1>0, <1>2, PublishEsStep
      <4>2. CASE ~PublishEs(p)
        BY <4>2 DEF ProducerNext, Write, SweepFree, SweepBlocked, Decline, Reserve,
               CheckFresh, InitStats, RaiseLive, StoreTable, PublishTable, farmVars, statVars
      <4>3. QED
        BY <4>1, <4>2
    <3>2. QED
      BY <2>2, <3>1
  <2>5. QED
    BY <2>3, <2>4
<1>5. QED
  BY <1>1, <1>3, <1>4, PendingAnew

(* A range beside [a, b) that a writer crossing into e has reserved.       *)
LEMMA SplitBeside ==
    ASSUME NEW e \in Nat, NEW a \in Nat, NEW b \in Nat, NEW s \in Nat, NEW t \in Nat,
           Apart(s, t, a, b), s <= t, Epoch(a) < e, e <= Epoch(b)
    PROVE  /\ Epoch(s) >= e => s >= b
           /\ Epoch(s) < e => Epoch(t) < e \/ t = b
<1> USE EpochType
<1>1. CASE t <= a
  <2>1. Epoch(t) <= Epoch(a) /\ Epoch(s) <= Epoch(a)
    BY <1>1, EpochMonotone
  <2>2. QED
    BY <2>1
<1>2. CASE b <= s
  <2>1. Epoch(b) <= Epoch(s)
    BY <1>2, EpochMonotone
  <2>2. QED
    BY <1>2, <2>1
<1>3. QED
  BY <1>1, <1>2 DEF Apart

(* The statistics a writer has prepared divide the tables already.         *)
LEMMA SplitWhenPublished ==
    ASSUME Base, NEW p \in Producers, ppc[p] = "es"
    PROVE  EpochSplit(fresh[p])
<1> DEFINE e == fresh[p]
<1>0. /\ TypeInv /\ Layout /\ InitsSound /\ e \in Nat
      /\ wret[p] \in Nat /\ wtprime(p) \in Nat /\ Writing(p)
  BY LayoutTypes DEF Base, EpochInv, Writing
<1>1. Seqt[Slot(e)] = wtprime(p) /\ Epoch(wret[p]) < e /\ e <= Epoch(wtprime(p))
  BY <1>0 DEF InitsSound, Crossing
<1>2. Boundary(Seqt[Slot(e)])
  BY <1>0, <1>1 DEF Layout, Chained
<1>3. ASSUME NEW q \in Producers, Writing(q) PROVE Split(e, wret[q], wtprime(q))
  <2>0. wret[q] \in Nat /\ wtprime(q) \in Nat /\ wret[q] <= wtprime(q)
    BY <1>0, LayoutTypes
  <2>1. CASE q = p
    BY <2>1, <1>0, <1>1, EpochType DEF Split
  <2>2. CASE q # p
    <3>1. Apart(wret[q], wtprime(q), wret[p], wtprime(p))
      BY <1>0, <1>3, <2>2 DEF Layout, WritersApart
    <3>2. /\ Epoch(wret[q]) >= e => wret[q] >= wtprime(p)
          /\ Epoch(wret[q]) < e => Epoch(wtprime(q)) < e \/ wtprime(q) = wtprime(p)
      BY <1>0, <1>1, <2>0, <3>1, SplitBeside
    <3>3. QED
      BY <1>1, <3>2 DEF Split
  <2>3. QED
    BY <2>1, <2>2
<1>4. ASSUME NEW i \in Tables PROVE Split(e, Tsent[i], Tnext[i])
  <2>0. i \in Indices /\ Tsent[i] # NoSeq
    BY DEF Tables
  <2>1. Tsent[i] \in Nat /\ Tnext[i] \in Nat /\ Tsent[i] < Tnext[i]
    BY <1>0, <2>0, LayoutTypes DEF Layout, SentinelsSound, SentinelSound, TablesSound, TableSound
  <2>2. Apart(Tsent[i], Tnext[i], wret[p], wtprime(p))
    BY <1>0 DEF Layout, TablesSound, TableSound
  <2>3. /\ Epoch(Tsent[i]) >= e => Tsent[i] >= wtprime(p)
        /\ Epoch(Tsent[i]) < e => Epoch(Tnext[i]) < e \/ Tnext[i] = wtprime(p)
    BY <1>0, <1>1, <2>1, <2>2, SplitBeside
  <2>4. QED
    BY <1>1, <2>3 DEF Split
<1>5. QED
  BY <1>2, <1>3, <1>4 DEF EpochSplit

(* The split survives any step that keeps the layout and Seqt.             *)
LEMMA SplitKept ==
    ASSUME TypeInv, LayoutKept, SlotsSound, NEW e \in Nat, EpochSplit(e), Initialised(e),
           Wt' \in Nat, InWindow(e)', Seqt'[Slot(e)] = Seqt[Slot(e)],
           \A i \in Tables : Tsent[i] \in Nat,
           Layout'
    PROVE  EpochSplit(e)'
<1>0. /\ Seqt[Slot(e)] \in Nat /\ e <= Epoch(Wt) /\ e <= Epoch(Seqt[Slot(e)]) /\ Seqt[Slot(e)] <= Wt
      /\ Wt \in Nat /\ Wt <= Wt'
  BY StatTypes, BegunBefore, LayoutTypes DEF LayoutKept
<1>1. Boundary(Seqt[Slot(e)])'
  <2>1. Wt' < Seqt[Slot(e)] + Lap
    BY <1>0, WithinLap DEF InWindow
  <2>2. Wt' <= Seqt[Slot(e)] + Lap
    BY <2>1, <1>0, LayoutTypes
  <2>3. \A s \in Nat : Boundary(s) /\ Wt' <= s + Lap => Boundary(s)'
    BY DEF LayoutKept
  <2>4. \A s \in Nat : s = Seqt[Slot(e)] => Boundary(s)'
    BY <1>0, <2>2, <2>3 DEF EpochSplit
  <2>5. PICK s \in Nat : s = Seqt[Slot(e)]
    BY <1>0
  <2>6. Boundary(s)' /\ Seqt'[Slot(e)] = s
    BY <2>4, <2>5
  <2>7. QED
    BY <2>6 DEF Boundary, At
<1>2. ASSUME NEW q \in Producers, Writing(q)' PROVE Split(e, wret[q], wtprime(q))'
  <2>1. CASE Writing(q) /\ wret'[q] = wret[q] /\ size'[q] = size[q]
    <3>1. Split(e, wret[q], wtprime(q)) /\ wtprime(q)' = wtprime(q)
      BY <2>1 DEF EpochSplit, wtprime
    <3>2. QED
      BY <3>1, <2>1 DEF Split
  <2>2. CASE wret'[q] = Wt
    <3>1. Epoch(Wt) \in Nat
      BY <1>0, EpochType
    <3>2. QED
      BY <2>2, <3>1, <1>0 DEF Split
  <2>3. QED
    BY <1>2, <2>1, <2>2 DEF LayoutKept
<1>3. ASSUME NEW i \in Tables' PROVE Split(e, Tsent[i], Tnext[i])'
  <2>1. CASE i \in Tables /\ WordsKept(i)
    <3>1. Split(e, Tsent[i], Tnext[i])
      BY <2>1 DEF EpochSplit
    <3>2. QED
      BY <3>1, <2>1 DEF Split, WordsKept
  <2>2. ASSUME NEW q \in Producers, ppc[q] = "sentinel", Tsent'[i] = wret[q], Tnext'[i] = wtprime(q)
        PROVE  Split(e, Tsent[i], Tnext[i])'
    <3>1. Split(e, wret[q], wtprime(q))
      BY <2>2 DEF EpochSplit, Writing
    <3>2. QED
      BY <3>1, <2>2 DEF Split
  <2>3. QED
    BY <1>3, <2>1, <2>2 DEF LayoutKept
<1>4. QED
  BY <1>1, <1>2, <1>3 DEF EpochSplit

LEMMA TableSequences ==
    ASSUME Layout
    PROVE  \A i \in Tables : i \in Indices /\ Tsent[i] \in Nat /\ Idx(Tsent[i]) = i /\ Tsent[i] < Wt
<1>1. \A i \in Tables : i \in Indices /\ Tsent[i] # NoSeq
  BY DEF Tables
<1>2. QED
  BY <1>1 DEF Layout, SentinelsSound, SentinelSound

LEMMA ProducerSplits ==
    ASSUME Base, NEW p \in Producers, ProducerNext(p)
    PROVE  EpochsSplit'
<1>0. /\ TypeInv /\ Layout /\ WritersSound /\ WritersRecent /\ SlotsSound /\ InitsSound /\ EpochsSplit
      /\ Wt \in Nat /\ Wt' \in Nat /\ Wt <= Wt'
      /\ Layout' /\ LayoutKept
  BY TailGrows, LayoutTypes, Windows, ProducerLayout DEF Base, EpochInv
<1>1. SUFFICES ASSUME NEW e \in Nat, InWindow(e)', Initialised(e)'
               PROVE  EpochSplit(e)'
  BY DEF EpochsSplit
<1>2. CASE Initialised(e)
  <2>1. e <= Epoch(Wt)
    BY <1>0, <1>2, BegunBefore
  <2>2. InWindow(e)
    BY <1>0, <1>1, <2>1, WindowShrinks
  <2>3. Seqt'[Slot(e)] = Seqt[Slot(e)]
    BY <2>2, <1>2, EpochsKept
  <2>4. EpochSplit(e)
    BY <1>0, <1>2, <2>2 DEF EpochsSplit
  <2>5. \A i \in Tables : Tsent[i] \in Nat
    BY <1>0, TableSequences
  <2>6. QED
    BY <1>0, <1>1, <1>2, <2>3, <2>4, <2>5, SplitKept
<1>3. CASE PublishEs(p) /\ e = fresh[p]
  <2>1. ppc[p] = "es" /\ UNCHANGED <<Wt, Seqt, Tsent, Tnext>>
    BY <1>0, <1>3, PublishEsStep DEF tailVars, ringVars
  <2>2. EpochSplit(e)
    BY <2>1, <1>3, SplitWhenPublished
  <2>3. /\ \A q \in Producers : Writing(q)' <=> Writing(q)
        /\ \A q \in Producers : wret'[q] = wret[q] /\ size'[q] = size[q]
        /\ \A q \in Producers : ppc'[q] = "sentinel" <=> ppc[q] = "sentinel"
    <3>1. OthersStill(p) /\ ppc'[p] \in {"stats", "table"} /\ Still(p)
      BY <1>0, <1>3, ProducerFrame, PublishEsStep
    <3>2. QED
      BY <2>1, <3>1 DEF OthersStill, Still, Writing
  <2>4. Tables' = Tables
    BY <2>1, <2>3 DEF Tables
  <2>5. \A s : Boundary(s)' <=> Boundary(s)
    BY <2>1, <2>3, <2>4 DEF Boundary, At
  <2>6. \A q \in Producers : wtprime(q)' = wtprime(q)
    BY <2>3 DEF wtprime
  <2>7. Boundary(Seqt[Slot(e)])'
    <3>1. PICK s : s = Seqt[Slot(e)]
      OBVIOUS
    <3>2. Boundary(s)'
      BY <2>2, <2>5, <3>1 DEF EpochSplit
    <3>3. QED
      BY <3>1, <3>2, <2>1 DEF Boundary, At
  <2>8. QED
    BY <2>1, <2>2, <2>3, <2>4, <2>6, <2>7 DEF EpochSplit, Split
<1>4. QED
  BY <1>1, <1>2, <1>3, InitialisedAnew

LEMMA ProducerLights ==
    ASSUME Base, NEW p \in Producers, ProducerNext(p)
    PROVE  WorkLit'
<1>0. /\ TypeInv /\ Layout /\ SlotsSound /\ InitsSound /\ WorkLit
      /\ Wt \in Nat /\ Wt' \in Nat /\ Wt <= Wt'
      /\ Epoch(Wt) \in Nat /\ Epoch(Wt') \in Nat
  BY TailGrows, LayoutTypes, EpochType DEF Base, EpochInv
<1>1. SUFFICES ASSUME NEW e \in Nat, Worked(e)', Initialised(e)'
               PROVE  Live'[Slot(e)]
  BY DEF WorkLit
<1>2. Slot(e) \in Slots
  BY <1>0, StatTypes
<1>3. CASE PublishEs(p) /\ e = fresh[p]
  <2>1. ppc[p] = "es"
    BY <1>0, <1>3, PublishEsStep
  <2>2. Live[Slot(e)]
    BY <1>0, <1>3, <2>1 DEF InitsSound
  <2>3. QED
    BY <1>0, <1>2, <2>2, LiveOnlyRaised
<1>4. CASE Initialised(e)
  <2>1. e <= Epoch(Wt)
    BY <1>0, <1>4, BegunBefore
  <2>2. Worked(e)
    <3>1. CASE Reserve(p) /\ e = Epoch(Wt')
      <4>1. Epoch(Wt) <= Epoch(Wt')
        BY <1>0, EpochMonotone
      <4>2. e = Epoch(Wt)
        BY <1>0, <2>1, <3>1, <4>1
      <4>3. QED
        BY <4>2 DEF Worked
    <3>2. QED
      BY <1>1, <3>1, WorkedAnew
  <2>3. Live[Slot(e)]
    BY <1>0, <1>4, <2>2 DEF WorkLit
  <2>4. QED
    BY <1>0, <1>2, <2>3, LiveOnlyRaised
<1>5. QED
  BY <1>1, <1>3, <1>4, InitialisedAnew

LEMMA ProducerDone ==
    ASSUME Base, NEW p \in Producers, ProducerNext(p)
    PROVE  DoneBegun'
<1>0. /\ TypeInv /\ Layout /\ DoneBegun
      /\ Wt \in Nat /\ Wt' \in Nat /\ Wt <= Wt'
  BY TailGrows, LayoutTypes DEF Base, EpochInv
<1>1. SUFFICES ASSUME NEW i \in Tables', InWindow(Epoch(Tsent[i]))', Tprogress'[i]
               PROVE  Initialised(Epoch(Tsent[i]))'
  BY DEF DoneBegun
<1>2. i \in Tables /\ WordsKept(i) /\ ProgressKept(i)
  BY <1>1, ProducerTables
<1>3. PICK e \in Nat : e = Epoch(Tsent[i])
  BY <1>0, <1>2, TableSequences, EpochType
<1>4. e = Epoch(Tsent'[i]) /\ Tprogress[i]
  BY <1>1, <1>2, <1>3 DEF WordsKept, ProgressKept
<1>5. InWindow(e)'
  BY <1>1, <1>4 DEF InWindow
<1>6. e <= Epoch(Wt)
  <2>1. Tsent[i] \in Nat /\ Tsent[i] <= Wt
    BY <1>0, <1>2, TableSequences
  <2>2. QED
    BY <2>1, <1>0, <1>3, EpochMonotone
<1>7. InWindow(e)
  BY <1>0, <1>5, <1>6, WindowShrinks
<1>8. Initialised(e)
  BY <1>0, <1>2, <1>3, <1>4, <1>7 DEF DoneBegun
<1>9. Initialised(e)'
  BY <1>7, <1>8, EpochsKept
<1>10. QED
  BY <1>4, <1>9 DEF Initialised

LEMMA ProducerEpochs ==
    ASSUME Base, NEW p \in Producers, ProducerNext(p)
    PROVE  EpochInv'
  BY ProducerInits, ProducerSlots, ProducerBegins, ProducerStale, ProducerSplits,
     ProducerLights, ProducerDone DEF EpochInv

-----------------------------------------------------------------------------
(* Protection in a producer's step.                                        *)

(* What is protected after a producer's step was so before, or is newer    *)
(* than something that was.                                                *)
LEMMA ClaimsKept ==
    ASSUME Base, AttemptsInv, NEW p \in Producers, ProducerNext(p), UNCHANGED consumerVars,
           NEW c \in Consumers, NEW e \in Nat, Claims(c, e)'
    PROVE  Claims(c, e)
<1>0. /\ TypeInv /\ Layout /\ QuotaSound /\ InitsSound /\ PendingStale
      /\ cpc' = cpc /\ at' = at /\ Slot(e) \in Slots /\ e \in Nat
      /\ wtprime(p) \in Nat /\ Epoch(wtprime(p)) \in Nat /\ fresh[p] \in Nat /\ K \in Nat
  BY StatTypes, LayoutTypes, EpochType DEF Base, EpochInv, consumerVars
<1>1. at[c] = e
  BY <1>0 DEF Claims
<1>2. CASE cpc[c] \in {"valWt", "valNext", "subLeaf"}
  BY <1>1, <1>2 DEF Claims
<1>3. CASE cpc[c] \in {"valEs", "valSeqt"}
  <2>1. Epoch(Seqt'[Slot(e)]) < e + K
    BY <1>0, <1>3 DEF Claims
  <2>2. CASE Seqt'[Slot(e)] = Seqt[Slot(e)]
    BY <1>1, <1>3, <2>1, <2>2 DEF Claims
  <2>3. CASE Seqt'[Slot(e)] # Seqt[Slot(e)]
    <3>1. InitStats(p)
      <4>1. Seqt' # Seqt
        BY <2>3
      <4>2. QED
        BY <4>1 DEF ProducerNext, Write, SweepFree, SweepBlocked, Decline, StoreTable, Reserve,
               CheckFresh, RaiseLive, PublishEs, PublishTable, farmVars, statVars
    <3>2. Slot(fresh[p]) = Slot(e) /\ ppc[p] \in Crossing
      BY <1>0, <2>3, <3>1, InitStatsStep DEF Crossing
    <3>3. Seqt'[Slot(e)] = wtprime(p)
      BY <1>0, <3>1, <3>2, InitStatsStep
    <3>4. Es[Slot(e)] < fresh[p] /\ fresh[p] <= Epoch(wtprime(p))
      BY <1>0, <3>2, FreshPending DEF InitsSound
    <3>5. Es[Slot(e)] >= e /\ Es[Slot(e)] \in Int
      BY <1>0, <1>1, <1>3, StatTypes DEF AttemptsInv, AttemptSound
    <3>6. e < fresh[p] /\ fresh[p] < e + K
      BY <1>0, <2>1, <3>3, <3>4, <3>5
    <3>7. e < fresh[p] + K
      BY <1>0, <3>6
    <3>8. fresh[p] = e
      BY <1>0, <3>2, <3>6, <3>7, SlotsApart
    <3>9. QED
      BY <3>6, <3>8, <1>0
  <2>4. QED
    BY <2>2, <2>3
<1>4. QED
  BY <1>0, <1>2, <1>3 DEF Claims

LEMMA LitAnew ==
    ASSUME Base, NEW p \in Producers, ProducerNext(p), NEW e \in Nat, Lit(e)'
    PROVE  Lit(e) \/ (PublishEs(p) /\ e = fresh[p])
<1>0. TypeInv /\ Slot(e) \in Slots /\ OthersStill(p)
  BY StatTypes, ProducerFrame DEF Base
<1>1. Initialised(e)' /\ Live'[Slot(e)] /\ \A q \in Producers : ~(ppc'[q] = "es" /\ Slot(fresh'[q]) = Slot(e))
  BY DEF Lit
<1>2. CASE PublishEs(p) /\ e = fresh[p]
  BY <1>2
<1>3. CASE ~(PublishEs(p) /\ e = fresh[p])
  <2>1. Initialised(e)
    BY <1>1, <1>3, InitialisedAnew
  <2>2. Live[Slot(e)]
    <3>1. CASE RaiseLive(p)
      <4>1. Slot(fresh[p]) # Slot(e)
        BY <1>0, <1>1, <3>1, RaiseLiveStep
      <4>2. QED
        BY <1>0, <1>1, <3>1, <4>1, RaiseLiveStep
    <3>2. CASE ~RaiseLive(p)
      BY <3>2, <1>1 DEF ProducerNext, Write, SweepFree, SweepBlocked, Decline, StoreTable, Reserve,
             CheckFresh, InitStats, PublishEs, PublishTable, farmVars, rootVars
    <3>3. QED
      BY <3>1, <3>2
  <2>3. ASSUME NEW q \in Producers, ppc[q] = "es", Slot(fresh[q]) = Slot(e) PROVE FALSE
    <3>1. q = p
      BY <1>0, <1>1, <2>3 DEF OthersStill
    <3>2. PublishEs(p)
      BY <3>1, <2>3 DEF ProducerNext, Write, SweepFree, SweepBlocked, Decline, Reserve,
             CheckFresh, InitStats, RaiseLive, StoreTable, PublishTable
    <3>3. Es'[Slot(e)] = fresh[p]
      BY <1>0, <2>3, <3>1, <3>2, PublishEsStep
    <3>4. QED
      BY <1>1, <1>3, <3>2, <3>3 DEF Initialised
  <2>4. QED
    BY <2>1, <2>2, <2>3 DEF Lit
<1>4. QED
  BY <1>2, <1>3

LEMMA ProtectedAnew ==
    ASSUME Base, AttemptsInv, NEW p \in Producers, ProducerNext(p), UNCHANGED consumerVars,
           NEW e \in Nat, Protected(e)'
    PROVE  \/ Protected(e)
           \/ /\ PublishEs(p) \/ Reserve(p)
              /\ e <= Epoch(Wt')
              /\ \E f \in Nat : f <= e /\ Protected(f)
<1>0. /\ TypeInv /\ Layout /\ InitsSound /\ cpc' = cpc /\ at' = at
      /\ oldestEi' = oldestEi /\ newestEi' = newestEi
      /\ Wt \in Nat /\ Wt' \in Nat /\ Wt <= Wt' /\ Epoch(Wt) \in Nat /\ Epoch(Wt') \in Nat
  BY TailGrows, LayoutTypes, EpochType DEF Base, EpochInv, consumerVars, viewVars
<1>1. ASSUME NEW c \in Consumers, Held(c, e)' PROVE Protected(e)
  <2>1. Held(c, e)
    BY <1>0, <1>1 DEF Held, Holds, Attached
  <2>2. QED
    BY <2>1 DEF Protected, Kept
<1>2. ASSUME NEW c \in Consumers, Claims(c, e)' PROVE Protected(e)
  BY <1>2, ClaimsKept DEF Protected, Kept
<1>3. CASE PublishEs(p) /\ e = fresh[p]
  <2>1. ppc[p] = "es" /\ Wt' = Wt
    BY <1>0, <1>3, PublishEsStep DEF tailVars
  <2>2. Writing(p) /\ ppc[p] \in Crossing
    BY <2>1 DEF Writing, Crossing
  <2>3. /\ wret[p] \in Nat /\ wtprime(p) \in Nat /\ wtprime(p) <= Wt
        /\ Epoch(wret[p]) < e /\ e <= Epoch(wtprime(p))
    BY <1>0, <1>3, <2>2, LayoutTypes DEF InitsSound, Layout, WriterRanges
  <2>4. Epoch(wtprime(p)) <= Epoch(Wt) /\ Epoch(wtprime(p)) \in Nat /\ Epoch(wret[p]) \in Nat
    BY <1>0, <2>3, EpochMonotone, EpochType
  <2>5. Protected(Epoch(wret[p]))
    BY <2>2 DEF Protected, Worked
  <2>6. e <= Epoch(Wt') /\ Epoch(wret[p]) <= e
    BY <1>0, <2>1, <2>3, <2>4
  <2>7. QED
    BY <1>3, <2>4, <2>5, <2>6
<1>4. ASSUME Lit(e)' PROVE Protected(e) \/ (PublishEs(p) /\ e = fresh[p])
  BY <1>4, LitAnew DEF Protected, Kept
<1>5. ASSUME Worked(e)' PROVE Protected(e) \/ (Reserve(p) /\ e = Epoch(Wt'))
  BY <1>5, WorkedAnew DEF Protected
<1>6. CASE Reserve(p) /\ e = Epoch(Wt')
  <2>1. Epoch(Wt) <= Epoch(Wt')
    BY <1>0, EpochMonotone
  <2>2. Protected(Epoch(Wt))
    BY DEF Protected, Worked
  <2>3. QED
    BY <1>0, <1>6, <2>1, <2>2
<1>7. QED
  BY <1>1, <1>2, <1>3, <1>4, <1>5, <1>6 DEF Protected, Kept

(* Finite sets of views and leaves.                                        *)
LEMMA SetsFinite ==
    /\ \A S : S \subseteq Consumers => IsFiniteSet(S) /\ Cardinality(S) \in Nat
    /\ \A S : S \subseteq Consumers /\ S # {} => Cardinality(S) > 0
    /\ \A k : IsFiniteSet(Touched(k)) /\ Cardinality(Touched(k)) \in Nat
    /\ \A k : Touched(k) # {} => Cardinality(Touched(k)) > 0
<1>1. IsFiniteSet(Consumers)
  BY ConsumerAssumption
<1>2. \A S : S \subseteq Consumers => IsFiniteSet(S)
  BY <1>1, FS_Subset
<1>3. \A S : S \subseteq Consumers => Cardinality(S) \in Nat
  BY <1>2, FS_CardinalityType
<1>4. \A S : S \subseteq Consumers /\ S # {} => Cardinality(S) > 0
  BY <1>2, <1>3, FS_EmptySet
<1>5. IsFiniteSet(Leaves)
  BY FS_Interval, ConsumerAssumption DEF Leaves
<1>6. \A k : Touched(k) \subseteq Leaves
  BY DEF Touched
<1>7. \A k : IsFiniteSet(Touched(k))
  BY <1>5, <1>6, FS_Subset
<1>8. \A k : Cardinality(Touched(k)) \in Nat
  BY <1>7, FS_CardinalityType
<1>9. \A k : Touched(k) # {} => Cardinality(Touched(k)) > 0
  BY <1>7, <1>8, FS_EmptySet
<1>10. QED
  BY <1>2, <1>3, <1>4, <1>7, <1>8, <1>9

LEMMA ViewTypes ==
    ASSUME TypeInv
    PROVE  \A c \in Consumers :
        /\ at[c] \in Nat /\ probe[c] \in Nat /\ seqtRead[c] \in Nat /\ tseq[c] \in Nat
        /\ nextSeq[c] \in Nat /\ oldestEi[c] \in Nat /\ newestEi[c] \in Nat
        /\ sweepSeq[c] \in Nat /\ oldSweepSeq[c] \in Nat /\ IDc[c] \in Nat
        /\ Epoch(nextSeq[c]) \in Nat /\ Epoch(seqtRead[c]) \in Nat /\ Epoch(tseq[c]) \in Nat
        /\ Slot(oldestEi[c]) \in Slots /\ Slot(newestEi[c]) \in Slots /\ Slot(at[c]) \in Slots
        /\ Idx(tseq[c]) \in Indices /\ Idx(nextSeq[c]) \in Indices
        /\ cpc[c] \in CPhases /\ ret[c] \in Returns /\ job[c] \in Jobs
        /\ subs[c] \subseteq Slots /\ sqRead[c] \in 0 .. MaxLeaves
        /\ \A k \in Slots : ltiRing[c][k] \in Leaves
<1> SUFFICES ASSUME NEW c \in Consumers
             PROVE  /\ at[c] \in Nat /\ probe[c] \in Nat /\ seqtRead[c] \in Nat /\ tseq[c] \in Nat
                    /\ nextSeq[c] \in Nat /\ oldestEi[c] \in Nat /\ newestEi[c] \in Nat
                    /\ sweepSeq[c] \in Nat /\ oldSweepSeq[c] \in Nat /\ IDc[c] \in Nat
                    /\ Epoch(nextSeq[c]) \in Nat /\ Epoch(seqtRead[c]) \in Nat /\ Epoch(tseq[c]) \in Nat
                    /\ Slot(oldestEi[c]) \in Slots /\ Slot(newestEi[c]) \in Slots /\ Slot(at[c]) \in Slots
                    /\ Idx(tseq[c]) \in Indices /\ Idx(nextSeq[c]) \in Indices
                    /\ cpc[c] \in CPhases /\ ret[c] \in Returns /\ job[c] \in Jobs
                    /\ subs[c] \subseteq Slots /\ sqRead[c] \in 0 .. MaxLeaves
                    /\ \A k \in Slots : ltiRing[c][k] \in Leaves
  OBVIOUS
<1>1. at[c] \in Nat /\ probe[c] \in Nat /\ seqtRead[c] \in Nat /\ subs[c] \subseteq Slots /\ sqRead[c] \in 0 .. MaxLeaves
  BY DEF TypeInv, TypeOK, ConsumerTypeOK, AttemptTypeOK
<1>2. tseq[c] \in Nat /\ job[c] \in Jobs
  BY DEF TypeInv, TypeOK, ConsumerTypeOK, ClaimTypeOK
<1>3. /\ nextSeq[c] \in Nat /\ oldestEi[c] \in Nat /\ newestEi[c] \in Nat
      /\ sweepSeq[c] \in Nat /\ oldSweepSeq[c] \in Nat
      /\ \A k \in Slots : ltiRing[c][k] \in Leaves
  BY DEF TypeInv, TypeOK, ConsumerTypeOK, ViewTypeOK
<1>4. cpc[c] \in CPhases /\ ret[c] \in Returns
  BY DEF TypeInv, TypeOK, ConsumerTypeOK, ControlTypeOK
<1>5. IDc[c] \in 0 .. IdMod - 1
  BY DEF TypeInv, TypeOK, ConsumerTypeOK, ViewTypeOK
<1>6. IDc[c] \in Nat
  BY <1>5, IdAssumption
<1>7. QED
  BY <1>1, <1>2, <1>3, <1>4, <1>6, RingArithmetic

(* What a view holds: known to the tallies, never lapped, initialised.     *)
LEMMA HeldSound ==
    ASSUME TypeInv, Layout, RangesSound, NEW c \in Consumers, NEW e \in Int, Holds(c, e)
    PROVE  /\ e \in Nat /\ e \in Epochs /\ Attached(c)
           /\ e >= oldestEi[c] /\ e <= Epoch(nextSeq[c]) /\ nextSeq[c] <= Wt
           /\ Held(c, e)
<1> USE ViewTypes
<1>1. Attached(c)
  BY DEF Holds
<1>2. /\ oldestEi[c] <= newestEi[c] + 1
      /\ newestEi[c] <= Epoch(nextSeq[c]) /\ nextSeq[c] <= Wt
      /\ cpc[c] \in {"moveLeaf", "moveRoot"} => newestEi[c] < at[c] /\ at[c] <= Epoch(nextSeq[c])
  BY <1>1 DEF RangesSound, RangeSound, Moving
<1>3. e >= oldestEi[c] /\ e <= Epoch(nextSeq[c])
  BY <1>2 DEF Holds
<1>4. e \in Nat
  BY <1>3
<1>5. nextSeq[c] <= MaxSeq /\ MaxSeq \in Nat
  BY <1>2, LayoutTypes, GeometryAssumption DEF Layout, TailBounded
<1>6. Epoch(nextSeq[c]) <= Epoch(MaxSeq) /\ Epoch(MaxSeq) \in Nat
  BY <1>5, EpochMonotone, EpochType
<1>7. e \in Epochs
  BY <1>3, <1>4, <1>6, GeometryAssumption DEF Epochs
<1>8. QED
  BY <1>1, <1>2, <1>3, <1>4, <1>7 DEF Held

(* A held epoch has a root, or a subscriber's pin, unless every root it    *)
(* has is still to be raised.                                              *)
LEMMA HeldRooted ==
    ASSUME TypeInv, Layout, QuotaSound, RangesSound, AttemptsInv, TallyInv,
           NEW c \in Consumers, NEW e \in Nat, Held(c, e)
    PROVE  \/ Count[Slot(e)] > 0
           \/ Sub[Slot(e)] > 0
           \/ \E d \in Consumers : cpc[d] = "moveRoot" /\ at[d] = e
<1> DEFINE k == Slot(e)
<1> USE ViewTypes
<1>0. k \in Slots /\ Count[k] \in Int
  BY StatTypes DEF TypeInv, TypeOK, FarmTypeOK, RootTypeOK
<1> HIDE DEF k
<1>1. Touched(k) # {} \/ Lowerers(k) # {}
  <2>1. CASE Holds(c, e)
    <3>1. e \in Epochs
      BY <2>1, HeldSound
    <3>2. PICK l \in Leaves : l = ltiRing[c][k]
      BY <1>0
    <3>3. c \in Holders(k, l)
      BY <3>1, <3>2, <2>1 DEF Holders, k
    <3>4. Cardinality(Holders(k, l)) > 0
      BY <3>3, SetsFinite DEF Holders
    <3>5. Lt[k][l] > 0
      BY <1>0, <3>2, <3>4 DEF TallyInv, LeavesAgree
    <3>6. QED
      BY <3>2, <3>5 DEF Touched
  <2>2. CASE cpc[c] = "decRoot" /\ oldestEi[c] = e
    BY <2>2 DEF Lowerers, LoweringRoot, k
  <2>3. QED
    BY <2>1, <2>2 DEF Held
<1>2. CASE Raisers(k) = {}
  <2>1. Cardinality(Raisers(k)) = 0
    BY <1>2, FS_EmptySet
  <2>2. Cardinality(Touched(k)) + Cardinality(Lowerers(k)) > 0
    <3>1. Lowerers(k) \subseteq Consumers
      BY DEF Lowerers
    <3>2. QED
      BY <1>1, <3>1, SetsFinite
  <2>3. QED
    BY <1>0, <2>1, <2>2 DEF TallyInv, RootsAgree, k
<1>3. CASE Raisers(k) # {}
  <2>1. PICK d \in Consumers : RaisingRoot(d, k)
    BY <1>3 DEF Raisers
  <2>2. CASE cpc[d] = "subRoot"
    <3>1. k \in subs[d]
      BY <2>1, <2>2 DEF RaisingRoot, AttemptsInv, AttemptSound
    <3>2. Pinners(k) # {} /\ Pinners(k) \subseteq Consumers
      BY <3>1 DEF Pinners
    <3>3. Cardinality(Pinners(k)) > 0
      BY <3>2, SetsFinite
    <3>4. QED
      BY <1>0, <3>3 DEF TallyInv, SubsAgree, k
  <2>3. CASE cpc[d] = "moveRoot"
    <3>1. at[d] \in Nat /\ Holds(d, at[d])
      BY <2>3 DEF Holds, Attached, SubscribePhases
    <3>2. Held(d, at[d])
      BY <3>1 DEF Held
    <3>3. InWindow(at[d])
      BY <3>1, <3>2, Windows DEF Protected, Kept
    <3>4. InWindow(e)
      BY Windows DEF Protected, Kept
    <3>5. at[d] < e + K /\ e < at[d] + K
      <4>1. K \in Nat /\ Epoch(Wt) \in Nat
        BY StatTypes, LayoutTypes
      <4>2. QED
        BY <3>1, <3>3, <3>4, <4>1 DEF InWindow
    <3>6. Slot(at[d]) = Slot(e)
      BY <2>1 DEF RaisingRoot, k
    <3>7. at[d] = e
      BY <3>1, <3>5, <3>6, SlotsApart
    <3>8. QED
      BY <2>3, <3>7
  <2>4. QED
    BY <2>1, <2>2, <2>3 DEF RaisingRoot
<1>4. QED
  BY <1>2, <1>3

(* The slot a sweep finds free is not that of a protected epoch a lap      *)
(* behind.                                                                 *)
LEMMA FreeUnprotected ==
    ASSUME Base, ViewInv, NEW p \in Producers, SweepFree(p), NEW e \in Nat, Protected(e)
    PROVE  e # Epoch(anchor[p]) + swept[p] + 1 - K
<1>0. /\ TypeInv /\ Layout /\ WritersSound /\ QuotaSound /\ EpochInv
      /\ KeptSound /\ AttemptsInv /\ RangesSound /\ TallyInv
      /\ SubsAgree /\ Slot(e) \in Slots /\ K \in Nat
      /\ anchor[p] \in Nat /\ Epoch(anchor[p]) \in Nat /\ swept[p] \in Nat /\ ppc[p] = "sweep"
  BY StatTypes, LayoutTypes, QuotaTypes, EpochType DEF Base, ViewInv, TallyInv, SweepFree
<1>1. SUFFICES ASSUME e = Epoch(anchor[p]) + swept[p] + 1 - K PROVE FALSE
  OBVIOUS
<1>2. e + K = Epoch(anchor[p]) + swept[p] + 1
  BY <1>0, <1>1
<1>3. Free(Slot(e))
  <2>1. Slot(e + K) = Slot(e)
    BY SlotShift
  <2>2. Free(Slot(Epoch(anchor[p]) + swept[p] + 1))
    BY DEF SweepFree
  <2>3. QED
    BY <1>2, <2>1, <2>2
<1>4. ~Live[Slot(e)] /\ Count[Slot(e)] = 0 /\ Sub[Slot(e)] = 0
  BY <1>3 DEF Free, Unprotected
<1>5. \A f \in Nat : Protected(f) => f >= e
  <2> TAKE f \in Nat
  <2>1. HAVE Protected(f)
  <2>2. Ahead(f, p)
    BY <1>0, <2>1 DEF QuotaSound, Safe
  <2>3. f > Epoch(anchor[p]) + swept[p] - K
    BY <2>2 DEF Ahead
  <2>4. QED
    BY <1>0, <1>1, <2>3
<1>6. ~Worked(e)
  <2>1. SUFFICES ASSUME Worked(e) PROVE FALSE
    OBVIOUS
  <2>2. InWindow(e)
    BY <1>0, Windows
  <2>3. ~Initialised(e)
    BY <1>0, <1>4, <2>1 DEF EpochInv, WorkLit
  <2>4. PICK q \in Producers : Pending(q, e)
    BY <1>0, <2>2, <2>3 DEF EpochInv, EpochsBegun
  <2>5. Writing(q) /\ Epoch(wret[q]) < e /\ Epoch(wret[q]) \in Nat
    BY <1>0, <2>4, LayoutTypes, EpochType DEF Pending, Crosses
  <2>6. Protected(Epoch(wret[q]))
    BY <2>5 DEF Protected, Worked
  <2>7. QED
    BY <1>5, <2>5, <2>6
<1>7. ~Lit(e)
  BY <1>4 DEF Lit
<1>8. ASSUME NEW c \in Consumers, Claims(c, e) PROVE FALSE
  <2>1. Slot(e) \in subs[c]
    BY <1>0, <1>8 DEF Claims, AttemptsInv, AttemptSound, Candidate
  <2>2. Pinners(Slot(e)) # {} /\ Pinners(Slot(e)) \subseteq Consumers
    BY <2>1, <1>8 DEF Pinners
  <2>3. Cardinality(Pinners(Slot(e))) > 0
    BY <2>2, SetsFinite
  <2>4. QED
    BY <1>0, <1>4, <2>3 DEF SubsAgree
<1>9. ASSUME NEW c \in Consumers, Held(c, e) PROVE FALSE
  <2>1. PICK d \in Consumers : cpc[d] = "moveRoot" /\ at[d] = e
    <3>1. ~(Count[Slot(e)] > 0) /\ ~(Sub[Slot(e)] > 0)
      BY <1>4
    <3>2. QED
      BY <1>0, <1>9, <3>1, HeldRooted
  <2>2. Attached(d)
    BY <2>1 DEF Attached, SubscribePhases
  <2>3. /\ oldestEi[d] <= newestEi[d] /\ newestEi[d] < e
        /\ oldestEi[d] \in Nat /\ newestEi[d] \in Nat
    BY <1>0, <2>1, <2>2, ViewTypes DEF RangesSound, RangeSound, Moving
  <2>4. Holds(d, newestEi[d])
    BY <2>1, <2>2, <2>3 DEF Holds
  <2>5. Protected(newestEi[d])
    BY <2>4 DEF Protected, Kept, Held
  <2>6. QED
    BY <1>5, <2>3, <2>5
<1>10. QED
  BY <1>6, <1>7, <1>8, <1>9 DEF Protected, Kept

(* No producer's step laps what is protected.                              *)
LEMMA ProducerSafe ==
    ASSUME Base, NEW p \in Producers, ProducerNext(p), NEW e \in Nat, Safe(e),
           SweepFree(p) => e # Epoch(anchor[p]) + swept[p] + 1 - K
    PROVE  Safe(e)'
<1>0. TypeInv /\ WritersSound
  BY DEF Base
<1>1. CASE Write(p) \/ SweepFree(p) \/ SweepBlocked(p) \/ Reserve(p)
  BY <1>0, <1>1, WriteSafe, SweepFreeSafe, BlockedSafe, ReserveSafe
<1>2. CASE Decline(p) \/ CheckFresh(p) \/ InitStats(p) \/ RaiseLive(p) \/ PublishEs(p)
           \/ StoreTable(p) \/ PublishTable(p)
  <2>1. Wt' = Wt /\ quotaLeft' = quotaLeft
    BY <1>2 DEF Decline, CheckFresh, InitStats, RaiseLive, PublishEs, StoreTable, PublishTable,
                farmVars, tailVars
  <2>2. ppc[p] # "sweep" /\ ppc'[p] # "sweep"
    <3>1. CASE Decline(p) \/ PublishTable(p)
      BY <1>0, <3>1, ReturnStep DEF Decline, PublishTable
    <3>2. CASE CheckFresh(p) \/ InitStats(p) \/ RaiseLive(p) \/ PublishEs(p)
      BY <1>0, <3>2, CheckFreshStep, InitStatsStep, RaiseLiveStep, PublishEsStep
    <3>3. CASE StoreTable(p)
      BY <1>0, <3>3, ProducerFunctions DEF StoreTable, Become
    <3>4. QED
      BY <1>2, <3>1, <3>2, <3>3
  <2>3. OthersStill(p)
    BY <1>0, ProducerFrame
  <2>4. SameQuota
    BY <2>1, <2>2, <2>3 DEF SameQuota, OthersStill
  <2>5. QED
    BY <2>4, SameQuotaKeeps
<1>3. QED
  BY <1>1, <1>2 DEF ProducerNext

LEMMA ProducerQuota ==
    ASSUME Base, ViewInv, NEW p \in Producers, ProducerNext(p), UNCHANGED consumerVars
    PROVE  QuotaSound'
<1>0. /\ TypeInv /\ WritersSound /\ QuotaSound /\ AttemptsInv
      /\ Wt \in Nat /\ Wt' \in Nat /\ Wt <= Wt' /\ Epoch(Wt) \in Nat /\ Epoch(Wt') \in Nat
  BY TailGrows, LayoutTypes, EpochType DEF Base, ViewInv
<1>1. Epoch(Wt) <= Epoch(Wt')
  BY <1>0, EpochMonotone
<1>2. SUFFICES ASSUME NEW e \in Nat, Protected(e)'
               PROVE  e <= Epoch(Wt') /\ Safe(e)'
  BY DEF QuotaSound
<1>3. CASE Protected(e)
  <2>1. e <= Epoch(Wt) /\ Safe(e)
    BY <1>0, <1>3 DEF QuotaSound
  <2>2. SweepFree(p) => e # Epoch(anchor[p]) + swept[p] + 1 - K
    BY <1>3, FreeUnprotected
  <2>3. Safe(e)'
    BY <2>1, <2>2, ProducerSafe
  <2>4. QED
    BY <1>0, <1>1, <2>1, <2>3
<1>4. CASE (PublishEs(p) \/ Reserve(p)) /\ e <= Epoch(Wt') /\ \E f \in Nat : f <= e /\ Protected(f)
  <2>1. PICK f \in Nat : f <= e /\ Protected(f)
    BY <1>4
  <2>2. Safe(f)
    BY <1>0, <2>1 DEF QuotaSound
  <2>3. Safe(e)
    BY <1>0, <2>1, <2>2, SafeUpward
  <2>4. ~SweepFree(p)
    BY <1>4 DEF SweepFree, PublishEs, Reserve
  <2>5. QED
    BY <1>4, <2>3, <2>4, ProducerSafe
<1>5. QED
  BY <1>0, <1>2, <1>3, <1>4, ProtectedAnew

LEMMA ProducerKept ==
    ASSUME Base, ViewInv, NEW p \in Producers, ProducerNext(p), UNCHANGED consumerVars
    PROVE  KeptSound'
<1>0. /\ TypeInv /\ Layout /\ QuotaSound /\ AttemptsInv /\ KeptSound
      /\ cpc' = cpc /\ at' = at /\ oldestEi' = oldestEi /\ newestEi' = newestEi
  BY DEF Base, ViewInv, consumerVars, viewVars
<1>1. SUFFICES ASSUME NEW e \in Nat, Kept(e)' PROVE Initialised(e)'
  BY DEF KeptSound
<1>2. CASE Lit(e)'
  BY <1>2 DEF Lit
<1>3. ASSUME NEW c \in Consumers, Held(c, e)' \/ Claims(c, e)' PROVE Initialised(e)'
  <2>1. Held(c, e) \/ Claims(c, e)
    BY <1>0, <1>3, ClaimsKept DEF Held, Holds, Attached
  <2>2. Kept(e)
    BY <2>1 DEF Kept
  <2>3. Initialised(e) /\ InWindow(e)
    BY <1>0, <2>2, Windows DEF KeptSound, Protected
  <2>4. QED
    BY <2>3, EpochsKept
<1>4. QED
  BY <1>1, <1>2, <1>3 DEF Kept

-----------------------------------------------------------------------------
(* Views in a producer's step.                                             *)

(* A view that reads keeps its oldest epoch, and so all of its window.     *)
LEMMA ReadingHolds ==
    ASSUME TypeInv, Layout, QuotaSound, RangesSound, NEW c \in Consumers, Reading(c)
    PROVE  /\ Attached(c) /\ Held(c, oldestEi[c]) /\ Protected(oldestEi[c]) /\ InWindow(oldestEi[c])
           /\ oldestEi[c] \in Nat /\ newestEi[c] \in Nat /\ oldestEi[c] <= newestEi[c]
           /\ newestEi[c] <= Epoch(nextSeq[c]) /\ nextSeq[c] <= Wt
           /\ Epoch(nextSeq[c]) <= Epoch(Wt)
           /\ cpc[c] # "leaving"
<1> USE ViewTypes
<1>1. Attached(c) /\ cpc[c] # "leaving"
  BY DEF Reading, TypeInv, LeavingSound
<1>2. /\ oldestEi[c] <= newestEi[c] /\ newestEi[c] <= Epoch(nextSeq[c]) /\ nextSeq[c] <= Wt
  BY <1>1 DEF RangesSound, RangeSound
<1>3. Held(c, oldestEi[c])
  BY <1>1, <1>2 DEF Held, Holds
<1>4. Protected(oldestEi[c])
  BY <1>3 DEF Protected, Kept
<1>5. InWindow(oldestEi[c])
  BY <1>4, Windows
<1>6. Epoch(nextSeq[c]) <= Epoch(Wt)
  BY <1>2, LayoutTypes, EpochMonotone
<1>7. QED
  BY <1>1, <1>2, <1>3, <1>4, <1>5, <1>6

LEMMA WindowNext ==
    ASSUME Base, ViewInv, NEW p \in Producers, ProducerNext(p), NEW e \in Nat, Protected(e)
    PROVE  InWindow(e)' /\ InWindow(e)
<1>0. /\ TypeInv /\ Layout /\ QuotaSound /\ Wt \in Nat /\ Wt' \in Nat /\ Wt <= Wt'
      /\ Epoch(Wt) \in Nat /\ Epoch(Wt') \in Nat /\ K \in Nat
  BY TailGrows, LayoutTypes, EpochType, StatTypes DEF Base
<1>1. e <= Epoch(Wt) /\ Safe(e)
  BY <1>0 DEF QuotaSound
<1>2. Safe(e)'
  BY <1>1, FreeUnprotected, ProducerSafe
<1>3. Epoch(SpentTail') < e + K
  BY <1>2 DEF Safe
<1>4. SpentTail' \in Nat /\ Wt' <= SpentTail'
  <2>1. Total(quotaLeft') \in Nat
    BY UnitsFinite
  <2>2. QED
    BY <2>1, <1>0 DEF SpentTail
<1>5. Epoch(Wt) <= Epoch(Wt') /\ Epoch(Wt') <= Epoch(SpentTail') /\ Epoch(SpentTail') \in Nat
  BY <1>0, <1>4, EpochMonotone, EpochType
<1>6. InWindow(e)'
  BY <1>0, <1>1, <1>3, <1>5 DEF InWindow
<1>7. InWindow(e)
  BY <1>0, <1>1, <1>3, <1>5 DEF InWindow
<1>8. QED
  BY <1>6, <1>7

(* What a sequence of a protected epoch, or a later one, points to.        *)
LEMMA PlacesKept ==
    ASSUME Base, ViewInv, NEW p \in Producers, ProducerNext(p),
           NEW e \in Nat, Protected(e), NEW s \in Nat, e <= Epoch(s)
    PROVE  /\ At(s) => At(s)' /\ Tnext'[Idx(s)] = Tnext[Idx(s)] /\ Tsq'[Idx(s)] = Tsq[Idx(s)]
                              /\ ProgressKept(Idx(s))
           /\ Boundary(s) => Boundary(s)'
<1>0. /\ TypeInv /\ Layout /\ WritersSound /\ WritersRecent /\ Wt' \in Nat /\ LayoutKept
      /\ Lap \in Nat
  BY TailGrows, Windows, ProducerLayout, LayoutTypes DEF Base
<1>1. Epoch(Wt') < e + K
  BY WindowNext DEF InWindow
<1>2. Wt' < s + Lap
  BY <1>0, <1>1, WithinLap
<1>3. Wt' <= s + Lap
  BY <1>0, <1>2
<1>4. Boundary(s) => Boundary(s)'
  BY <1>0, <1>3 DEF LayoutKept
<1>5. ASSUME At(s)
      PROVE  At(s)' /\ Tnext'[Idx(s)] = Tnext[Idx(s)] /\ Tsq'[Idx(s)] = Tsq[Idx(s)] /\ ProgressKept(Idx(s))
  <2>1. Idx(s) \in Tables /\ Tsent[Idx(s)] = s
    BY <1>5 DEF At
  <2>2. Idx(s) \in Tables' /\ WordsKept(Idx(s)) /\ ProgressKept(Idx(s))
    BY <1>3, <2>1, ProducerTables
  <2>3. QED
    BY <2>1, <2>2 DEF At, WordsKept
<1>6. QED
  BY <1>4, <1>5

LEMMA ConfirmedKept ==
    ASSUME Base, ViewInv, NEW p \in Producers, ProducerNext(p), NEW e \in Nat,
           Protected(e), Initialised(e), Confirmed(e)
    PROVE  Confirmed(e)'
<1>0. TypeInv /\ SlotsSound /\ K \in Nat /\ Epoch(Wt) \in Nat
  BY StatTypes, LayoutTypes, EpochType DEF Base, EpochInv
<1>1. InWindow(e)
  BY WindowNext
<1>2. Initialised(e + 1)
  BY DEF Confirmed, Initialised
<1>3. e + 1 \in Nat /\ e + 1 <= Epoch(Wt)
  BY <1>0, <1>2, BegunBefore
<1>4. InWindow(e + 1)
  BY <1>0, <1>1, <1>3 DEF InWindow
<1>5. /\ Es'[Slot(e)] = e /\ Seqt'[Slot(e)] = Seqt[Slot(e)] /\ Sd'[Slot(e)] = Sd[Slot(e)]
  BY <1>1, EpochsKept DEF Initialised
<1>6. /\ Es'[Slot(e + 1)] = e + 1 /\ Seqt'[Slot(e + 1)] = Seqt[Slot(e + 1)]
  BY <1>2, <1>3, <1>4, EpochsKept DEF Initialised
<1>7. QED
  BY <1>5, <1>6 DEF Confirmed

LEMMA ProducerAttempts ==
    ASSUME Base, ViewInv, NEW p \in Producers, ProducerNext(p), UNCHANGED consumerVars
    PROVE  AttemptsInv'
<1>0. /\ TypeInv /\ Layout /\ QuotaSound /\ SlotsSound /\ InitsSound /\ PendingStale /\ AttemptsInv /\ KeptSound
      /\ Wt \in Nat /\ Wt' \in Nat /\ Wt <= Wt' /\ Epoch(Wt) \in Nat /\ Epoch(Wt') \in Nat
      /\ K \in Nat
  BY TailGrows, LayoutTypes, EpochType, StatTypes DEF Base, EpochInv, ViewInv
<1>1. Epoch(Wt) <= Epoch(Wt')
  BY <1>0, EpochMonotone
<1>2. /\ cpc' = cpc /\ ret' = ret /\ at' = at /\ probe' = probe /\ subs' = subs
      /\ seqtRead' = seqtRead /\ sqRead' = sqRead
      /\ sweepSeq' = sweepSeq /\ oldSweepSeq' = oldSweepSeq
  BY DEF consumerVars, viewVars, attemptVars
<1>3. SUFFICES ASSUME NEW c \in Consumers PROVE AttemptSound(c)'
  BY DEF AttemptsInv
<1>4. /\ at[c] \in Nat /\ probe[c] \in Nat /\ seqtRead[c] \in Nat /\ Slot(at[c]) \in Slots
      /\ Epoch(seqtRead[c]) \in Nat
  BY <1>0, ViewTypes
<1>5. AttemptSound(c)
  BY <1>0 DEF AttemptsInv
<1>6. \A e \in Nat : Worked(e)' => Worked(e) \/ Epoch(Wt) <= e
  BY <1>0, <1>1, WorkedAnew
<1>7. cpc[c] \in Scanning => \A e \in Nat : Worked(e)' => e >= at[c]
  <2>1. SUFFICES ASSUME cpc[c] \in Scanning, NEW e \in Nat, Worked(e)' PROVE e >= at[c]
    OBVIOUS
  <2>2. at[c] <= probe[c] /\ probe[c] <= Epoch(Wt) /\ (Worked(e) => e >= at[c])
    BY <1>5, <2>1 DEF AttemptSound
  <2>3. QED
    BY <1>0, <1>4, <1>6, <2>1, <2>2
<1>8. cpc[c] = "unpinCand" /\ at[c] < probe[c] => \A e \in Nat : Worked(e)' => e > at[c]
  <2>1. SUFFICES ASSUME cpc[c] = "unpinCand", at[c] < probe[c], NEW e \in Nat, Worked(e)' PROVE e > at[c]
    OBVIOUS
  <2>2. probe[c] <= Epoch(Wt) /\ (Worked(e) => e > at[c])
    BY <1>5, <2>1 DEF AttemptSound, Scanning, Candidate
  <2>3. QED
    BY <1>0, <1>4, <1>6, <2>1, <2>2
<1>9. cpc[c] \in {"candRt", "valEs", "valSeqt"} => Es'[Slot(at[c])] >= at[c]
  <2>1. SUFFICES ASSUME cpc[c] \in {"candRt", "valEs", "valSeqt"} PROVE Es'[Slot(at[c])] >= at[c]
    OBVIOUS
  <2>2. Es[Slot(at[c])] >= at[c] /\ Es[Slot(at[c])] \in Int
    BY <1>0, <1>4, <1>5, <2>1, StatTypes DEF AttemptSound
  <2>3. CASE PublishEs(p) /\ Slot(at[c]) = Slot(fresh[p])
    <3>1. ppc[p] \in Crossing /\ Es'[Slot(fresh[p])] = fresh[p]
      BY <1>0, <2>3, PublishEsStep DEF Crossing
    <3>2. Es[Slot(fresh[p])] < fresh[p] /\ fresh[p] \in Nat
      BY <1>0, <3>1, FreshPending
    <3>3. QED
      BY <1>4, <2>2, <2>3, <3>1, <3>2
  <2>4. CASE PublishEs(p) /\ Slot(at[c]) # Slot(fresh[p])
    BY <1>0, <1>4, <2>2, <2>4, PublishEsStep
  <2>5. CASE ~PublishEs(p)
    <3>1. Es' = Es
      BY <2>5 DEF ProducerNext, Write, SweepFree, SweepBlocked, Decline, Reserve,
             CheckFresh, InitStats, RaiseLive, StoreTable, PublishTable, farmVars, statVars
    <3>2. QED
      BY <2>2, <3>1
  <2>6. QED
    BY <2>3, <2>4, <2>5
<1>10. ASSUME cpc[c] \in Validated
       PROVE  /\ Protected(at[c]) /\ InWindow(at[c]) /\ Initialised(at[c])
  <2>1. Kept(at[c])
    BY <1>10 DEF Kept, Claims, Validated
  <2>2. QED
    BY <1>0, <1>4, <2>1, Windows DEF Protected, KeptSound
<1>11. cpc[c] \in Validated =>
          Seqt'[Slot(at[c])] = Seqt[Slot(at[c])] /\ SqCs'[Slot(at[c])] = SqCs[Slot(at[c])]
  BY <1>4, <1>10, EpochsKept
<1>12. cpc[c] = "subLeaf" => Initialised(Epoch(seqtRead[c]))'
  <2>1. SUFFICES ASSUME cpc[c] = "subLeaf" PROVE Initialised(Epoch(seqtRead[c]))'
    OBVIOUS
  <2>2. PICK e \in Nat : e = Epoch(seqtRead[c])
    BY <1>4
  <2>3. /\ Initialised(e) /\ at[c] <= e /\ seqtRead[c] = Seqt[Slot(at[c])]
    BY <1>5, <2>1, <2>2 DEF AttemptSound, Validated
  <2>4. e <= Epoch(Wt)
    BY <1>0, <2>3, BegunBefore
  <2>5. InWindow(e)
    BY <1>0, <1>4, <1>10, <2>1, <2>3, <2>4 DEF InWindow, Validated
  <2>6. Initialised(e)'
    BY <2>3, <2>5, EpochsKept
  <2>7. QED
    BY <1>2, <2>2, <2>6 DEF Initialised
<1>13. Attached(c)' <=> Attached(c)
  BY <1>2 DEF Attached
<1>14. probe[c] <= Epoch(Wt) => probe[c] <= Epoch(Wt')
  BY <1>0, <1>1, <1>4
<1>15. QED
  BY <1>2, <1>5, <1>7, <1>8, <1>9, <1>11, <1>12, <1>13, <1>14 DEF AttemptSound

LEMMA ProducerRanges ==
    ASSUME Base, ViewInv, NEW p \in Producers, ProducerNext(p), UNCHANGED consumerVars
    PROVE  RangesSound'
<1>0. /\ TypeInv /\ Layout /\ QuotaSound /\ RangesSound /\ KeptSound
      /\ Wt \in Nat /\ Wt' \in Nat /\ Wt <= Wt'
  BY TailGrows, LayoutTypes DEF Base, ViewInv
<1>1. SUFFICES ASSUME NEW c \in Consumers PROVE RangeSound(c)'
  BY DEF RangesSound
<1>2. /\ cpc' = cpc /\ ret' = ret /\ at' = at
      /\ oldestEi' = oldestEi /\ newestEi' = newestEi /\ nextSeq' = nextSeq
      /\ nextSeq[c] \in Nat /\ oldestEi[c] \in Nat
  BY <1>0, ViewTypes DEF consumerVars, viewVars
<1>3. RangeSound(c)
  BY <1>0 DEF RangesSound
<1>4. Attached(c)' <=> Attached(c)
  BY <1>2 DEF Attached
<1>5. ASSUME Attached(c), cpc[c] = "clear" PROVE Confirmed(oldestEi[c])'
  <2>1. Confirmed(oldestEi[c]) /\ oldestEi[c] <= newestEi[c]
    BY <1>3, <1>5 DEF RangeSound
  <2>2. Held(c, oldestEi[c])
    BY <1>0, <1>5, <2>1, ViewTypes DEF Held, Holds
  <2>3. Protected(oldestEi[c]) /\ Initialised(oldestEi[c])
    BY <1>0, <1>2, <2>2 DEF Protected, Kept, KeptSound
  <2>4. PICK e \in Nat : e = oldestEi[c]
    BY <1>2
  <2>5. Confirmed(e)'
    BY <2>1, <2>3, <2>4, ConfirmedKept
  <2>6. QED
    BY <1>2, <2>4, <2>5 DEF Confirmed
<1>6. QED
  BY <1>0, <1>2, <1>3, <1>4, <1>5 DEF RangeSound

LEMMA ProducerReadings ==
    ASSUME Base, ViewInv, ReadingsSound, NEW p \in Producers, ProducerNext(p), UNCHANGED consumerVars
    PROVE  ReadingsSound'
<1>0. /\ TypeInv /\ Layout /\ QuotaSound /\ RangesSound /\ ReadingsSound
      /\ WritersSound /\ WritersRecent
      /\ Wt \in Nat /\ Wt' \in Nat /\ Wt <= Wt' /\ Epoch(Wt) \in Nat /\ Epoch(Wt') \in Nat
      /\ K \in Nat
  BY TailGrows, LayoutTypes, EpochType, StatTypes, Windows DEF Base, ViewInv
<1>1. Epoch(Wt) <= Epoch(Wt')
  BY <1>0, EpochMonotone
<1>2. /\ cpc' = cpc /\ ret' = ret /\ at' = at
      /\ oldestEi' = oldestEi /\ newestEi' = newestEi /\ nextSeq' = nextSeq
      /\ sweepSeq' = sweepSeq /\ oldSweepSeq' = oldSweepSeq
  BY DEF consumerVars, viewVars
<1>3. SUFFICES ASSUME NEW c \in Consumers, Reading(c) PROVE ReadingSound(c)'
  BY <1>2 DEF ReadingsSound, ReadingSound, Reading, Attached
<1>4. /\ Protected(oldestEi[c]) /\ InWindow(oldestEi[c])
      /\ oldestEi[c] \in Nat /\ newestEi[c] \in Nat /\ oldestEi[c] <= newestEi[c]
      /\ newestEi[c] <= Epoch(nextSeq[c]) /\ nextSeq[c] <= Wt
      /\ Epoch(nextSeq[c]) <= Epoch(Wt) /\ nextSeq[c] \in Nat /\ Epoch(nextSeq[c]) \in Nat
      /\ sweepSeq[c] \in Nat /\ oldSweepSeq[c] \in Nat
  BY <1>0, <1>3, ReadingHolds, ViewTypes
<1>5. ReadingSound(c)
  BY <1>0 DEF ReadingsSound
<1>6. ASSUME NEW e \in Nat, newestEi[c] < e, e <= Epoch(nextSeq[c]) PROVE Initialised(e)'
  <2>1. Initialised(e)
    BY <1>3, <1>5, <1>6 DEF ReadingSound
  <2>2. InWindow(e)
    BY <1>0, <1>4, <1>6 DEF InWindow
  <2>3. QED
    BY <2>1, <2>2, EpochsKept
<1>7. ASSUME NEW q \in Producers, Writing(q)', Epoch(wret'[q]) >= oldestEi[c]
      PROVE  wret'[q] >= nextSeq[c]
  <2>1. \/ Writing(q) /\ wret'[q] = wret[q]
        \/ wret'[q] = Wt
    BY <1>0, <1>7, ProducerLayout DEF LayoutKept
  <2>2. QED
    BY <1>3, <1>4, <1>5, <1>7, <2>1 DEF ReadingSound
<1>8. ASSUME NEW i \in Tables', Tsent'[i] < nextSeq[c] PROVE Epoch(Tsent'[i]) <= newestEi[c]
  <2>1. CASE i \in Tables /\ WordsKept(i)
    BY <1>3, <1>5, <1>8, <2>1 DEF ReadingSound, WordsKept
  <2>2. CASE Writing(p) /\ Tsent'[i] = wret[p]
    <3>1. wret[p] \in Nat /\ Epoch(wret[p]) \in Nat
      BY <1>0, LayoutTypes, EpochType
    <3>2. ~(Epoch(wret[p]) >= oldestEi[c])
      BY <1>3, <1>4, <1>5, <1>8, <2>2, <3>1 DEF ReadingSound
    <3>3. QED
      BY <1>4, <2>2, <3>1, <3>2
  <2>3. QED
    BY <1>8, <2>1, <2>2, ProducerTables
<1>9. \A e \in Nat : Worked(e)' => Worked(e) \/ Epoch(Wt) <= e
  BY <1>0, <1>1, WorkedAnew
<1>10. \A e \in Nat : Worked(e)' => e >= oldestEi[c]
  BY <1>0, <1>3, <1>4, <1>5, <1>9 DEF ReadingSound
<1>11. At(nextSeq[c]) => At(nextSeq[c])'
  <2>1. oldestEi[c] <= Epoch(nextSeq[c])
    BY <1>4
  <2>2. PICK s \in Nat : s = nextSeq[c]
    BY <1>4
  <2>3. At(s) => At(s)'
    BY <1>4, <2>1, <2>2, PlacesKept
  <2>4. QED
    BY <1>2, <2>2, <2>3 DEF At
<1>12. sweepSeq[c] = 0 \/ (Boundary(sweepSeq[c])' /\ Epoch(sweepSeq[c]) >= newestEi[c])
  <2>1. SUFFICES ASSUME sweepSeq[c] # 0
                 PROVE  Boundary(sweepSeq[c])' /\ Epoch(sweepSeq[c]) >= newestEi[c]
    OBVIOUS
  <2>2. PICK s \in Nat : s = sweepSeq[c]
    BY <1>4
  <2>3. Boundary(s) /\ Epoch(s) >= newestEi[c] /\ Epoch(s) \in Nat
    BY <1>3, <1>5, <2>1, <2>2, EpochType DEF ReadingSound
  <2>4. Boundary(s)'
    BY <1>4, <2>3, PlacesKept
  <2>5. QED
    BY <1>2, <2>2, <2>3, <2>4 DEF Boundary, At
<1>13. oldSweepSeq[c] = 0 \/ (Boundary(oldSweepSeq[c])' /\ Epoch(oldSweepSeq[c]) >= oldestEi[c])
  <2>1. SUFFICES ASSUME oldSweepSeq[c] # 0
                 PROVE  Boundary(oldSweepSeq[c])' /\ Epoch(oldSweepSeq[c]) >= oldestEi[c]
    OBVIOUS
  <2>2. PICK s \in Nat : s = oldSweepSeq[c]
    BY <1>4
  <2>3. Boundary(s) /\ Epoch(s) >= oldestEi[c] /\ Epoch(s) \in Nat
    BY <1>3, <1>5, <2>1, <2>2, EpochType DEF ReadingSound
  <2>4. Boundary(s)'
    BY <1>4, <2>3, PlacesKept
  <2>5. QED
    BY <1>2, <2>2, <2>3, <2>4 DEF Boundary, At
<1>14. ASSUME cpc[c] \in {"clear", "decLeaf", "decRoot"}
       PROVE  Behind(c) /\ \A e \in Nat : Worked(e)' => e > oldestEi[c]
  <2>1. Behind(c) /\ \A e \in Nat : Worked(e) => e > oldestEi[c]
    BY <1>3, <1>5, <1>14 DEF ReadingSound
  <2>2. Epoch(Wt) > oldestEi[c]
    BY <1>0, <1>4, <2>1 DEF Behind
  <2>3. QED
    BY <1>0, <1>4, <1>9, <2>1, <2>2
<1>15. Reading(c) /\ (Behind(c)' <=> Behind(c))
  BY <1>2, <1>3 DEF Behind
<1>16. Reading(c)'
  BY <1>2, <1>3 DEF Reading, Attached
<1>17. At(nextSeq[c])' <=> At(nextSeq[c])'
  OBVIOUS
<1>18. /\ \A e \in Nat : newestEi'[c] < e /\ e <= Epoch(nextSeq'[c]) => Initialised(e)'
       /\ \A q \in Producers : Writing(q)' /\ Epoch(wret'[q]) >= oldestEi'[c] => wret'[q] >= nextSeq'[c]
       /\ \A i \in Tables' : Tsent'[i] < nextSeq'[c] => Epoch(Tsent'[i]) <= newestEi'[c]
       /\ \A e \in Nat : Worked(e)' => e >= oldestEi'[c]
  BY <1>2, <1>6, <1>7, <1>8, <1>10
<1>19. /\ cpc'[c] = "work" => At(nextSeq[c])' /\ Epoch(nextSeq'[c]) = newestEi'[c]
       /\ cpc'[c] \in Moving /\ ret'[c] = "work" => At(nextSeq[c])'
       /\ cpc'[c] = "sweepOldest" => Behind(c)'
  BY <1>2, <1>3, <1>5, <1>11, <1>15 DEF ReadingSound
<1>20. /\ sweepSeq'[c] = 0 \/ (Boundary(sweepSeq[c])' /\ Epoch(sweepSeq'[c]) >= newestEi'[c])
       /\ oldSweepSeq'[c] = 0 \/ (Boundary(oldSweepSeq[c])' /\ Epoch(oldSweepSeq'[c]) >= oldestEi'[c])
       /\ cpc'[c] \in {"clear", "decLeaf", "decRoot"} =>
             Behind(c)' /\ \A e \in Nat : Worked(e)' => e > oldestEi'[c]
  BY <1>2, <1>12, <1>13, <1>14, <1>15
<1>21. QED
  BY <1>18, <1>19, <1>20 DEF ReadingSound

(* A view in the middle of a table reads.                                  *)
LEMMA ClaimingReads ==
    ASSUME TypeInv, NEW c \in Consumers, cpc[c] \in ClaimPhases \cup {"walk"}
    PROVE  Reading(c)
  BY DEF TypeInv, LeavingSound, LeavingPhases, Reading, Attached, ClaimPhases, SubscribePhases

LEMMA ProducerWalks ==
    ASSUME Base, ViewInv, WalksSound, NEW p \in Producers, ProducerNext(p), UNCHANGED consumerVars
    PROVE  WalksSound'
<1>0. /\ TypeInv /\ Layout /\ QuotaSound /\ RangesSound
  BY DEF Base, ViewInv
<1>1. /\ cpc' = cpc /\ ret' = ret /\ at' = at /\ job' = job /\ tseq' = tseq
      /\ oldestEi' = oldestEi /\ newestEi' = newestEi /\ nextSeq' = nextSeq
  BY DEF consumerVars, viewVars, claimVars
<1>2. SUFFICES ASSUME NEW c \in Consumers, cpc[c] \in ClaimPhases \cup {"walk"} PROVE WalkSound(c)'
  BY <1>1 DEF WalksSound, WalkSound
<1>3. /\ Protected(oldestEi[c]) /\ oldestEi[c] \in Nat /\ newestEi[c] \in Nat
      /\ oldestEi[c] <= newestEi[c] /\ tseq[c] \in Nat /\ Epoch(tseq[c]) \in Nat
  BY <1>0, <1>2, ClaimingReads, ReadingHolds, ViewTypes
<1>4. WalkSound(c)
  BY DEF WalksSound
<1>5. PICK s \in Nat : s = tseq[c]
  BY <1>3
<1>6. oldestEi[c] <= Epoch(s)
  BY <1>2, <1>3, <1>4, <1>5 DEF WalkSound
<1>7. (At(s) => At(s)') /\ (Boundary(s) => Boundary(s)')
  BY <1>3, <1>6, PlacesKept
<1>8. cpc[c] \in ClaimPhases => At(tseq[c])'
  BY <1>1, <1>4, <1>5, <1>7 DEF WalkSound, At
<1>9. cpc[c] = "walk" => Boundary(tseq[c])'
  BY <1>1, <1>4, <1>5, <1>7 DEF WalkSound, Boundary, At
<1>10. QED
  BY <1>1, <1>4, <1>8, <1>9 DEF WalkSound, Behind

LEMMA ProducerTallies ==
    ASSUME Base, ViewInv, NEW p \in Producers, ProducerNext(p), UNCHANGED consumerVars
    PROVE  TallyInv'
<1>1. UNCHANGED <<Sub, Count, Lt>>
  BY ProducerFrame DEF Base
<1>2. UNCHANGED <<cpc, at, subs, ltiRing, oldestEi, newestEi>>
  BY DEF consumerVars, viewVars, attemptVars
<1>3. \A c, e : Holds(c, e)' <=> Holds(c, e)
  BY <1>2 DEF Holds, Attached
<1>4. \A k, l : Holders(k, l)' = Holders(k, l)
  BY <1>2, <1>3 DEF Holders
<1>5. \A k : /\ Raisers(k)' = Raisers(k) /\ Lowerers(k)' = Lowerers(k)
             /\ Touched(k)' = Touched(k) /\ Pinners(k)' = Pinners(k)
  BY <1>1, <1>2 DEF Raisers, RaisingRoot, Lowerers, LoweringRoot, Touched, Pinners
<1>6. TallyInv
  BY DEF ViewInv
<1>7. LeavesAgree'
  BY <1>1, <1>4, <1>6 DEF TallyInv, LeavesAgree
<1>8. RootsAgree' /\ SubsAgree'
  BY <1>1, <1>5, <1>6 DEF TallyInv, RootsAgree, SubsAgree
<1>9. RaisersApart'
  BY <1>2, <1>6 DEF TallyInv, RaisersApart, RaisingRoot
<1>10. QED
  BY <1>7, <1>8, <1>9 DEF TallyInv

LEMMA ProducerViews ==
    ASSUME Base, ViewInv, NEW p \in Producers, ProducerNext(p), UNCHANGED consumerVars
    PROVE  ViewInv'
  BY ProducerKept, ProducerAttempts, ProducerRanges, ProducerTallies DEF ViewInv

-----------------------------------------------------------------------------
(* Work in a producer's step, and the whole invariant.                     *)

(* Nobody works on a table that its writer is just publishing.             *)
LEMMA ProducerRuns ==
    ASSUME Base, WalksSound, RunsSound, NEW p \in Producers, ProducerNext(p), UNCHANGED consumerVars
    PROVE  RunsSound'
<1>1. cpc' = cpc /\ tseq' = tseq
  BY DEF consumerVars, claimVars
<1>2. SUFFICES ASSUME NEW i \in Tables' PROVE RunSound(i)'
  BY DEF RunsSound
<1>3. CASE i \in Tables /\ WordsKept(i) /\ ProgressKept(i)
  <2>1. \A c, f : OnTable(c, i, f)' <=> OnTable(c, i, f)
    BY <1>1, <1>3 DEF OnTable, WordsKept
  <2>2. {c \in Consumers : OnTable(c, i, "complete")'} = {c \in Consumers : OnTable(c, i, "complete")}
    BY <2>1
  <2>3. RunSound(i) /\ Tclaims'[i] = Tclaims[i] /\ Tcomps'[i] = Tcomps[i] /\ Tprogress'[i] = Tprogress[i]
    BY <1>3 DEF RunsSound, ProgressKept
  <2>4. QED
    BY <2>1, <2>2, <2>3 DEF RunSound
<1>4. CASE /\ i = Idx(wret[p]) /\ i \notin Tables /\ Tsent'[i] = wret[p]
           /\ Tclaims'[i] = 0 /\ Tcomps'[i] = 0 /\ ~Tprogress'[i]
  <2>1. \A c \in Consumers : \A f \in ClaimPhases : ~OnTable(c, i, f)'
    BY <1>1, <1>4 DEF OnTable, WalksSound, WalkSound, At
  <2>2. \A c \in Consumers : ~OnTable(c, i, "complete")' /\ ~OnTable(c, i, "progress")' /\ ~OnTable(c, i, "account")'
    BY <2>1 DEF ClaimPhases
  <2>3. {c \in Consumers : OnTable(c, i, "complete")'} = {}
    BY <2>2
  <2>4. Cardinality({c \in Consumers : OnTable(c, i, "complete")'}) = 0
    BY <2>3, FS_EmptySet
  <2>5. Runs \in Nat /\ Runs > 0
    BY ConsumerAssumption
  <2>6. QED
    BY <1>4, <2>2, <2>4, <2>5 DEF RunSound
<1>5. QED
  BY <1>2, <1>3, <1>4, ProducerTables

LEMMA ProducerDischarges ==
    ASSUME Base, SdSound, NEW p \in Producers, ProducerNext(p), UNCHANGED consumerVars
    PROVE  SdSound'
<1>0. /\ TypeInv /\ Layout /\ InitsSound /\ SlotsSound /\ QuotaSound /\ PendingStale /\ DoneBegun
      /\ Wt \in Nat /\ Wt' \in Nat /\ Wt <= Wt' /\ Lap \in Nat
  BY TailGrows, LayoutTypes DEF Base, EpochInv
<1>1. cpc' = cpc /\ tseq' = tseq
  BY DEF consumerVars, claimVars
<1>2. SUFFICES ASSUME NEW e \in Nat, InWindow(e)', Initialised(e)'
               PROVE  Sd'[Slot(e)] = Cardinality(Accounted(e)')
  BY DEF SdSound
<1>3. \A i \in Tables' : Tprogress'[i] => i \in Tables /\ WordsKept(i) /\ ProgressKept(i)
  BY ProducerTables
<1>4. CASE Initialised(e)
  <2>1. InWindow(e)
    BY <1>0, <1>2, <1>4, BegunBefore, WindowShrinks
  <2>2. Sd'[Slot(e)] = Sd[Slot(e)]
    BY <1>4, <2>1, EpochsKept
  <2>3. ASSUME NEW i \in Tables, Epoch(Tsent[i]) = e
        PROVE  i \in Tables' /\ WordsKept(i) /\ ProgressKept(i)
    <3>1. i \in Indices /\ Tsent[i] # NoSeq
      BY DEF Tables
    <3>2. Tsent[i] \in Nat
      BY <1>0, <3>1 DEF Layout, SentinelsSound, SentinelSound
    <3>3. Epoch(Wt') < e + K
      BY <1>2 DEF InWindow
    <3>4. Wt' < Tsent[i] + Lap
      BY <1>0, <2>3, <3>2, <3>3, WithinLap
    <3>5. Wt' <= Tsent[i] + Lap
      BY <1>0, <3>2, <3>4
    <3>6. QED
      BY <3>5, ProducerTables
  <2>4. Accounted(e)' = Accounted(e)
    BY <1>1, <1>3, <2>3 DEF Accounted, WordsKept, ProgressKept
  <2>5. Sd[Slot(e)] = Cardinality(Accounted(e))
    BY <1>4, <2>1 DEF SdSound
  <2>6. QED
    BY <2>2, <2>4, <2>5
<1>5. CASE ~Initialised(e)
  <2>1. PublishEs(p) /\ e = fresh[p]
    BY <1>2, <1>5, InitialisedAnew
  <2>2. ppc[p] = "es" /\ Wt' = Wt /\ Sd' = Sd
    BY <1>0, <2>1, PublishEsStep DEF tailVars
  <2>3. Sd[Slot(e)] = 0
    BY <1>0, <2>1, <2>2 DEF InitsSound
  <2>4. InWindow(e)
    BY <1>2, <2>2 DEF InWindow
  <2>5. ASSUME NEW i \in Tables', Tprogress'[i], Epoch(Tsent'[i]) = e PROVE FALSE
    <3>1. i \in Tables /\ Tprogress[i] /\ Epoch(Tsent[i]) = e
      BY <1>3, <2>5 DEF WordsKept, ProgressKept
    <3>2. QED
      BY <1>0, <1>5, <2>4, <3>1 DEF DoneBegun
  <2>6. Accounted(e)' = {}
    BY <2>5 DEF Accounted
  <2>7. Cardinality(Accounted(e)') = 0
    BY <2>6, FS_EmptySet
  <2>8. QED
    BY <2>2, <2>3, <2>7
<1>6. QED
  BY <1>4, <1>5

LEMMA ProducerWork ==
    ASSUME Base, WalksSound, WorkInv, NEW p \in Producers, ProducerNext(p), UNCHANGED consumerVars
    PROVE  WorkInv'
  BY ProducerRuns, ProducerDischarges DEF WorkInv

(* A producer's step preserves the invariant.                              *)
LEMMA ProducerInv ==
    ASSUME Inv, TypeInv', NEW p \in Producers, ProducerNext(p), UNCHANGED consumerVars
    PROVE  Inv'
<1>1. Base /\ ViewInv /\ ReadingsSound /\ WalksSound /\ WorkInv
  BY DEF Inv
<1>2. TypeInv /\ Layout /\ WritersSound /\ WritersRecent
  BY <1>1, Windows DEF Base
<1>3. Base'
  BY <1>1, <1>2, ProducerLayout, ProducerWriters, ProducerQuota, ProducerEpochs DEF Base
<1>4. QED
  BY <1>1, <1>3, ProducerViews, ProducerReadings, ProducerWalks, ProducerWork DEF Inv
=============================================================================
