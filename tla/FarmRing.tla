------------------------------ MODULE FarmRing ------------------------------
(***************************************************************************)
(* The shared memory of one Farm: the write tail, the per-segment root and *)
(* leaf tallies, the per-segment statistics, and the table headers that    *)
(* lie in the ring (struct AntFarm, struct SegStats).  It holds no action: *)
(* FarmProducer and FarmConsumer act on it, AntFarm composes them.         *)
(*                                                                         *)
(* Sequences count abstract ring units instead of 8-byte words; SegCap and *)
(* K are the code's segCap and K scaled down.  Everything is sequentially  *)
(* consistent: one action is one access to shared memory, in the order of  *)
(* the code.                                                               *)
(***************************************************************************)
EXTENDS Integers, FiniteSets

CONSTANTS
    K,             (* segments of the ring, a power of two                  *)
    SegCap,        (* units in a segment, a power of two                    *)
    Producers,     (* registered producer tickets                           *)
    Quota,         (* Quota[p]: quota of the tier of ticket p               *)
    Consumers,     (* ConsumerViews that subscribe and leave                *)
    MaxConsumers,  (* MAX_CONSUMERS_LIMIT                                   *)
    MaxLeaves,     (* MAX_LEAVES                                            *)
    SqcsOf,        (* SqcsOf[cs]: shards and leaves for cs consumers        *)
    Runs,          (* claimable runs of a table, its shiter                 *)
    MaxSeq         (* bound on the write tail: the model stops writing there *)

Lap     == K * SegCap
Slots   == 0 .. K - 1
Leaves  == 0 .. MaxLeaves - 1
Indices == 0 .. Lap - 1
NoSeq   == -1

(* One unit per quota word of each ticket: sums of quotas are cardinalities. *)
Units(q) == {u \in Producers \X (1 .. Lap) : u[2] <= q[u[1]]}
Total(q) == Cardinality(Units(q))

(* Exmax: the sum of the quotas of every ticket of both tiers.             *)
Exmax == Total(Quota)

ASSUME GeometryAssumption ==
    /\ K \in Nat /\ K >= 2
    /\ SegCap \in Nat \ {0}
    /\ MaxSeq \in Nat

ASSUME QuotaAssumption ==
    /\ IsFiniteSet(Producers)
    /\ Quota \in [Producers -> 1 .. Lap]
    /\ Exmax <= (K - 1) * SegCap

ASSUME ConsumerAssumption ==
    /\ IsFiniteSet(Consumers)
    /\ Consumers \cap Producers = {}
    /\ MaxConsumers \in Nat \ {0}
    /\ MaxLeaves \in Nat \ {0}
    /\ Runs \in Nat \ {0}
    /\ \A cs \in 1 .. MaxConsumers + Cardinality(Consumers) :
          SqcsOf[cs] \in 1 .. MaxLeaves

Slot(e)  == e % K
Epoch(s) == s \div SegCap
Idx(s)   == s % Lap
Larger(a, b) == IF a >= b THEN a ELSE b

VARIABLES
    Wt,        (* write tail                                                *)
    Cf,        (* subscribed consumers, counting attempts in progress       *)
    Reqs_c,    (* subscription counter; see IdMod in FarmConsumer           *)
    Live,      (* Live[k]: the LIVE bit of Rt[k]                            *)
    Sub,       (* Sub[k]: provisional subscriber pins, the high half of Rt  *)
    Count,     (* Count[k]: leaves of segment k that are not zero           *)
    Lt,        (* Lt[k][l]: consumers that hold segment k through leaf l    *)
    Es, Seqt, SqCs, Sd,   (* SegStats of each segment                       *)
    Tsent,     (* Tsent[i]: the sequence whose sentinel is in unit i        *)
    Tnext,     (* Tnext[i]: where the table at unit i ends                  *)
    Tsq,       (* its shard count, the one its writer saw                   *)
    Tclaims,   (* its runs claimed so far, counted up to Runs               *)
    Tcomps,    (* its runs whose callbacks returned                         *)
    Tprogress  (* Tprogress has reached Tlen: the table is complete         *)

tailVars  == <<Wt, Cf, Reqs_c>>
rootVars  == <<Live, Sub, Count, Lt>>
statVars  == <<Es, Seqt, SqCs, Sd>>
ringVars  == <<Tsent, Tnext, Tsq, Tclaims, Tcomps, Tprogress>>
farmVars  == <<tailVars, rootVars, statVars, ringVars>>

(* The low half of Rt[k] is zero: no root and no Live.                     *)
Unprotected(k) == ~Live[k] /\ Count[k] = 0

(* Variants of Free: a sweep that overlooks Live, or provisional pins.     *)
FreeOfRoots(k) == Count[k] = 0 /\ Sub[k] = 0
FreeBelowSub(k) == Unprotected(k)

(* All of Rt[k] is zero, the condition a sweep looks for.                  *)
Free(k) == Unprotected(k) /\ Sub[k] = 0

(* The sentinel at s is the one of table s.                                *)
Published(s) == Tsent[Idx(s)] = s

(* Variant of Confirmed: what the segment still owes is not counted.       *)
ConfirmedBySuccessor(e) == Es[Slot(e)] = e /\ Es[Slot(e + 1)] = e + 1

(* Confirmation of epoch e.  Its caller holds e, so while Es[Slot(e)] = e  *)
(* nothing it reads can be reset; the loads are one step because the two   *)
(* Es and the next Seqt only ever move to the confirmed values, and Sd     *)
(* only grows.                                                             *)
Confirmed(e) ==
    LET k  == Slot(e)
        k1 == Slot(e + 1)
    IN  /\ Es[k] = e
        /\ Es[k1] = e + 1
        /\ Seqt[k] + Sd[k] >= Seqt[k1]

(* Epoch 0 starts initialised and Live; the other segments were never used. *)
FarmInit ==
    /\ Wt = 0 /\ Cf = 0 /\ Reqs_c = 0
    /\ Live = [k \in Slots |-> k = 0]
    /\ Sub = [k \in Slots |-> 0]
    /\ Count = [k \in Slots |-> 0]
    /\ Lt = [k \in Slots |-> [l \in Leaves |-> 0]]
    /\ Es = [k \in Slots |-> IF k = 0 THEN 0 ELSE -1]
    /\ Seqt = [k \in Slots |-> 0]
    /\ SqCs = [k \in Slots |-> IF k = 0 THEN SqcsOf[1] ELSE 0]
    /\ Sd = [k \in Slots |-> 0]
    /\ Tsent = [i \in Indices |-> NoSeq]
    /\ Tnext = [i \in Indices |-> 0]
    /\ Tsq = [i \in Indices |-> 0]
    /\ Tclaims = [i \in Indices |-> 0]
    /\ Tcomps = [i \in Indices |-> 0]
    /\ Tprogress = [i \in Indices |-> FALSE]

TailTypeOK == Wt \in Nat /\ Cf \in Nat /\ Reqs_c \in Nat
RootTypeOK ==
    /\ Live \in [Slots -> BOOLEAN]
    /\ Sub \in [Slots -> Int]
    /\ Count \in [Slots -> Int]
    /\ Lt \in [Slots -> [Leaves -> Int]]
StatTypeOK ==
    /\ Es \in [Slots -> Int]
    /\ Seqt \in [Slots -> Nat]
    /\ SqCs \in [Slots -> 0 .. MaxLeaves]
    /\ Sd \in [Slots -> Int]
RingTypeOK ==
    /\ Tsent \in [Indices -> Int]
    /\ Tnext \in [Indices -> Nat]
    /\ Tsq \in [Indices -> 0 .. MaxLeaves]
    /\ Tclaims \in [Indices -> Nat]
    /\ Tcomps \in [Indices -> Nat]
    /\ Tprogress \in [Indices -> BOOLEAN]
FarmTypeOK == TailTypeOK /\ RootTypeOK /\ StatTypeOK /\ RingTypeOK
=============================================================================
