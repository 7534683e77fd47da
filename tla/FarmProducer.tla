---------------------------- MODULE FarmProducer ----------------------------
(***************************************************************************)
(* One producer ticket writing tables: write, refreshQuota and             *)
(* checkFreshWriteSegments.  A table may cross several segments; the       *)
(* producer that crosses into an epoch initialises it.                     *)
(*                                                                         *)
(* A fatal() of the code is a guard here: the step it protects is not      *)
(* enabled, and the tripwire invariants of AntFarm say it always is.       *)
(***************************************************************************)
EXTENDS FarmRing

VARIABLES
    ppc,        (* what the ticket's writer does next                       *)
    quotaLeft,  (* Token.quotaLeft                                          *)
    size,       (* units of the table being written                         *)
    sq,         (* shards read at the start of the write                    *)
    anchor,     (* the tail this sweep is anchored at                       *)
    swept,      (* slots found free behind the anchor                       *)
    wret,       (* the reservation                                          *)
    fresh       (* epoch the crossing loops are at                          *)

producerVars == <<ppc, quotaLeft, size, sq, anchor, swept, wret, fresh>>

PPhases == {"idle", "sweep", "reserve", "check", "stats", "raise",
            "es", "table", "sentinel"}

wtprime(p) == wret[p] + size[p]

ProducerInit ==
    /\ ppc = [p \in Producers |-> "idle"]
    /\ quotaLeft = [p \in Producers |-> 0]
    /\ size = [p \in Producers |-> 0]
    /\ sq = [p \in Producers |-> 0]
    /\ anchor = [p \in Producers |-> 0]
    /\ swept = [p \in Producers |-> 0]
    /\ wret = [p \in Producers |-> 0]
    /\ fresh = [p \in Producers |-> 0]

ProducerTypeOK ==
    /\ ppc \in [Producers -> PPhases]
    /\ quotaLeft \in [Producers -> 0 .. Lap]
    /\ size \in [Producers -> 0 .. Lap]
    /\ sq \in [Producers -> 0 .. MaxLeaves]
    /\ anchor \in [Producers -> Nat]
    /\ swept \in [Producers -> 0 .. K - 1]
    /\ wret \in [Producers -> Nat]
    /\ fresh \in [Producers -> Nat]

Become(p, phase) == ppc' = [ppc EXCEPT ![p] = phase]

(* The call returns; the registers of a finished write are forgotten.      *)
Return(p) ==
    /\ Become(p, "idle")
    /\ size' = [size EXCEPT ![p] = 0]
    /\ sq' = [sq EXCEPT ![p] = 0]
    /\ anchor' = [anchor EXCEPT ![p] = 0]
    /\ swept' = [swept EXCEPT ![p] = 0]
    /\ wret' = [wret EXCEPT ![p] = 0]
    /\ fresh' = [fresh EXCEPT ![p] = 0]

(* Variant of Fits: an off-by-one in the sizing.                           *)
FitsLoosely(p, n) == n <= quotaLeft[p] + 1

(* The accepted table can be paid for with the quota that is left.         *)
Fits(p, n) == n <= quotaLeft[p]

(* write: size the accepted prefix with the shard count of this moment.  A *)
(* table of n units is reserved out of the quota that is left, or, when    *)
(* not even one payload fits, after a sweep anchored at the tail.          *)
Write(p) ==
    /\ ppc[p] = "idle"
    /\ \E n \in 1 .. Quota[p] :
        /\ size' = [size EXCEPT ![p] = n]
        /\ sq' = [sq EXCEPT ![p] = SqcsOf[Larger(Cf, 1)]]
        /\ IF Fits(p, n)
           THEN Become(p, "reserve") /\ UNCHANGED anchor
           ELSE Become(p, "sweep") /\ anchor' = [anchor EXCEPT ![p] = Wt]
    /\ UNCHANGED <<farmVars, quotaLeft, swept, wret, fresh>>

(* Variant of Enough: the first free segment grants.                       *)
EnoughAtOnce(n) == n >= 1

(* n free segments in a row cover an excursion of every quota.             *)
Enough(n) == n * SegCap >= Exmax

(* One load of refreshQuota's loop.  Enough free segments in a row behind  *)
(* the anchor grant the whole quota, replacing what was left.              *)
SweepFree(p) ==
    /\ ppc[p] = "sweep"
    /\ Free(Slot(Epoch(anchor[p]) + swept[p] + 1))
    /\ IF Enough(swept[p] + 1)
       THEN /\ quotaLeft' = [quotaLeft EXCEPT ![p] = Quota[p]]
            /\ swept' = [swept EXCEPT ![p] = 0]
            /\ anchor' = [anchor EXCEPT ![p] = 0]
            /\ Become(p, "reserve")
       ELSE /\ swept' = [swept EXCEPT ![p] = @ + 1]
            /\ UNCHANGED <<quotaLeft, anchor, ppc>>
    /\ UNCHANGED <<farmVars, size, sq, wret, fresh>>

(* A segment in use ends the sweep: write returns 0, backpressure.         *)
SweepBlocked(p) ==
    /\ ppc[p] = "sweep"
    /\ ~Free(Slot(Epoch(anchor[p]) + swept[p] + 1))
    /\ Return(p)
    /\ UNCHANGED <<farmVars, quotaLeft>>

(* prepareTableFrontN refuses: write returns 0 and keeps the grant.        *)
Decline(p) ==
    /\ ppc[p] = "reserve"
    /\ Return(p)
    /\ UNCHANGED <<farmVars, quotaLeft>>

(* The fetch-add of Wt.  The token is charged in the same step: only the   *)
(* writer reads it before the write ends.                                  *)
Reserve(p) ==
    /\ ppc[p] = "reserve"
    /\ Wt + size[p] <= MaxSeq
    /\ Wt' = Wt + size[p]
    /\ wret' = [wret EXCEPT ![p] = Wt]
    /\ quotaLeft' = [quotaLeft EXCEPT ![p] = @ - size[p]]
    /\ fresh' = [fresh EXCEPT ![p] = Epoch(Wt) + 1]
    /\ Become(p, IF Epoch(Wt) # Epoch(Wt + size[p]) THEN "check" ELSE "table")
    /\ UNCHANGED <<Cf, Reqs_c, rootVars, statVars, ringVars, size, sq, anchor, swept>>

(* checkFreshWriteSegments: fatal if a crossed segment still has a root or *)
(* is still Live.                                                          *)
CheckFresh(p) ==
    /\ ppc[p] = "check"
    /\ Unprotected(Slot(fresh[p]))
    /\ IF fresh[p] < Epoch(wtprime(p))
       THEN fresh' = [fresh EXCEPT ![p] = @ + 1] /\ UNCHANGED ppc
       ELSE fresh' = [fresh EXCEPT ![p] = Epoch(wret[p]) + 1] /\ Become(p, "stats")
    /\ UNCHANGED <<farmVars, quotaLeft, size, sq, anchor, swept, wret>>

(* Seqt, SqCs and Sd of the epoch being initialised.                       *)
InitStats(p) ==
    /\ ppc[p] = "stats"
    /\ LET k == Slot(fresh[p]) IN
        /\ Seqt' = [Seqt EXCEPT ![k] = wtprime(p)]
        /\ SqCs' = [SqCs EXCEPT ![k] = sq[p]]
        /\ Sd' = [Sd EXCEPT ![k] = 0]
    /\ Become(p, "raise")
    /\ UNCHANGED <<tailVars, rootVars, Es, ringVars, quotaLeft, size, sq,
                   anchor, swept, wret, fresh>>

(* The fetch-add of LIVE; fatal if the low half was not zero.              *)
RaiseLive(p) ==
    /\ ppc[p] = "raise"
    /\ Unprotected(Slot(fresh[p]))
    /\ Live' = [Live EXCEPT ![Slot(fresh[p])] = TRUE]
    /\ Become(p, "es")
    /\ UNCHANGED <<tailVars, Sub, Count, Lt, statVars, ringVars, quotaLeft,
                   size, sq, anchor, swept, wret, fresh>>

(* The release-store of Es; on to the next crossed epoch or to the table.  *)
PublishEs(p) ==
    /\ ppc[p] = "es"
    /\ Es' = [Es EXCEPT ![Slot(fresh[p])] = fresh[p]]
    /\ IF fresh[p] < Epoch(wtprime(p))
       THEN fresh' = [fresh EXCEPT ![p] = @ + 1] /\ Become(p, "stats")
       ELSE UNCHANGED fresh /\ Become(p, "table")
    /\ UNCHANGED <<tailVars, rootVars, Seqt, SqCs, Sd, ringVars, quotaLeft,
                   size, sq, anchor, swept, wret>>

(* The units a table of n units at s occupies besides its first.           *)
Body(s, n) == {Idx(s + i) : i \in 1 .. n - 1}

(* The table's words, all but the sentinel, over whatever the last lap     *)
(* left there.                                                             *)
StoreTable(p) ==
    /\ ppc[p] = "table"
    /\ LET i == Idx(wret[p])
           body == Body(wret[p], size[p])
       IN  /\ Tsent' = [j \in Indices |-> IF j \in body THEN NoSeq ELSE Tsent[j]]
           /\ Tnext' = [j \in Indices |->
                 IF j = i THEN wtprime(p) ELSE IF j \in body THEN 0 ELSE Tnext[j]]
           /\ Tsq' = [j \in Indices |->
                 IF j = i THEN sq[p] ELSE IF j \in body THEN 0 ELSE Tsq[j]]
           /\ Tclaims' = [j \in Indices |-> IF j \in body \cup {i} THEN 0 ELSE Tclaims[j]]
           /\ Tcomps' = [j \in Indices |-> IF j \in body \cup {i} THEN 0 ELSE Tcomps[j]]
           /\ Tprogress' = [j \in Indices |-> IF j \in body \cup {i} THEN FALSE ELSE Tprogress[j]]
    /\ Become(p, "sentinel")
    /\ UNCHANGED <<tailVars, rootVars, statVars, quotaLeft, size, sq, anchor,
                   swept, wret, fresh>>

(* The release-store of the sentinel publishes the table.                  *)
PublishTable(p) ==
    /\ ppc[p] = "sentinel"
    /\ Tsent' = [Tsent EXCEPT ![Idx(wret[p])] = wret[p]]
    /\ Return(p)
    /\ UNCHANGED <<tailVars, rootVars, statVars, Tnext, Tsq, Tclaims, Tcomps,
                   Tprogress, quotaLeft>>

ProducerNext(p) ==
    \/ Write(p) \/ SweepFree(p) \/ SweepBlocked(p)
    \/ Decline(p) \/ Reserve(p) \/ CheckFresh(p) \/ InitStats(p)
    \/ RaiseLive(p) \/ PublishEs(p) \/ StoreTable(p) \/ PublishTable(p)
=============================================================================
