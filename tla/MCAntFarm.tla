------------------------------ MODULE MCAntFarm ------------------------------
(***************************************************************************)
(* Instances of AntFarm for TLC: quotas and shard counts.                  *)
(***************************************************************************)
EXTENDS AntFarm, TLC

(* One ticket with the largest quota the geometry admits; two tiers.       *)
QuotaWhole == [p \in Producers |-> (K - 1) * SegCap]
QuotaTiers == [p \in Producers |-> IF p = CHOOSE q \in Producers : TRUE THEN 2 ELSE 1]

(* sqcsOf of up to two consumers.                                          *)
OneShard == [cs \in 1 .. 8 |-> 1]

(* Two shards whatever the count: the views of segments whose writers saw  *)
(* consumers that have left since.                                         *)
ShrunkFarm == [cs \in 1 .. 8 |-> 2]

(* Views differ in nothing but their names.                                *)
Views == Permutations(Consumers)

(* Three views at a time, one of them refused, while the tail is young: a  *)
(* refusal meets every stage of the others whatever the tail.              *)
CrowdEarly == Wt > 1 => Cardinality({c \in Consumers : cpc[c] # "off"}) <= 2
=============================================================================
