------------------------ MODULE MCSubscriptionRaces ------------------------
(***************************************************************************)
(* Instances of SubscriptionRaces for TLC: the same plan shapes as in      *)
(* MCSubscription, without coupons.                                        *)
(***************************************************************************)
EXTENDS SubscriptionRaces, TLC

MCInstallments == [p \in Plans |-> IF p = "MONTHLY" THEN 1 ELSE 2]
MCPrice == [p \in Plans |-> IF p = "MONTHLY" THEN 3 ELSE 2]

\* The Mensal is paid at once; the period of base 4 costs the student 5.
MCPayerTotal == [p \in Plans |-> IF p = "MONTHLY" THEN 3 ELSE 5]
MCCoupons == {NoCoupon}

RacesSymmetry == Permutations(Workers) \cup Permutations(OrderIds) \cup Permutations(CycleIds)
=============================================================================
