--------------------------- MODULE MCSubscription ---------------------------
(***************************************************************************)
(* Instances of Subscription for TLC.                                      *)
(***************************************************************************)
EXTENDS SubscriptionProperties, FiniteSetsExt, TLC

\* Two plan shapes: the Mensal and a plan sold for a period of two months.
MCInstallments == [p \in Plans |-> IF p = "MONTHLY" THEN 1 ELSE 2]
MCPrice == [p \in Plans |-> IF p = "MONTHLY" THEN 3 ELSE 2]

\* The Mensal is paid at once; the period of base 4 costs the student 5.
MCPayerTotal == [p \in Plans |-> IF p = "MONTHLY" THEN 3 ELSE 5]

\* One month or two free of charge, one month at a discount.
OneMonthFree   == [discount |-> 4, months |-> 1]
OneMonthOff    == [discount |-> 1, months |-> 1]
OnlyNoCoupon   == {NoCoupon}
SomeCoupons    == {NoCoupon, OneMonthOff}
TwoMonthsFree  == [discount |-> 4, months |-> 2]
FreeMonth      == {NoCoupon, OneMonthFree}
FreeMonths     == {NoCoupon, TwoMonthsFree}

GatewaySymmetry == Permutations(OrderIds) \cup Permutations(PreapprovalIds)

\* The closed form of the total is the sum of the charges of the schedule.
ASSUME TotalIsTheSumOfTheCharges ==
    \A p \in Plans \ Recurring, discount \in 0 .. 4, months \in 0 .. 4 :
        LET coupon == [discount |-> discount, months |-> months]
        IN  TotalAmount(p, coupon) =
                MapThenSumSet(LAMBDA i : AmountFor(p, coupon, i), 1 .. Scheduled(p))
=============================================================================
