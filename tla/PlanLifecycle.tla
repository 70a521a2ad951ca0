---------------------------- MODULE PlanLifecycle ----------------------------
(***************************************************************************)
(* What a subscription promises, without gateway, schedule or documents: a *)
(* student contracts a plan, payments are counted one by one (a plan sold  *)
(* for a period is paid all at once), a refused renewal suspends it and a  *)
(* cancelled contract is over: no payment brings it back.                  *)
(***************************************************************************)
EXTENDS Naturals

CONSTANT Sizes   \* the sizes of the plans on sale, a set of naturals: see `size`

VARIABLES
    contract,    \* how many contracts the student has accepted
    status,      \* of the contract in force
    size,        \* installments sold at once, 0 if the plan renews monthly
    paid         \* installments or renewals paid in this contract

vars == <<contract, status, size, paid>>

Init == contract = 0 /\ status = "NONE" /\ size = 0 /\ paid = 0

\* What one payment adds.
Payment(n) == IF n = 0 THEN 1 ELSE n

\* A new contract starts unpaid, unless nothing is due for its first charge.
Accept ==
    /\ status # "ACTIVE"
    /\ contract' = contract + 1
    /\ size' \in Sizes
    /\ \/ status' = "PENDING" /\ paid' = 0
       \/ status' = "ACTIVE" /\ paid' = Payment(size')

Pay ==
    /\ status \in {"PENDING", "ACTIVE", "PAST_DUE"}
    /\ size > 0 => paid = 0
    /\ status' = "ACTIVE"
    /\ paid' = paid + Payment(size)
    /\ UNCHANGED <<contract, size>>

FallDue ==
    /\ status \in {"PENDING", "ACTIVE"} /\ size = 0
    /\ status' = "PAST_DUE"
    /\ UNCHANGED <<contract, size, paid>>

Cancel ==
    /\ status \in {"PENDING", "ACTIVE", "PAST_DUE"} /\ size = 0
    /\ status' = "CANCELLED"
    /\ UNCHANGED <<contract, size, paid>>

Next == Accept \/ Pay \/ FallDue \/ Cancel

Spec == Init /\ [][Next]_vars
=============================================================================
