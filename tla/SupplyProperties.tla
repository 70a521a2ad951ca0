------------------------- MODULE SupplyProperties --------------------------
(* What the study material promises the student and the teacher. *)
EXTENDS Supply

\* A material declared complete has every module it announces, whatever requests
\* of other panels ran between the check of finishConsolidation and the write of
\* markComplete.  One case escapes: another panel deleting the end of a longer
\* material in that gap.
CompleteIsWhole ==
    header # NoHeader /\ header.status = "complete" /\ ~header.embedded /\ ~torn
        => Below(header.count) \subseteq DOMAIN modules

\* A panel that sent all its modules, worked alone and was answered shows the
\* student its own material and nothing else: no module of a longer earlier
\* material, no legacy content.
AloneGetsItsOwn ==
    \A g \in Generations \ disturbed :
        answer[g] # NoAnswer => answer[g] = Below(panel[g].size) \X {g}

\* What the student is shown as a whole material is one.
MaterialIsWhole == CompleteIsWhole /\ AloneGetsItsOwn

\* Panels that persist are all answered: the 409s, the failed readings and the
\* stops of finishConsolidation never hold one back for ever.  A save that
\* arrives after its panel was answered may: it announces modules that nobody
\* will send.
EveryPanelIsAnswered ==
    \A g \in Generations :
        panel[g].size > 0 ~> (answer[g] # NoAnswer \/ repeats > 0 \/ torn)
=============================================================================
