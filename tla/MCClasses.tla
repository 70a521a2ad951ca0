------------------------------ MODULE MCClasses ------------------------------
EXTENDS ClassesProperties, TLC

\* One makeup slot for every student: the second half hour of weekday 0.
LateSlot == [s \in Students |-> [day |-> 0, hour |-> LastSlot]]
OneDay == {0}
RateSymmetry == Permutations(Rates)
=============================================================================
