------------------------------- MODULE Agenda -------------------------------
(***************************************************************************)
(* The weekly grid of one teacher (agenda.service.ts).                     *)
(*                                                                         *)
(* A slot is a half hour of a weekday and holds at most one document.  A   *)
(* block of one or two slots writes one document per slot, all saying      *)
(* where the block starts and how long it is.  Documents of two teachers   *)
(* never meet: the id of a document starts with its teacher.               *)
(***************************************************************************)
EXTENDS Naturals, FiniteSets

CONSTANTS
    Students,
    Turmas,       \* groups
    Weekdays,     \* the days of the grid
    LastSlot,     \* LAST_HOUR, slots are numbered from 1
    Free          \* an absent document

Occupants == Students \cup Turmas
Slots == 1 .. LastSlot
Blocks == [occupant : Occupants, start : Slots, count : {1, 2}]

ASSUME GridAssumption ==
    /\ Students \cap Turmas = {}
    /\ LastSlot \in Nat \ {0}
    /\ Weekdays \subseteq Nat
    /\ Free \notin Blocks

VARIABLES
    grid,      \* [Weekdays -> [Slots -> document]]
    turmas,    \* the groups that exist
    torn       \* history: weekdays where a handler stopped between two commits

SlotsOf(start, count) == start .. (start + count - 1)
Covered(block) == SlotsOf(block.start, block.count)

\* findCovering: only a block that starts here or half an hour earlier.
FindCovering(day, hour) ==
    {grid[day][h] : h \in {s \in {hour - 1, hour} \cap Slots :
                              grid[day][s] # Free /\ hour \in Covered(grid[day][s])}}

GridInit ==
    /\ grid = [day \in Weekdays |-> [hour \in Slots |-> Free]]
    /\ turmas = Turmas
    /\ torn = {}

\* Halves of the block that starts at `hour` that the new block leaves out.
StaleHalves(day, hour, hours) ==
    IF grid[day][hour] = Free THEN {} ELSE Covered(grid[day][hour]) \ hours

Write(day, hours, document) ==
    [grid EXCEPT ![day] = [h \in Slots |-> IF h \in hours THEN document ELSE @[h]]]

\* Mutant: only the half hour where the block starts is looked at.
IsFreeAtStart(day, hour, hours) ==
    \A block \in FindCovering(day, hour) : block.start = hour

\* assertFree: whatever covers the hours starts where the new block starts.
IsFree(day, hour, hours) ==
    \A h \in hours : \A block \in FindCovering(day, h) : block.start = hour

\* assign: stale halves are dropped in one commit, the block written in another.
Assign(day, hour, count, occupant) ==
    LET hours == SlotsOf(hour, count)
        stale == StaleHalves(day, hour, hours)
    IN  /\ hours \subseteq Slots
        /\ IsFree(day, hour, hours)
        /\ \/ /\ grid' = [Write(day, stale, Free) EXCEPT
                             ![day] = [h \in Slots |->
                                 IF h \in hours
                                 THEN [occupant |-> occupant, start |-> hour, count |-> count]
                                 ELSE @[h]]]
              /\ torn' = torn
           \/ /\ stale # {} /\ torn = {}     \* bound: one such stop
              /\ grid' = Write(day, stale, Free)
              /\ torn' = torn \cup {day}
        /\ UNCHANGED turmas

\* free: any half of a block takes the whole block away.
FreeSlot(day, hour) ==
    /\ grid' = Write(day, {hour} \cup UNION {Covered(b) : b \in FindCovering(day, hour)}, Free)
    /\ UNCHANGED <<turmas, torn>>

RemoveTurma(turma) ==
    /\ turma \in turmas
    /\ turmas' = turmas \ {turma}
    /\ UNCHANGED <<grid, torn>>

GridNext ==
    \/ \E day \in Weekdays, hour \in Slots :
          \/ \E count \in {1, 2}, occupant \in Occupants :
                Assign(day, hour, count, occupant)
          \/ FreeSlot(day, hour)
    \/ \E turma \in Turmas : RemoveTurma(turma)

\* A slot as getGrid returns it: the ones of groups that are gone are hidden.
Shown(day, hour) ==
    grid[day][hour] # Free /\ grid[day][hour].occupant \in Students \cup turmas

\* Mutant: every half hour of a block becomes a lesson.
AllHalves(day) == {hour \in Slots : Shown(day, hour)}

\* isBlockStart: the first half hour of every block.
BlockStarts(day) == {hour \in Slots : Shown(day, hour) /\ grid[day][hour].start = hour}
=============================================================================
