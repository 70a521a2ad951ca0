--------------------------- MODULE Classes_proofs ---------------------------
(***************************************************************************)
(* Theorems about modules Agenda and Classes, for every grid, every set of *)
(* students and groups, every window and every bound.                      *)
(***************************************************************************)
EXTENDS ClassesProperties, FiniteSetTheorems, WellFoundedInduction, TLAPS

-----------------------------------------------------------------------------
(* The grid *)

GridTypeOK ==
    /\ grid \in [Weekdays -> [Slots -> Blocks \cup {Free}]]
    /\ turmas \subseteq Turmas
    /\ torn \subseteq Weekdays

\* What GridIsWhole says of one weekday.
IsWhole(row) ==
    \A hour \in Slots : row[hour] # Free =>
        /\ hour \in Covered(row[hour])
        /\ \A half \in Covered(row[hour]) : half \in Slots /\ row[half] = row[hour]

GridInv == GridTypeOK /\ GridIsWhole

\* A block covers the half hour it starts at.
LEMMA BlockCoversItsStart ==
    ASSUME NEW block \in Blocks
    PROVE  block.start \in Covered(block) /\ block.start \in Slots
PROOF
  <1>1. /\ block.start \in Nat /\ block.start \in Slots
        /\ block.count \in {1, 2}
    BY GridAssumption DEF Blocks, Slots
  <1>2. block.start \in block.start .. (block.start + block.count - 1)
    BY <1>1
  <1> QED
    BY <1>1, <1>2 DEF Covered, SlotsOf

\* Writing a day changes the hours named, and no other day.
LEMMA WriteOneDay ==
    ASSUME GridTypeOK, NEW day \in Weekdays, NEW hours, NEW document
    PROVE  /\ DOMAIN Write(day, hours, document) = Weekdays
           /\ \A other \in Weekdays \ {day} : Write(day, hours, document)[other] = grid[other]
           /\ Write(day, hours, document)[day]
                = [h \in Slots |-> IF h \in hours THEN document ELSE grid[day][h]]
PROOF BY DEF Write, GridTypeOK

\* A block written over what assertFree lets through leaves the day whole.
LEMMA AssignedDayIsWhole ==
    ASSUME NEW row \in [Slots -> Blocks \cup {Free}], IsWhole(row),
           NEW block \in Blocks,
           \A h \in Covered(block) \cap Slots : row[h] # Free /\ h \in Covered(row[h]) =>
               row[h].start = block.start,
           Covered(block) \subseteq Slots,
           NEW stale,
           stale = (IF row[block.start] = Free THEN {}
                    ELSE Covered(row[block.start]) \ Covered(block))
    PROVE  IsWhole([h \in Slots |-> IF h \in Covered(block) THEN block
                                    ELSE IF h \in stale THEN Free ELSE row[h]])
PROOF
  <1> DEFINE new == [h \in Slots |-> IF h \in Covered(block) THEN block
                                     ELSE IF h \in stale THEN Free ELSE row[h]]
  <1>1. SUFFICES ASSUME NEW hour \in Slots, new[hour] # Free
                 PROVE  /\ hour \in Covered(new[hour])
                        /\ \A half \in Covered(new[hour]) :
                              half \in Slots /\ new[half] = new[hour]
    BY DEF IsWhole
  <1>2. CASE hour \in Covered(block)
    BY <1>2
  <1>3. CASE hour \notin Covered(block)
    <2>1. /\ hour \notin stale /\ new[hour] = row[hour] /\ row[hour] # Free
          /\ row[hour] \in Blocks
      BY <1>1, <1>3
    <2>2. /\ hour \in Covered(row[hour])
          /\ \A half \in Covered(row[hour]) : half \in Slots /\ row[half] = row[hour]
      BY <2>1 DEF IsWhole
    <2>3. ASSUME NEW half \in Covered(row[hour])
          PROVE  half \notin Covered(block) /\ half \notin stale
      <3>1. half \in Slots /\ row[half] = row[hour]
        BY <2>2
      <3>2. ASSUME half \in Covered(block) PROVE FALSE
        <4>1. row[hour].start = block.start
          BY <2>1, <3>1, <3>2
        <4>2. row[block.start] = row[hour]
          BY <2>1, <2>2, <4>1, BlockCoversItsStart
        <4>3. hour \in stale
          BY <4>2, <2>1, <2>2, <1>3
        <4> QED
          BY <4>3, <2>1
      <3>3. ASSUME half \in stale PROVE FALSE
        <4>1. /\ row[block.start] # Free /\ half \in Covered(row[block.start])
              /\ block.start \in Slots
          BY <3>3, BlockCoversItsStart
        <4>2. row[half] = row[block.start]
          BY <4>1 DEF IsWhole
        <4>3. hour \in stale
          BY <4>1, <4>2, <3>1, <2>2, <1>3
        <4> QED
          BY <4>3, <2>1
      <3> QED
        BY <3>2, <3>3
    <2> QED
      BY <2>1, <2>2, <2>3
  <1> QED
    BY <1>2, <1>3

\* Taking away every block that covers an hour leaves the day whole.
LEMMA FreedDayIsWhole ==
    ASSUME NEW row \in [Slots -> Blocks \cup {Free}], IsWhole(row),
           NEW hour \in Slots,
           NEW found, \A b \in found : \E s \in Slots : row[s] = b /\ b # Free,
           row[hour] # Free /\ hour \in Covered(row[hour]) => row[hour] \in found
    PROVE  IsWhole([h \in Slots |->
                       IF h \in {hour} \cup UNION {Covered(b) : b \in found} THEN Free ELSE row[h]])
PROOF
  <1> DEFINE gone == {hour} \cup UNION {Covered(b) : b \in found}
             new == [h \in Slots |-> IF h \in gone THEN Free ELSE row[h]]
  <1>1. SUFFICES ASSUME NEW h \in Slots, new[h] # Free
                 PROVE  /\ h \in Covered(new[h])
                        /\ \A half \in Covered(new[h]) : half \in Slots /\ new[half] = new[h]
    BY DEF IsWhole
  <1>2. h \notin gone /\ new[h] = row[h] /\ row[h] # Free
    BY <1>1
  <1>3. /\ h \in Covered(row[h])
        /\ \A half \in Covered(row[h]) : half \in Slots /\ row[half] = row[h]
    BY <1>2 DEF IsWhole
  <1>4. ASSUME NEW half \in Covered(row[h]), half \in gone PROVE FALSE
    <2>1. CASE half = hour
      <3>1. row[hour] = row[h] /\ hour \in Covered(row[hour])
        BY <1>3, <2>1
      <3>2. row[h] \in found
        BY <3>1, <1>2
      <3> QED
        BY <3>2, <1>2, <1>3
    <2>2. CASE \E b \in found : half \in Covered(b)
      <3>1. PICK b \in found : half \in Covered(b)
        BY <2>2
      <3>2. row[half] = b
        BY <3>1 DEF IsWhole
      <3> QED
        BY <3>1, <3>2, <1>2, <1>3
    <2> QED
      BY <1>4, <2>1, <2>2
  <1> QED
    BY <1>2, <1>3, <1>4

\* A function changed at one point, to a value of its range.
LEMMA ChangedAtOnePoint ==
    ASSUME NEW D, NEW S, NEW f \in [D -> S], NEW d \in D,
           NEW g, g = [x \in D |-> g[x]],
           \A x \in D \ {d} : g[x] = f[x], g[d] \in S
    PROVE  g \in [D -> S]
PROOF OBVIOUS

LEMMA GridStarts == GridInit => GridInv
PROOF BY DEF GridInit, GridInv, GridTypeOK, GridIsWhole

LEMMA AssignKeepsGrid ==
    ASSUME GridInv,
           NEW day \in Weekdays, NEW hour \in Slots, NEW count \in {1, 2},
           NEW occupant \in Occupants, Assign(day, hour, count, occupant)
    PROVE  GridInv'
PROOF
  <1> DEFINE block == [occupant |-> occupant, start |-> hour, count |-> count]
             hours == SlotsOf(hour, count)
             stale == StaleHalves(day, hour, hours)
  <1>1. /\ block \in Blocks /\ block.start = hour /\ Covered(block) = hours
        /\ hours \subseteq Slots /\ IsFree(day, hour, hours)
        /\ stale = (IF grid[day][hour] = Free THEN {} ELSE Covered(grid[day][hour]) \ hours)
        /\ turmas' = turmas /\ GridTypeOK /\ GridIsWhole
        /\ grid[day] \in [Slots -> Blocks \cup {Free}]
    BY DEF Assign, Blocks, Covered, StaleHalves, GridInv, GridTypeOK
  <1>2. CASE /\ grid' = [Write(day, stale, Free) EXCEPT
                            ![day] = [h \in Slots |-> IF h \in hours THEN block ELSE @[h]]]
             /\ torn' = torn
    <2>1. /\ DOMAIN grid' = Weekdays
          /\ \A other \in Weekdays \ {day} : grid'[other] = grid[other]
          /\ grid'[day] = [h \in Slots |-> IF h \in hours THEN block
                                           ELSE IF h \in stale THEN Free ELSE grid[day][h]]
          /\ grid' = [d \in Weekdays |-> grid'[d]]
      <3> DEFINE dropped == Write(day, stale, Free)
      <3> HIDE DEF block, hours, stale
      <3>1. /\ DOMAIN dropped = Weekdays
            /\ \A other \in Weekdays \ {day} : dropped[other] = grid[other]
            /\ dropped[day] = [h \in Slots |-> IF h \in stale THEN Free ELSE grid[day][h]]
        BY <1>1, WriteOneDay
      <3>2. grid' = [dropped EXCEPT ![day] = [h \in Slots |-> IF h \in hours THEN block ELSE @[h]]]
        BY <1>2
      <3> HIDE DEF dropped
      <3>3. grid'[day] = [h \in Slots |-> IF h \in hours THEN block ELSE dropped[day][h]]
        BY <3>1, <3>2
      <3>4. grid'[day] = [h \in Slots |-> IF h \in hours THEN block
                                           ELSE IF h \in stale THEN Free ELSE grid[day][h]]
        BY <3>1, <3>3
      <3>5. /\ DOMAIN grid' = Weekdays /\ grid' = [d \in Weekdays |-> grid'[d]]
            /\ \A other \in Weekdays \ {day} : grid'[other] = grid[other]
        BY <3>1, <3>2
      <3> QED
        BY <3>4, <3>5
    <2>2. grid'[day] \in [Slots -> Blocks \cup {Free}]
      BY <1>1, <2>1
    <2>3. GridTypeOK'
      <3> HIDE DEF block, hours, stale
      <3>1. grid' \in [Weekdays -> [Slots -> Blocks \cup {Free}]]
        BY <1>1, <2>1, <2>2, ChangedAtOnePoint DEF GridTypeOK
      <3> QED
        BY <1>1, <1>2, <3>1 DEF GridTypeOK
    <2>4. ASSUME day \notin torn PROVE IsWhole(grid'[day])
      <3>1. IsWhole(grid[day])
        BY <1>1, <2>4 DEF GridIsWhole, IsWhole
      <3>2. ASSUME NEW h \in hours, grid[day][h] # Free, h \in Covered(grid[day][h])
            PROVE  grid[day][h].start = hour
        <4>1. grid[day][h] \in FindCovering(day, h)
          BY <1>1, <3>2 DEF FindCovering
        <4> QED
          BY <1>1, <4>1 DEF IsFree
      <3>3. IsWhole([h \in Slots |-> IF h \in Covered(block) THEN block
                                     ELSE IF h \in stale THEN Free ELSE grid[day][h]])
        <4> HIDE DEF block, hours, stale
        <4>1. stale = IF grid[day][block.start] = Free THEN {}
                      ELSE Covered(grid[day][block.start]) \ Covered(block)
          BY <1>1
        <4>2. \A h \in Covered(block) \cap Slots :
                 grid[day][h] # Free /\ h \in Covered(grid[day][h]) =>
                    grid[day][h].start = block.start
          BY <1>1, <3>2
        <4> QED
          BY <1>1, <3>1, <4>1, <4>2, AssignedDayIsWhole
      <3> QED
        BY <1>1, <2>1, <3>3
    <2>5. GridIsWhole'
      <3> SUFFICES ASSUME NEW other \in Weekdays \ torn PROVE IsWhole(grid'[other])
        BY <1>2 DEF GridIsWhole, IsWhole
      <3>1. CASE other = day
        BY <2>4, <3>1
      <3>2. CASE other # day
        BY <1>1, <2>1, <3>2 DEF GridIsWhole, IsWhole
      <3> QED
        BY <3>1, <3>2
    <2> QED
      BY <2>3, <2>5 DEF GridInv
  <1>3. CASE grid' = Write(day, stale, Free) /\ torn' = torn \cup {day}
    <2>1. /\ DOMAIN grid' = Weekdays
          /\ \A other \in Weekdays \ {day} : grid'[other] = grid[other]
          /\ grid'[day] = [h \in Slots |-> IF h \in stale THEN Free ELSE grid[day][h]]
          /\ grid' = [d \in Weekdays |-> grid'[d]]
      <3>1. grid' = [d \in Weekdays |-> grid'[d]]
        BY <1>3, <1>1 DEF Write, GridTypeOK
      <3>2. /\ DOMAIN Write(day, stale, Free) = Weekdays
            /\ \A other \in Weekdays \ {day} : Write(day, stale, Free)[other] = grid[other]
            /\ Write(day, stale, Free)[day]
                 = [h \in Slots |-> IF h \in stale THEN Free ELSE grid[day][h]]
        <4> HIDE DEF block, hours, stale
        <4> QED
          BY <1>1, WriteOneDay
      <3> HIDE DEF block, hours, stale
      <3> QED
        BY <1>3, <3>1, <3>2
    <2> HIDE DEF block, hours, stale
    <2>2. GridTypeOK'
      <3>1. grid'[day] \in [Slots -> Blocks \cup {Free}]
        BY <1>1, <2>1
      <3>2. grid' \in [Weekdays -> [Slots -> Blocks \cup {Free}]]
        BY <1>1, <2>1, <3>1, ChangedAtOnePoint DEF GridTypeOK
      <3> QED
        BY <1>1, <1>3, <3>2 DEF GridTypeOK
    <2>3. GridIsWhole'
      <3>1. \A other \in Weekdays \ torn' : other \in Weekdays \ torn /\ grid'[other] = grid[other]
        BY <1>3, <2>1
      <3> QED
        BY <1>1, <3>1 DEF GridIsWhole
    <2> QED
      BY <2>2, <2>3 DEF GridInv
  <1> QED
    BY <1>2, <1>3 DEF Assign

LEMMA FreeSlotKeepsGrid ==
    ASSUME GridInv, NEW day \in Weekdays, NEW hour \in Slots, FreeSlot(day, hour)
    PROVE  GridInv'
PROOF
  <1> DEFINE found == FindCovering(day, hour)
             gone == {hour} \cup UNION {Covered(b) : b \in found}
  <1>1. GridTypeOK /\ GridIsWhole /\ turmas' = turmas /\ torn' = torn
        /\ grid' = Write(day, gone, Free)
    BY DEF FreeSlot, GridInv
  <1>2. /\ DOMAIN grid' = Weekdays
        /\ \A other \in Weekdays \ {day} : grid'[other] = grid[other]
        /\ grid'[day] = [h \in Slots |-> IF h \in gone THEN Free ELSE grid[day][h]]
        /\ grid' = [d \in Weekdays |-> grid'[d]]
    <2>1. grid' = [d \in Weekdays |-> grid'[d]]
      BY <1>1 DEF Write, GridTypeOK
    <2> HIDE DEF found, gone
    <2>2. /\ DOMAIN Write(day, gone, Free) = Weekdays
          /\ \A other \in Weekdays \ {day} : Write(day, gone, Free)[other] = grid[other]
          /\ Write(day, gone, Free)[day]
               = [h \in Slots |-> IF h \in gone THEN Free ELSE grid[day][h]]
      BY <1>1, WriteOneDay
    <2> QED
      BY <1>1, <2>1, <2>2
  <1>3. grid[day] \in [Slots -> Blocks \cup {Free}]
    BY <1>1 DEF GridTypeOK
  <1>4. GridTypeOK'
    <2> HIDE DEF gone
    <2>1. grid'[day] \in [Slots -> Blocks \cup {Free}]
      BY <1>2, <1>3
    <2>2. grid' \in [Weekdays -> [Slots -> Blocks \cup {Free}]]
      BY <1>1, <1>2, <2>1, ChangedAtOnePoint DEF GridTypeOK
    <2> QED
      BY <1>1, <2>2 DEF GridTypeOK
  <1>5. ASSUME day \notin torn PROVE IsWhole(grid'[day])
    <2>1. IsWhole(grid[day])
      BY <1>1, <1>5 DEF GridIsWhole, IsWhole
    <2>2. /\ \A b \in found : \E s \in Slots : grid[day][s] = b /\ b # Free
          /\ grid[day][hour] # Free /\ hour \in Covered(grid[day][hour]) => grid[day][hour] \in found
      BY DEF FindCovering
    <2>3. IsWhole([h \in Slots |-> IF h \in gone THEN Free ELSE grid[day][h]])
      <3> HIDE DEF found
      <3> QED
        BY <1>3, <2>1, <2>2, FreedDayIsWhole
    <2> QED
      BY <1>2, <2>3
  <1>6. GridIsWhole'
    <2> SUFFICES ASSUME NEW other \in Weekdays \ torn PROVE IsWhole(grid'[other])
      BY <1>1 DEF GridIsWhole, IsWhole
    <2>1. CASE other = day
      BY <1>5, <2>1
    <2>2. CASE other # day
      BY <1>1, <1>2, <2>2 DEF GridIsWhole, IsWhole
    <2> QED
      BY <2>1, <2>2
  <1> QED
    BY <1>4, <1>6 DEF GridInv

LEMMA GridStep == GridInv /\ GridNext => GridInv'
PROOF
  <1> SUFFICES ASSUME GridInv, GridNext PROVE GridInv'
    OBVIOUS
  <1>1. ASSUME NEW turma \in Turmas, RemoveTurma(turma) PROVE GridInv'
    BY <1>1 DEF RemoveTurma, GridInv, GridTypeOK, GridIsWhole
  <1> QED
    BY <1>1, AssignKeepsGrid, FreeSlotKeepsGrid DEF GridNext

LEMMA GridStutters == GridInv /\ UNCHANGED gridVars => GridInv'
PROOF BY DEF gridVars, GridInv, GridTypeOK, GridIsWhole

-----------------------------------------------------------------------------
(* The documents of the lessons *)

\* What PaidWhenDue says of one document.
IsPaidWhenDue(lesson) ==
    /\ (lesson.payable = "yes") <=> IsPayable(lesson.status)
    /\ lesson.payable = "yes" => lesson.rate # NoRate

DocumentsOK(docs) ==
    /\ DOMAIN docs \subseteq LessonIds
    /\ \A id \in DOMAIN docs : docs[id] \in LessonType /\ IsPaidWhenDue(docs[id])

\* A person recorded how the lesson ended.
EndedByHand(lesson) == lesson.attendance.source = "manual" /\ IsPayable(lesson.status)

\* A document as the handlers that end a lesson write it.
IsEnd(lesson) ==
    /\ lesson \in LessonType
    /\ IsPayable(lesson.status) /\ lesson.payable = "yes" /\ lesson.rate # NoRate
    /\ lesson.attendance.source # "none"

\* What ending a lesson does to the documents: it takes the status and the
\* attendance given, and every document born with it is a lesson to come.
Ends(old, new, id, lesson) ==
    /\ DOMAIN old \subseteq DOMAIN new /\ DOMAIN new \subseteq LessonIds
    /\ IsEnd(new[id])
    /\ new[id].status = lesson.status /\ new[id].attendance = lesson.attendance
    /\ \A other \in DOMAIN old \ {id} : new[other] = old[other]
    /\ \A other \in DOMAIN new \ DOMAIN old :
          new[other] \in LessonType /\ IsPaidWhenDue(new[other])

\* What any step does to the documents.
IsStep(old, new) ==
    /\ DocumentsOK(new) /\ DOMAIN old \subseteq DOMAIN new
    /\ \A id \in DOMAIN old :
          /\ IsPayable(old[id].status) => new[id].status # "scheduled"
          /\ EndedByHand(old[id]) => new[id].attendance.source = "manual"
          /\ IsPastManualWindow(id) /\ ~EndedByHand(old[id]) => ~EndedByHand(new[id])

LEMMA EndIsPaidWhenDue ==
    ASSUME NEW lesson, IsEnd(lesson)
    PROVE  lesson \in LessonType /\ IsPaidWhenDue(lesson)
PROOF BY DEF IsEnd, IsPaidWhenDue

\* What a document keeps of the stored one, and what it replaces.
LEMMA MergeOf ==
    ASSUME NEW stored \in LessonType, NEW document \in LessonType
    PROVE  /\ Merge(stored, document) \in LessonType
           /\ Merge(stored, document).status = document.status
           /\ Merge(stored, document).payable =
                 IF document.payable = "unset" THEN stored.payable ELSE document.payable
           /\ Merge(stored, document).rate =
                 IF document.rate = NoRate THEN stored.rate ELSE document.rate
           /\ document.attendance.source # "none" =>
                 Merge(stored, document).attendance = document.attendance
           /\ document.attendance = Unmarked =>
                 Merge(stored, document).attendance = stored.attendance
PROOF
  <1> DEFINE merged == Merge(stored, document)
  <1>1. DOMAIN Blank = {"status", "origin", "from", "to", "joinedS", "joinedT",
                        "attendance", "rated", "rate", "payable"}
    BY DEF Blank
  <1>2. \A f \in DOMAIN Blank :
           merged[f] = IF document[f] = Blank[f] THEN stored[f] ELSE document[f]
    BY DEF Merge
  <1>3. /\ merged.status = IF document.status = "none" THEN stored.status ELSE document.status
        /\ merged.origin = IF document.origin = "none" THEN stored.origin ELSE document.origin
        /\ merged.from = IF document.from = NoLesson THEN stored.from ELSE document.from
        /\ merged.to = IF document.to = NoLesson THEN stored.to ELSE document.to
        /\ merged.joinedS = IF document.joinedS = FALSE THEN stored.joinedS ELSE document.joinedS
        /\ merged.joinedT = IF document.joinedT = FALSE THEN stored.joinedT ELSE document.joinedT
        /\ merged.attendance =
              IF document.attendance = Unmarked THEN stored.attendance ELSE document.attendance
        /\ merged.rated = IF document.rated = FALSE THEN stored.rated ELSE document.rated
        /\ merged.rate = IF document.rate = NoRate THEN stored.rate ELSE document.rate
        /\ merged.payable =
              IF document.payable = "unset" THEN stored.payable ELSE document.payable
    BY <1>1, <1>2 DEF Blank
  <1>4. document.status # "none" /\ (document.attendance.source # "none" => document.attendance # Unmarked)
    BY DEF LessonType, Statuses, Unmarked
  <1>5. merged = [status |-> merged.status, origin |-> merged.origin, from |-> merged.from,
                  to |-> merged.to, joinedS |-> merged.joinedS, joinedT |-> merged.joinedT,
                  attendance |-> merged.attendance, rated |-> merged.rated,
                  rate |-> merged.rate, payable |-> merged.payable]
    BY DEF Merge, Blank
  <1>6. merged \in LessonType
    <2> HIDE DEF merged
    <2>1. /\ merged.status \in Statuses
          /\ merged.origin \in {"regular", "makeup", "rescheduled"}
          /\ merged.from \in LessonIds \cup {NoLesson}
          /\ merged.to \in LessonIds \cup {NoLesson}
          /\ merged.joinedS \in BOOLEAN
          /\ merged.joinedT \in BOOLEAN
          /\ merged.attendance \in [source : {"none", "auto", "manual"}, present : BOOLEAN]
          /\ merged.rated \in BOOLEAN
          /\ merged.rate \in {NoRate} \cup Rates
          /\ merged.payable \in {"unset", "yes", "no"}
      BY <1>3 DEF LessonType
    <2> QED
      BY <1>5, <2>1 DEF LessonType
  <1> QED
    BY <1>3, <1>4, <1>6

\* Saving touches one document.
Saves(docs, new, id, document) ==
    /\ DOMAIN new = DOMAIN docs \cup {id}
    /\ \A other \in DOMAIN docs \ {id} : new[other] = docs[other]
    /\ new[id] = IF id \in DOMAIN docs THEN Merge(docs[id], document) ELSE document

LEMMA SaveOf ==
    ASSUME NEW docs, NEW id, NEW document
    PROVE  Saves(docs, Save(docs, id, document), id, document)
PROOF
  <1>1. CASE id \in DOMAIN docs
    BY <1>1 DEF Save, Saves
  <1>2. CASE id \notin DOMAIN docs
    BY <1>2 DEF Save, Saves
  <1> QED
    BY <1>1, <1>2

\* Saving how a lesson ended leaves it ended that way.
LEMMA SavedEnd ==
    ASSUME NEW docs, NEW id \in DOMAIN docs, docs[id] \in LessonType,
           NEW lesson, IsEnd(lesson)
    PROVE  /\ DOMAIN Save(docs, id, lesson) = DOMAIN docs
           /\ \A other \in DOMAIN docs \ {id} : Save(docs, id, lesson)[other] = docs[other]
           /\ IsEnd(Save(docs, id, lesson)[id])
           /\ Save(docs, id, lesson)[id].status = lesson.status
           /\ Save(docs, id, lesson)[id].attendance = lesson.attendance
PROOF
  <1> DEFINE saved == Save(docs, id, lesson)
  <1>1. /\ DOMAIN saved = DOMAIN docs /\ saved[id] = Merge(docs[id], lesson)
        /\ \A other \in DOMAIN docs \ {id} : saved[other] = docs[other]
    <2>1. Saves(docs, saved, id, lesson)
      BY SaveOf
    <2> QED
      BY <2>1 DEF Saves
  <1>2. lesson \in LessonType /\ lesson.payable = "yes" /\ lesson.rate # NoRate
        /\ lesson.attendance.source # "none" /\ IsPayable(lesson.status)
    BY DEF IsEnd
  <1> HIDE DEF saved
  <1>3. /\ saved[id] \in LessonType /\ saved[id].status = lesson.status
        /\ saved[id].payable = "yes" /\ saved[id].rate = lesson.rate
        /\ saved[id].attendance = lesson.attendance
    BY <1>1, <1>2, MergeOf
  <1>4. IsEnd(saved[id])
    BY <1>2, <1>3 DEF IsEnd
  <1> QED
    BY <1>1, <1>3, <1>4 DEF saved

\* A lesson that ends is priced.
LEMMA ClosedIsEnd ==
    ASSUME NEW lesson \in LessonType, rate \in Rates,
           NEW status \in {"completed", "no_show", "cancelled"},
           NEW source \in {"auto", "manual"}, NEW present \in BOOLEAN
    PROVE  /\ IsEnd(Closed(lesson, status, Mark(source, present)))
           /\ Closed(lesson, status, Mark(source, present)).status = status
           /\ Closed(lesson, status, Mark(source, present)).attendance.source = source
PROOF
  <1> DEFINE marked == [lesson EXCEPT !.status = status, !.attendance = Mark(source, present)]
             closed == Closed(lesson, status, Mark(source, present))
  <1>1. /\ marked \in LessonType /\ marked.status = status
        /\ marked.attendance = Mark(source, present) /\ marked.rate = lesson.rate
    BY DEF LessonType, Statuses, Mark
  <1>2. closed = PriceLesson(marked)
    BY DEF Closed
  <1> HIDE DEF marked, closed
  <1>3. IsPayable(status) /\ Mark(source, present).source = source
    BY DEF IsPayable, Mark
  <1>4. /\ closed \in LessonType /\ closed.status = status /\ closed.payable = "yes"
        /\ closed.attendance = marked.attendance /\ closed.rate # NoRate
    BY <1>1, <1>2, <1>3, ClassesAssumption DEF PriceLesson, LessonType
  <1>5. IsEnd(closed)
    BY <1>1, <1>3, <1>4 DEF IsEnd
  <1> QED
    BY <1>1, <1>3, <1>4, <1>5 DEF closed

LEMMA MinIsLeast ==
    ASSUME NEW S, S \subseteq Nat, S # {}
    PROVE  Min(S) \in S
PROOF
  <1>1. \E x \in S : \A y \in S : ~ (<<y, x>> \in OpToRel(<, Nat))
    BY NatLessThanWellFounded, WFMin
  <1>2. PICK x \in S : \A y \in S : ~ (<<y, x>> \in OpToRel(<, Nat))
    BY <1>1
  <1>3. \A y \in S : ~(y < x)
    BY <1>2, Zenon DEF OpToRel
  <1>4. \A y \in S : x <= y
    BY <1>3
  <1> QED
    BY <1>2, <1>4 DEF Min

LEMMA NextDateIsDate ==
    ASSUME NEW after \in Nat, NEW day \in Nat
    PROVE  NextDateForDayOfWeek(after, day) \in Nat
PROOF
  <1>1. WeekLength \in Nat /\ WeekLength > 0
    BY ClassesAssumption
  <1>2. day - (after + 1) \in Int
    OBVIOUS
  <1>3. \A n \in Int : n % WeekLength \in Nat
    BY <1>1
  <1> QED
    BY <1>2, <1>3 DEF NextDateForDayOfWeek

\* The makeup is booked at a time no document has.
LEMMA MakeupIsNew ==
    ASSUME NEW docs, NEW id \in LessonIds, NEW lesson, GetsMakeup(docs, id, lesson)
    PROVE  MakeupId(docs, id) \in LessonIds /\ MakeupId(docs, id) \notin DOMAIN docs
PROOF
  <1> DEFINE slot == MakeupSlot[id.who]
             dates == FreeDates(docs, id, slot)
  <1>1. id.who \in Students /\ id.date \in Nat /\ slot # NoSlot /\ dates # {}
    BY DEF GetsMakeup, LessonIds
  <1>2. slot.day \in Nat /\ slot.hour \in Slots
    BY <1>1, ClassesAssumption
  <1>3. MakeupDates(id, slot) \subseteq Nat
    <2>1. NextDateForDayOfWeek(id.date, slot.day) \in Nat
      BY <1>1, <1>2, NextDateIsDate
    <2>2. ASSUME NEW week \in 0 .. (MaxWeeksAhead - 1) PROVE week * WeekLength \in Nat
      BY ClassesAssumption
    <2>3. \A week \in 0 .. (MaxWeeksAhead - 1) :
             NextDateForDayOfWeek(id.date, slot.day) + week * WeekLength \in Nat
      BY <2>1, <2>2
    <2> QED
      BY <2>3 DEF MakeupDates
  <1>4. dates \subseteq Nat
    BY <1>3 DEF FreeDates
  <1>5. Min(dates) \in dates
    BY <1>1, <1>4, MinIsLeast
  <1>6. MakeupId(docs, id) = [who |-> id.who, date |-> Min(dates), hour |-> slot.hour]
    BY DEF MakeupId
  <1>7. MakeupId(docs, id) \notin DOMAIN docs
    BY <1>5, <1>6 DEF FreeDates
  <1>8. id.who \in Occupants
    BY <1>1 DEF Occupants
  <1> QED
    BY <1>2, <1>4, <1>5, <1>6, <1>7, <1>8 DEF LessonIds

LEMMA ReplacementOf ==
    ASSUME NEW origin \in {"makeup", "rescheduled"}, NEW id \in LessonIds
    PROVE  /\ Replacement(origin, id) \in LessonType
           /\ IsPaidWhenDue(Replacement(origin, id))
           /\ Replacement(origin, id).status = "scheduled"
           /\ Replacement(origin, id).payable = "unset"
           /\ Replacement(origin, id).rate = NoRate
           /\ Replacement(origin, id).attendance = Unmarked
PROOF
  <1> DEFINE planned == [Blank EXCEPT !.status = "scheduled"]
             placed == [planned EXCEPT !.origin = origin]
  <1>1. Blank \in
           [status : {"none"}, origin : {"none"}, from : {NoLesson}, to : {NoLesson},
            joinedS : {FALSE}, joinedT : {FALSE}, attendance : {Unmarked},
            rated : {FALSE}, rate : {NoRate}, payable : {"unset"}]
    BY DEF Blank
  <1>2. planned \in
           [status : {"scheduled"}, origin : {"none"}, from : {NoLesson}, to : {NoLesson},
            joinedS : {FALSE}, joinedT : {FALSE}, attendance : {Unmarked},
            rated : {FALSE}, rate : {NoRate}, payable : {"unset"}]
    BY <1>1
  <1> HIDE DEF planned
  <1>3. placed \in
           [status : {"scheduled"}, origin : {origin}, from : {NoLesson}, to : {NoLesson},
            joinedS : {FALSE}, joinedT : {FALSE}, attendance : {Unmarked},
            rated : {FALSE}, rate : {NoRate}, payable : {"unset"}]
    BY <1>2
  <1>4. Replacement(origin, id) = [placed EXCEPT !.from = id]
    BY DEF Replacement, planned
  <1> HIDE DEF placed
  <1>5. Replacement(origin, id) \in
           [status : {"scheduled"}, origin : {origin}, from : {id}, to : {NoLesson},
            joinedS : {FALSE}, joinedT : {FALSE}, attendance : {Unmarked},
            rated : {FALSE}, rate : {NoRate}, payable : {"unset"}]
    BY <1>3, <1>4
  <1>6. Replacement(origin, id) \in LessonType
    <2> DEFINE Marks == [source : {"none", "auto", "manual"}, present : BOOLEAN]
    <2>1. Unmarked \in Marks
      BY DEF Unmarked
    <2>2. "scheduled" \in Statuses
      BY DEF Statuses
    <2> HIDE DEF Marks
    <2>3. Replacement(origin, id) \in
            [status : Statuses, origin : {"regular", "makeup", "rescheduled"},
             from : LessonIds \cup {NoLesson}, to : LessonIds \cup {NoLesson},
             joinedS : BOOLEAN, joinedT : BOOLEAN, attendance : Marks,
             rated : BOOLEAN, rate : {NoRate} \cup Rates, payable : {"unset", "yes", "no"}]
      BY <1>5, <2>1, <2>2
    <2> QED
      BY <2>3 DEF LessonType, Marks
  <1> QED
    BY <1>5, <1>6 DEF IsPaidWhenDue, IsPayable

\* An end linked to its replacement is the same end.
LEMMA LinkedEnd ==
    ASSUME NEW lesson, IsEnd(lesson), NEW makeup \in LessonIds
    PROVE  /\ IsEnd([lesson EXCEPT !.to = makeup])
           /\ [lesson EXCEPT !.to = makeup].status = lesson.status
           /\ [lesson EXCEPT !.to = makeup].attendance = lesson.attendance
PROOF BY DEF IsEnd, LessonType

\* Booking a new document leaves the end as it is.
LEMMA BookedEnds ==
    ASSUME NEW old, NEW closed, NEW id \in DOMAIN old, NEW lesson, Ends(old, closed, id, lesson),
           NEW makeup \in LessonIds, makeup \notin DOMAIN closed,
           NEW document \in LessonType, IsPaidWhenDue(document)
    PROVE  Ends(old, Save(closed, makeup, document), id, lesson)
PROOF
  <1> DEFINE booked == Save(closed, makeup, document)
  <1>1. /\ DOMAIN booked = DOMAIN closed \cup {makeup} /\ booked[makeup] = document
        /\ \A other \in DOMAIN closed \ {makeup} : booked[other] = closed[other]
    <2>1. Saves(closed, booked, makeup, document)
      BY SaveOf
    <2> QED
      BY <2>1 DEF Saves
  <1> HIDE DEF booked
  <1>2. Ends(old, booked, id, lesson)
    BY <1>1 DEF Ends
  <1> QED
    BY <1>2 DEF booked

\* So does linking the lesson to its replacement.
LEMMA LinkedEnds ==
    ASSUME NEW old, NEW booked, NEW id \in DOMAIN old, NEW lesson, IsEnd(lesson),
           Ends(old, booked, id, lesson), NEW makeup \in LessonIds
    PROVE  Ends(old, Save(booked, id, [lesson EXCEPT !.to = makeup]), id, lesson)
PROOF
  <1> DEFINE link == [lesson EXCEPT !.to = makeup]
             linked == Save(booked, id, link)
  <1>1. IsEnd(link) /\ link.status = lesson.status /\ link.attendance = lesson.attendance
    BY LinkedEnd
  <1>2. id \in DOMAIN booked /\ booked[id] \in LessonType
    BY EndIsPaidWhenDue DEF Ends
  <1> HIDE DEF link
  <1>3. /\ DOMAIN linked = DOMAIN booked
        /\ \A other \in DOMAIN booked \ {id} : linked[other] = booked[other]
        /\ IsEnd(linked[id]) /\ linked[id].status = lesson.status
        /\ linked[id].attendance = lesson.attendance
    BY <1>1, <1>2, SavedEnd
  <1> HIDE DEF linked
  <1>4. Ends(old, linked, id, lesson)
    BY <1>3 DEF Ends
  <1> QED
    BY <1>4 DEF link, linked

\* Whatever a missed lesson brings about, it is ended and no other lesson changes.
LEMMA MissedEnds ==
    ASSUME DocumentsOK(lessons), NEW id \in DOMAIN lessons,
           NEW lesson, IsEnd(lesson), Missed(id, lesson)
    PROVE  Ends(lessons, lessons', id, lesson)
PROOF
  <1> DEFINE closed == Save(lessons, id, lesson)
             makeup == MakeupId(closed, id)
             booked == Save(closed, makeup, Replacement("makeup", id))
             linked == Save(booked, id, [lesson EXCEPT !.to = makeup])
  <1>1. id \in LessonIds /\ lessons[id] \in LessonType /\ DOMAIN lessons \subseteq LessonIds
    BY DEF DocumentsOK
  <1>2. /\ DOMAIN closed = DOMAIN lessons
        /\ \A other \in DOMAIN lessons \ {id} : closed[other] = lessons[other]
        /\ IsEnd(closed[id]) /\ closed[id].status = lesson.status
        /\ closed[id].attendance = lesson.attendance
    BY <1>1, SavedEnd
  <1>3. lessons' \in {closed, booked, linked} /\ (GetsMakeup(closed, id, lesson) \/ lessons' = closed)
    BY DEF Missed
  <1> HIDE DEF closed
  <1>4. Ends(lessons, closed, id, lesson)
    BY <1>1, <1>2 DEF Ends
  <1>5. CASE GetsMakeup(closed, id, lesson)
    <2>1. makeup \in LessonIds /\ makeup \notin DOMAIN closed
      BY <1>1, <1>5, MakeupIsNew
    <2> HIDE DEF makeup
    <2>2. Ends(lessons, booked, id, lesson)
      BY <1>1, <1>4, <2>1, ReplacementOf, BookedEnds
    <2> HIDE DEF booked
    <2>3. Ends(lessons, linked, id, lesson)
      BY <2>1, <2>2, LinkedEnds
    <2> QED
      BY <1>3, <1>4, <2>2, <2>3
  <1> QED
    BY <1>3, <1>4, <1>5

\* Ending a lesson is a step, unless it takes away what a person recorded.
LEMMA EndsIsStep ==
    ASSUME DocumentsOK(lessons), NEW id \in DOMAIN lessons,
           NEW lesson, IsEnd(lesson), NEW new, Ends(lessons, new, id, lesson),
           EndedByHand(lessons[id]) => lesson.attendance.source = "manual",
           IsPastManualWindow(id) => lesson.attendance.source # "manual"
    PROVE  IsStep(lessons, new)
PROOF
  <1>1. DOMAIN lessons \subseteq DOMAIN new /\ DOMAIN new \subseteq LessonIds
    BY DEF Ends
  <1>2. new[id].status # "scheduled" /\ new[id].attendance.source = lesson.attendance.source
    BY DEF Ends, IsEnd, IsPayable
  <1>3. ASSUME NEW other \in DOMAIN new
        PROVE  new[other] \in LessonType /\ IsPaidWhenDue(new[other])
    BY <1>3, EndIsPaidWhenDue DEF Ends, DocumentsOK
  <1>4. ASSUME NEW other \in DOMAIN lessons
        PROVE  /\ IsPayable(lessons[other].status) => new[other].status # "scheduled"
               /\ EndedByHand(lessons[other]) => new[other].attendance.source = "manual"
               /\ IsPastManualWindow(other) /\ ~EndedByHand(lessons[other])
                    => ~EndedByHand(new[other])
    <2>1. CASE other = id
      BY <1>2, <2>1 DEF EndedByHand
    <2>2. CASE other # id
      <3>1. new[other] = lessons[other]
        BY <2>2 DEF Ends
      <3> QED
        BY <3>1 DEF EndedByHand, IsPayable
    <2> QED
      BY <2>1, <2>2
  <1> QED
    BY <1>1, <1>3, <1>4 DEF IsStep, DocumentsOK

-----------------------------------------------------------------------------
(* The handlers *)

RequestsOK ==
    /\ DOMAIN requests = RequestIds
    /\ \A request \in RequestIds : requests[request] # NoRequest =>
          requests[request] \in RequestType /\ requests[request].lesson \in DOMAIN lessons

\* What is left to close is past the time a person may still record it, and
\* nobody had recorded it.
ClosingOK ==
    /\ DOMAIN closing = Readers
    /\ \A reader \in Readers :
          /\ DOMAIN closing[reader] \subseteq DOMAIN lessons
          /\ \A id \in DOMAIN closing[reader] :
                /\ closing[reader][id] \in LessonType
                /\ IsPastManualWindow(id) /\ ~EndedByHand(lessons[id])

ClockOK == rate \in Rates /\ now \in Nat /\ stopped \subseteq LessonIds

LessonsInv == DocumentsOK(lessons) /\ RequestsOK /\ ClosingOK /\ ClockOK

\* A document that no handler touched makes a step of its own.
LEMMA NothingIsStep == DocumentsOK(lessons) => IsStep(lessons, lessons)
PROOF BY DEF IsStep, EndedByHand, IsPayable

\* After a step of the documents the requests still speak of lessons that exist.
LEMMA RequestsStay ==
    ASSUME RequestsOK, IsStep(lessons, lessons'), requests' = requests
    PROVE  RequestsOK'
PROOF BY DEF RequestsOK, IsStep

\* After a step of the documents what is left of the lists can still be closed.
LEMMA ListsStay ==
    ASSUME ClosingOK, IsStep(lessons, lessons'), now' = now, DOMAIN closing' = Readers,
           \A reader \in Readers : \A id \in DOMAIN closing'[reader] :
               id \in DOMAIN closing[reader] /\ closing'[reader][id] = closing[reader][id]
    PROVE  ClosingOK'
PROOF
  <1> SUFFICES ASSUME NEW reader \in Readers, NEW id \in DOMAIN closing'[reader]
               PROVE  /\ id \in DOMAIN lessons'
                      /\ closing'[reader][id] \in LessonType
                      /\ IsPastManualWindow(id)' /\ ~EndedByHand(lessons'[id])
    BY DEF ClosingOK
  <1>1. /\ id \in DOMAIN closing[reader] /\ closing'[reader][id] = closing[reader][id]
        /\ id \in DOMAIN lessons /\ closing[reader][id] \in LessonType
        /\ IsPastManualWindow(id) /\ ~EndedByHand(lessons[id])
    BY DEF ClosingOK
  <1>2. IsPastManualWindow(id)'
    BY <1>1 DEF IsPastManualWindow, Start
  <1> QED
    BY <1>1, <1>2 DEF IsStep

\* A step that only touches documents keeps the invariant.
LEMMA StepKeepsLessons ==
    ASSUME LessonsInv, IsStep(lessons, lessons'),
           UNCHANGED <<requests, rate, now>>, DOMAIN closing' = Readers,
           stopped' \subseteq LessonIds,
           \A reader \in Readers : \A id \in DOMAIN closing'[reader] :
               id \in DOMAIN closing[reader] /\ closing'[reader][id] = closing[reader][id]
    PROVE  LessonsInv'
PROOF
  <1>1. DocumentsOK(lessons') /\ RequestsOK' /\ ClosingOK'
    BY RequestsStay, ListsStay DEF LessonsInv, IsStep
  <1>2. DocumentsOK(lessons)'
    BY <1>1 DEF DocumentsOK
  <1> QED
    BY <1>1, <1>2 DEF LessonsInv, ClockOK

\* Lessons are born on the agenda, at the times of the grid.
LEMMA EnsuredIsStep ==
    ASSUME GridInv, LessonsInv, NEW from \in 0 .. MaxDate, NEW to \in 0 .. MaxDate
    PROVE  IsStep(lessons, EnsureLessons(from, to))
PROOF
  <1> DEFINE planned == [Blank EXCEPT !.status = "scheduled"]
             born == [planned EXCEPT !.origin = "regular"]
             new == EnsureLessons(from, to)
  <1>1. Candidates(from, to) \subseteq LessonIds
    <2> SUFFICES ASSUME NEW date \in from .. to, DayOfWeek(date) \in Weekdays,
                        NEW hour \in BlockStarts(DayOfWeek(date))
                 PROVE  Regular(date, hour) \in LessonIds
      BY DEF Candidates
    <2>1. date \in Nat /\ hour \in Slots
      BY ClassesAssumption DEF BlockStarts
    <2>2. grid[DayOfWeek(date)][hour].occupant \in Occupants
      BY DEF BlockStarts, Shown, Occupants, GridInv, GridTypeOK
    <2> QED
      BY <2>1, <2>2 DEF Regular, LessonIds
  <1>2. born \in LessonType /\ IsPaidWhenDue(born)
    <2>1. Blank \in
           [status : {"none"}, origin : {"none"}, from : {NoLesson}, to : {NoLesson},
            joinedS : {FALSE}, joinedT : {FALSE}, attendance : {Unmarked},
            rated : {FALSE}, rate : {NoRate}, payable : {"unset"}]
      BY DEF Blank
    <2>2. planned \in
           [status : {"scheduled"}, origin : {"none"}, from : {NoLesson}, to : {NoLesson},
            joinedS : {FALSE}, joinedT : {FALSE}, attendance : {Unmarked},
            rated : {FALSE}, rate : {NoRate}, payable : {"unset"}]
      BY <2>1
    <2> HIDE DEF planned
    <2>3. born \in
           [status : {"scheduled"}, origin : {"regular"}, from : {NoLesson}, to : {NoLesson},
            joinedS : {FALSE}, joinedT : {FALSE}, attendance : {Unmarked},
            rated : {FALSE}, rate : {NoRate}, payable : {"unset"}]
      BY <2>2
    <2> HIDE DEF born
    <2> DEFINE Marks == [source : {"none", "auto", "manual"}, present : BOOLEAN]
    <2>4. Unmarked \in Marks /\ "scheduled" \in Statuses
      BY DEF Unmarked, Statuses
    <2> HIDE DEF Marks
    <2>5. born \in
            [status : Statuses, origin : {"regular", "makeup", "rescheduled"},
             from : LessonIds \cup {NoLesson}, to : LessonIds \cup {NoLesson},
             joinedS : BOOLEAN, joinedT : BOOLEAN, attendance : Marks,
             rated : BOOLEAN, rate : {NoRate} \cup Rates, payable : {"unset", "yes", "no"}]
      BY <2>3, <2>4
    <2> QED
      BY <2>3, <2>5 DEF LessonType, Marks, IsPaidWhenDue, IsPayable
  <1>3. /\ DOMAIN new = DOMAIN lessons \cup Candidates(from, to)
        /\ \A id \in DOMAIN lessons : new[id] = lessons[id]
        /\ \A id \in DOMAIN new \ DOMAIN lessons : new[id] = born
    BY DEF EnsureLessons
  <1> HIDE DEF born, new
  <1>4. DocumentsOK(new)
    BY <1>1, <1>2, <1>3 DEF DocumentsOK, LessonsInv
  <1>5. IsStep(lessons, new)
    BY <1>3, <1>4 DEF IsStep, EndedByHand, IsPayable
  <1> QED
    BY <1>5 DEF new

LEMMA ListStudentLessonsStep ==
    ASSUME GridInv, LessonsInv, NEW from \in 0 .. MaxDate, NEW to \in 0 .. MaxDate,
           ListStudentLessons(from, to)
    PROVE  LessonsInv' /\ IsStep(lessons, lessons')
PROOF
  <1>1. IsStep(lessons, lessons')
    BY EnsuredIsStep DEF ListStudentLessons
  <1> QED
    BY <1>1, StepKeepsLessons DEF ListStudentLessons, LessonsInv, ClosingOK, ClockOK

LEMMA ListLessonsStep ==
    ASSUME GridInv, LessonsInv, NEW from \in 0 .. MaxDate, NEW to \in 0 .. MaxDate,
           NEW reader \in Readers, ListLessons(reader, from, to)
    PROVE  LessonsInv' /\ IsStep(lessons, lessons')
PROOF
  <1> DEFINE ids == Overdue(lessons', from, to)
  <1>1. IsStep(lessons, lessons')
    BY EnsuredIsStep DEF ListLessons
  <1>2. /\ closing' = [closing EXCEPT ![reader] = [id \in ids |-> lessons'[id]]]
        /\ UNCHANGED <<requests, rate, now, stopped>>
    BY DEF ListLessons, Listed
  <1>3. \A id \in ids : /\ id \in DOMAIN lessons' /\ lessons'[id].status = "scheduled"
                        /\ IsPastManualWindow(id)
    BY DEF Overdue
  <1> HIDE DEF ids
  <1>4. DocumentsOK(lessons') /\ RequestsOK'
    BY <1>1, <1>2, RequestsStay DEF IsStep, LessonsInv
  <1>5. ClosingOK'
    <2> SUFFICES ASSUME NEW other \in Readers
                 PROVE  /\ DOMAIN closing'[other] \subseteq DOMAIN lessons'
                        /\ \A id \in DOMAIN closing'[other] :
                              /\ closing'[other][id] \in LessonType
                              /\ IsPastManualWindow(id)' /\ ~EndedByHand(lessons'[id])
      BY <1>2 DEF ClosingOK, LessonsInv
    <2>1. \A id : IsPastManualWindow(id) => IsPastManualWindow(id)'
      BY <1>2 DEF IsPastManualWindow, Start
    <2>2. CASE other = reader
      <3>1. closing'[other] = [id \in ids |-> lessons'[id]]
        BY <1>2, <2>2 DEF LessonsInv, ClosingOK
      <3>2. \A id \in ids : ~EndedByHand(lessons'[id])
        BY <1>3 DEF EndedByHand, IsPayable
      <3> QED
        BY <1>3, <1>4, <2>1, <3>1, <3>2 DEF DocumentsOK
    <2>3. CASE other # reader
      <3>1. closing'[other] = closing[other]
        BY <1>2, <2>3 DEF LessonsInv, ClosingOK
      <3> QED
        BY <1>1, <2>1, <3>1 DEF LessonsInv, ClosingOK, IsStep
    <2> QED
      BY <2>2, <2>3
  <1>6. DocumentsOK(lessons)'
    BY <1>4 DEF DocumentsOK
  <1> QED
    BY <1>1, <1>2, <1>4, <1>5, <1>6 DEF LessonsInv, ClockOK

\* A handler that ends a lesson keeps the invariant.
LEMMA EndingKeepsLessons ==
    ASSUME LessonsInv, NEW id \in DOMAIN lessons, NEW lesson, IsEnd(lesson),
           \/ Missed(id, lesson)
           \/ lessons' = Save(lessons, id, lesson) /\ stopped' = stopped,
           EndedByHand(lessons[id]) => lesson.attendance.source = "manual",
           IsPastManualWindow(id) => lesson.attendance.source # "manual",
           UNCHANGED <<requests, rate, now>>, DOMAIN closing' = Readers,
           \A reader \in Readers : \A i \in DOMAIN closing'[reader] :
               i \in DOMAIN closing[reader] /\ closing'[reader][i] = closing[reader][i]
    PROVE  LessonsInv' /\ IsStep(lessons, lessons')
PROOF
  <1>1. /\ DocumentsOK(lessons) /\ DOMAIN lessons \subseteq LessonIds
        /\ lessons[id] \in LessonType /\ stopped \subseteq LessonIds
    BY DEF LessonsInv, DocumentsOK, ClockOK
  <1>2. stopped' \subseteq LessonIds
    BY <1>1 DEF Missed
  <1>3. Ends(lessons, lessons', id, lesson)
    <2>1. CASE Missed(id, lesson)
      BY <1>1, <2>1, MissedEnds
    <2>2. CASE lessons' = Save(lessons, id, lesson)
      BY <1>1, <2>2, SavedEnd DEF Ends
    <2> QED
      BY <2>1, <2>2
  <1>4. IsStep(lessons, lessons')
    BY <1>1, <1>3, EndsIsStep
  <1> QED
    BY <1>2, <1>4, StepKeepsLessons

LEMMA CloseOverdueStep ==
    ASSUME LessonsInv, NEW reader \in Readers, NEW id \in DOMAIN closing[reader],
           CloseOverdue(reader, id)
    PROVE  LessonsInv' /\ IsStep(lessons, lessons')
PROOF
  <1> DEFINE listed == closing[reader][id]
             status == IF listed.joinedS THEN "completed" ELSE "no_show"
             lesson == Closed(listed, status, Mark("auto", listed.joinedS))
  <1>1. /\ id \in DOMAIN lessons /\ listed \in LessonType /\ ~EndedByHand(lessons[id])
        /\ rate \in Rates /\ DOMAIN closing = Readers
    BY DEF LessonsInv, ClosingOK, ClockOK
  <1>2. /\ Missed(id, lesson) \/ (lessons' = Save(lessons, id, lesson) /\ stopped' = stopped)
        /\ UNCHANGED <<requests, rate, now>>
        /\ closing' = [closing EXCEPT ![reader] = Restrict(@, DOMAIN @ \ {id})]
    BY DEF CloseOverdue
  <1>3. listed.joinedS \in BOOLEAN /\ status \in {"completed", "no_show"}
    BY <1>1 DEF LessonType
  <1> HIDE DEF listed, status
  <1>4. IsEnd(lesson) /\ lesson.attendance.source = "auto"
    BY <1>1, <1>3, ClosedIsEnd
  <1> HIDE DEF lesson
  <1>5. /\ DOMAIN closing' = Readers
        /\ \A other \in Readers : \A i \in DOMAIN closing'[other] :
               i \in DOMAIN closing[other] /\ closing'[other][i] = closing[other][i]
    <2>1. closing'[reader] = [i \in DOMAIN closing[reader] \ {id} |-> closing[reader][i]]
      BY <1>1, <1>2 DEF Restrict
    <2>2. DOMAIN closing' = Readers /\ \A other \in Readers \ {reader} : closing'[other] = closing[other]
      BY <1>1, <1>2
    <2> QED
      BY <2>1, <2>2
  <1> QED
    BY <1>1, <1>2, <1>4, <1>5, EndingKeepsLessons

LEMMA StopReadingStep ==
    ASSUME LessonsInv, NEW reader \in Readers, StopReading(reader)
    PROVE  LessonsInv' /\ IsStep(lessons, lessons')
PROOF
  <1>1. /\ UNCHANGED <<lessons, requests, rate, now, stopped>>
        /\ closing' = [closing EXCEPT ![reader] = <<>>] /\ DOMAIN closing = Readers
    BY DEF StopReading, LessonsInv, ClosingOK
  <1>2. \A other \in Readers : \A i \in DOMAIN closing'[other] :
           i \in DOMAIN closing[other] /\ closing'[other][i] = closing[other][i]
    BY <1>1
  <1>3. IsStep(lessons, lessons')
    BY <1>1, NothingIsStep DEF LessonsInv
  <1> QED
    BY <1>1, <1>2, <1>3, StepKeepsLessons DEF LessonsInv, ClockOK

\* Changing a lesson in what neither pays for it nor ends it is a step.
LEMMA TouchedIsStep ==
    ASSUME LessonsInv, NEW id \in DOMAIN lessons, NEW document \in LessonType,
           document.status = lessons[id].status, document.payable = lessons[id].payable,
           document.rate = lessons[id].rate, document.attendance = lessons[id].attendance,
           lessons' = [lessons EXCEPT ![id] = document],
           UNCHANGED <<requests, closing, rate, now, stopped>>
    PROVE  LessonsInv' /\ IsStep(lessons, lessons')
PROOF
  <1>1. /\ DOMAIN lessons' = DOMAIN lessons /\ lessons'[id] = document
        /\ \A other \in DOMAIN lessons \ {id} : lessons'[other] = lessons[other]
    OBVIOUS
  <1>2. IsPaidWhenDue(document)
    BY DEF LessonsInv, DocumentsOK, IsPaidWhenDue
  <1>3. DocumentsOK(lessons')
    BY <1>1, <1>2 DEF LessonsInv, DocumentsOK
  <1>4. IsStep(lessons, lessons')
    BY <1>1, <1>3 DEF IsStep, EndedByHand, IsPayable
  <1> QED
    BY <1>4, StepKeepsLessons DEF LessonsInv, ClosingOK, ClockOK

LEMMA TeacherJoinsStep ==
    ASSUME LessonsInv, NEW id \in DOMAIN lessons, TeacherJoins(id)
    PROVE  LessonsInv' /\ IsStep(lessons, lessons')
PROOF
  <1> DEFINE document == [lessons[id] EXCEPT !.joinedT = TRUE]
  <1>1. lessons[id] \in LessonType
    BY DEF LessonsInv, DocumentsOK
  <1>2. /\ document \in LessonType
        /\ document.status = lessons[id].status /\ document.payable = lessons[id].payable
        /\ document.rate = lessons[id].rate /\ document.attendance = lessons[id].attendance
    BY <1>1 DEF LessonType
  <1>3. lessons' = [lessons EXCEPT ![id] = document]
    BY DEF TeacherJoins
  <1> HIDE DEF document
  <1> QED
    BY <1>2, <1>3, TouchedIsStep DEF TeacherJoins

LEMMA StudentJoinsStep ==
    ASSUME LessonsInv, NEW id \in DOMAIN lessons, StudentJoins(id)
    PROVE  LessonsInv' /\ IsStep(lessons, lessons')
PROOF
  <1> DEFINE document == [lessons[id] EXCEPT !.joinedS = TRUE]
  <1>1. lessons[id] \in LessonType
    BY DEF LessonsInv, DocumentsOK
  <1>2. /\ document \in LessonType
        /\ document.status = lessons[id].status /\ document.payable = lessons[id].payable
        /\ document.rate = lessons[id].rate /\ document.attendance = lessons[id].attendance
    BY <1>1 DEF LessonType
  <1>3. lessons' = [lessons EXCEPT ![id] = document]
    BY DEF StudentJoins
  <1> HIDE DEF document
  <1> QED
    BY <1>2, <1>3, TouchedIsStep DEF StudentJoins

LEMMA RateLessonStep ==
    ASSUME LessonsInv, NEW id \in DOMAIN lessons, RateLesson(id)
    PROVE  LessonsInv' /\ IsStep(lessons, lessons')
PROOF
  <1> DEFINE document == [lessons[id] EXCEPT !.rated = TRUE]
  <1>1. lessons[id] \in LessonType
    BY DEF LessonsInv, DocumentsOK
  <1>2. /\ document \in LessonType
        /\ document.status = lessons[id].status /\ document.payable = lessons[id].payable
        /\ document.rate = lessons[id].rate /\ document.attendance = lessons[id].attendance
    BY <1>1 DEF LessonType
  <1>3. lessons' = [lessons EXCEPT ![id] = document]
    BY DEF RateLesson
  <1> HIDE DEF document
  <1> QED
    BY <1>2, <1>3, TouchedIsStep DEF RateLesson

\* Handlers that end a stored lesson and read no list.
LEMMA EndingNow ==
    ASSUME LessonsInv, NEW id \in DOMAIN lessons,
           NEW status \in {"completed", "no_show", "cancelled"},
           NEW source \in {"auto", "manual"}, NEW present \in BOOLEAN,
           NEW lesson, lesson = Closed(lessons[id], status, Mark(source, present)),
           \/ Missed(id, lesson)
           \/ lessons' = Save(lessons, id, lesson) /\ stopped' = stopped,
           source = "auto" => lessons[id].status = "scheduled",
           source = "manual" => ~IsPastManualWindow(id),
           UNCHANGED <<requests, closing, rate, now>>
    PROVE  LessonsInv' /\ IsStep(lessons, lessons')
PROOF
  <1>1. lessons[id] \in LessonType /\ rate \in Rates
    BY DEF LessonsInv, DocumentsOK, ClockOK
  <1>2. IsEnd(lesson) /\ lesson.attendance.source = source
    BY <1>1, ClosedIsEnd
  <1>3. EndedByHand(lessons[id]) => source = "manual"
    BY DEF EndedByHand, IsPayable
  <1>4. /\ DOMAIN closing' = Readers
        /\ \A reader \in Readers : \A i \in DOMAIN closing'[reader] :
               i \in DOMAIN closing[reader] /\ closing'[reader][i] = closing[reader][i]
    BY DEF LessonsInv, ClosingOK
  <1>5. UNCHANGED <<requests, rate, now>>
    OBVIOUS
  <1> QED
    BY <1>2, <1>3, <1>4, <1>5, EndingKeepsLessons

LEMMA StudentComesLateStep ==
    ASSUME LessonsInv, NEW id \in DOMAIN lessons, StudentComesLate(id)
    PROVE  LessonsInv' /\ IsStep(lessons, lessons')
PROOF BY EndingNow DEF StudentComesLate

LEMMA MarkAttendanceStep ==
    ASSUME LessonsInv, NEW id \in DOMAIN lessons, NEW present \in BOOLEAN,
           MarkAttendance(id, present)
    PROVE  LessonsInv' /\ IsStep(lessons, lessons')
PROOF
  <1>1. CASE present
    BY <1>1, EndingNow DEF MarkAttendance
  <1>2. CASE ~present
    BY <1>2, EndingNow DEF MarkAttendance
  <1> QED
    BY <1>1, <1>2

\* With notice, the lesson has not begun: it can still be recorded by hand.
LEMMA StudentCancelStep ==
    ASSUME LessonsInv, NEW id \in DOMAIN lessons, StudentCancel(id)
    PROVE  LessonsInv' /\ IsStep(lessons, lessons')
PROOF
  <1>1. id \in LessonIds /\ now \in Nat
    BY DEF LessonsInv, DocumentsOK, ClockOK
  <1>2. Start(id) \in Nat
    BY <1>1, GridAssumption, ClassesAssumption DEF LessonIds, Start, Slots
  <1>3. ~IsPastManualWindow(id)
    BY <1>1, <1>2, ClassesAssumption DEF StudentCancel, HasAdvanceNotice, IsPastManualWindow
  <1> QED
    BY <1>3, EndingNow DEF StudentCancel

\* The rescheduled lesson lands on no document, or on another absence.
LEMMA BookedIsStep ==
    ASSUME DocumentsOK(lessons), NEW id \in DOMAIN lessons, NEW new \in LessonIds,
           new \in DOMAIN lessons => lessons[new].status = "absence"
    PROVE  IsStep(lessons, Save(lessons, new, Replacement("rescheduled", id)))
PROOF
  <1> DEFINE replacement == Replacement("rescheduled", id)
             booked == Save(lessons, new, replacement)
  <1>1. id \in LessonIds
    BY DEF DocumentsOK
  <1>2. /\ replacement \in LessonType /\ IsPaidWhenDue(replacement)
        /\ replacement.status = "scheduled" /\ replacement.payable = "unset"
        /\ replacement.rate = NoRate
    BY <1>1, ReplacementOf
  <1> HIDE DEF replacement
  <1>3. Saves(lessons, booked, new, replacement)
    BY SaveOf
  <1> HIDE DEF booked
  <1>4. /\ DOMAIN booked = DOMAIN lessons \cup {new}
        /\ \A other \in DOMAIN lessons \ {new} : booked[other] = lessons[other]
    BY <1>3 DEF Saves
  <1>5. booked[new] \in LessonType /\ IsPaidWhenDue(booked[new]) /\ booked[new].status = "scheduled"
    <2>1. CASE new \in DOMAIN lessons
      <3>1. /\ lessons[new] \in LessonType /\ IsPaidWhenDue(lessons[new])
            /\ lessons[new].status = "absence"
        BY <2>1 DEF DocumentsOK
      <3>2. booked[new] = Merge(lessons[new], replacement)
        BY <1>3, <2>1 DEF Saves
      <3>3. /\ booked[new] \in LessonType /\ booked[new].status = "scheduled"
            /\ booked[new].payable = lessons[new].payable
        BY <1>2, <3>1, <3>2, MergeOf
      <3> QED
        BY <3>1, <3>3 DEF IsPaidWhenDue, IsPayable
    <2>2. CASE new \notin DOMAIN lessons
      BY <1>2, <1>3, <2>2 DEF Saves
    <2> QED
      BY <2>1, <2>2
  <1>6. DocumentsOK(booked)
    BY <1>4, <1>5 DEF DocumentsOK
  <1>7. ASSUME NEW other \in DOMAIN lessons
        PROVE  /\ IsPayable(lessons[other].status) => booked[other].status # "scheduled"
               /\ EndedByHand(lessons[other]) => booked[other].attendance.source = "manual"
               /\ IsPastManualWindow(other) /\ ~EndedByHand(lessons[other])
                    => ~EndedByHand(booked[other])
    <2>1. CASE other = new
      BY <1>5, <2>1 DEF EndedByHand, IsPayable
    <2>2. CASE other # new
      BY <1>4, <2>2 DEF EndedByHand, IsPayable
    <2> QED
      BY <2>1, <2>2
  <1> QED
    BY <1>4, <1>6, <1>7 DEF IsStep, booked, replacement

\* The lesson that is moved away is nobody's to pay.
LEMMA MovedIsStep ==
    ASSUME DocumentsOK(lessons), NEW id \in DOMAIN lessons, NEW new \in LessonIds,
           NEW booked, IsStep(lessons, booked)
    PROVE  IsStep(lessons, Save(booked, id, Absence(id, new)))
PROOF
  <1> DEFINE absence == Absence(id, new)
             moved == Save(booked, id, absence)
  <1>1. lessons[id] \in LessonType /\ id \in DOMAIN booked /\ booked[id] \in LessonType
    BY DEF DocumentsOK, IsStep
  <1>2. /\ absence \in LessonType /\ absence.status = "absence" /\ absence.payable = "no"
        /\ absence.attendance = lessons[id].attendance
    BY <1>1 DEF Absence, LessonType, Statuses
  <1> HIDE DEF absence
  <1>3. Saves(booked, moved, id, absence)
    BY SaveOf
  <1> HIDE DEF moved
  <1>4. /\ DOMAIN moved = DOMAIN booked /\ moved[id] = Merge(booked[id], absence)
        /\ \A other \in DOMAIN booked \ {id} : moved[other] = booked[other]
    BY <1>1, <1>3 DEF Saves
  <1>5. /\ moved[id] \in LessonType /\ moved[id].status = "absence" /\ moved[id].payable = "no"
        /\ lessons[id].attendance.source # "none" => moved[id].attendance = lessons[id].attendance
    <2> DEFINE stored == booked[id]
    <2> HIDE DEF stored
    <2>1. stored \in LessonType /\ moved[id] = Merge(stored, absence)
      BY <1>1, <1>4 DEF stored
    <2>2. /\ Merge(stored, absence) \in LessonType
          /\ Merge(stored, absence).status = absence.status
          /\ Merge(stored, absence).payable =
                IF absence.payable = "unset" THEN stored.payable ELSE absence.payable
          /\ absence.attendance.source # "none" =>
                Merge(stored, absence).attendance = absence.attendance
      BY <1>2, <2>1, MergeOf
    <2> QED
      BY <1>2, <2>1, <2>2
  <1>6. IsPaidWhenDue(moved[id])
    BY <1>5 DEF IsPaidWhenDue, IsPayable
  <1>7. DocumentsOK(moved)
    BY <1>4, <1>5, <1>6 DEF DocumentsOK, IsStep
  <1>8. ASSUME NEW other \in DOMAIN lessons
        PROVE  /\ IsPayable(lessons[other].status) => moved[other].status # "scheduled"
               /\ EndedByHand(lessons[other]) => moved[other].attendance.source = "manual"
               /\ IsPastManualWindow(other) /\ ~EndedByHand(lessons[other])
                    => ~EndedByHand(moved[other])
    <2>1. CASE other = id
      <3>1. EndedByHand(lessons[id]) => moved[id].attendance.source = "manual"
        BY <1>5 DEF EndedByHand
      <3> QED
        BY <1>5, <2>1, <3>1 DEF EndedByHand, IsPayable
    <2>2. CASE other # id
      BY <1>4, <2>2 DEF IsStep
    <2> QED
      BY <2>1, <2>2
  <1>9. DOMAIN lessons \subseteq DOMAIN moved
    BY <1>4 DEF IsStep
  <1> QED
    BY <1>7, <1>8, <1>9 DEF IsStep, moved, absence

LEMMA ApproveStep ==
    ASSUME LessonsInv, NEW request \in RequestIds, Approve(request)
    PROVE  LessonsInv' /\ IsStep(lessons, lessons')
PROOF
  <1> DEFINE id == requests[request].lesson
             new == RescheduledId(request)
             booked == Save(lessons, new, Replacement("rescheduled", id))
             moved == Save(booked, id, Absence(id, new))
  <1>1. /\ requests[request] \in RequestType /\ id \in DOMAIN lessons
        /\ DocumentsOK(lessons) /\ id \in LessonIds
    BY DEF Approve, Pending, LessonsInv, RequestsOK, DocumentsOK
  <1>2. new \in LessonIds
    BY <1>1 DEF RescheduledId, LessonIds, RequestType, Occupants
  <1>3. /\ ~IsSlotTaken(new.date, new.hour)
        /\ lessons' \in {booked, moved}
        /\ requests' \in {requests, [requests EXCEPT ![request].status = "approved"]}
        /\ stopped' \in {stopped, stopped \cup {id}}
        /\ UNCHANGED <<closing, rate, now>>
    BY DEF Approve
  <1>4. new \in DOMAIN lessons => lessons[new].status = "absence"
    BY <1>3 DEF IsSlotTaken
  <1> HIDE DEF id, new
  <1>5. IsStep(lessons, booked)
    BY <1>1, <1>2, <1>4, BookedIsStep
  <1> HIDE DEF booked
  <1>6. IsStep(lessons, moved)
    BY <1>1, <1>2, <1>5, MovedIsStep
  <1> HIDE DEF moved
  <1>7. IsStep(lessons, lessons')
    BY <1>3, <1>5, <1>6
  <1>8. RequestsOK'
    <2>1. CASE requests' = requests
      BY <1>7, <2>1, RequestsStay DEF LessonsInv
    <2>2. CASE requests' = [requests EXCEPT ![request].status = "approved"]
      <3>1. /\ requests'[request] \in RequestType
            /\ requests'[request].lesson = requests[request].lesson
            /\ DOMAIN requests' = RequestIds
            /\ \A other \in RequestIds \ {request} : requests'[other] = requests[other]
        BY <1>1, <2>2 DEF RequestType, LessonsInv, RequestsOK
      <3> QED
        BY <1>1, <1>7, <3>1 DEF LessonsInv, RequestsOK, IsStep, id
    <2> QED
      BY <1>3, <2>1, <2>2
  <1>9. ClosingOK'
    BY <1>3, <1>7, ListsStay DEF LessonsInv, ClosingOK
  <1>10. ClockOK'
    BY <1>1, <1>3 DEF LessonsInv, ClockOK
  <1>11. DocumentsOK(lessons)'
    BY <1>7 DEF IsStep, DocumentsOK
  <1> QED
    BY <1>7, <1>8, <1>9, <1>10, <1>11 DEF LessonsInv

\* What leaves the documents and the lists alone, and changes requests or clock.
LEMMA RequestRescheduleStep ==
    ASSUME LessonsInv, NEW request \in RequestIds, NEW id \in DOMAIN lessons,
           NEW date \in 0 .. MaxDate, NEW hour \in Slots,
           RequestReschedule(request, id, date, hour)
    PROVE  LessonsInv' /\ IsStep(lessons, lessons')
PROOF
  <1> DEFINE asked == [lesson |-> id, date |-> date, hour |-> hour, status |-> "pending"]
  <1>1. /\ requests' = [requests EXCEPT ![request] = asked]
        /\ UNCHANGED <<lessons, closing, rate, now, stopped>>
    BY DEF RequestReschedule
  <1>2. asked \in RequestType /\ asked.lesson = id
    <2>1. id \in LessonIds /\ date \in Nat
      BY ClassesAssumption DEF LessonsInv, DocumentsOK
    <2> QED
      BY <2>1 DEF RequestType
  <1> HIDE DEF asked
  <1>3. RequestsOK'
    BY <1>1, <1>2 DEF LessonsInv, RequestsOK
  <1>4. DocumentsOK(lessons)' /\ ClosingOK' /\ ClockOK'
    BY <1>1 DEF LessonsInv, DocumentsOK, ClosingOK, ClockOK, IsPastManualWindow, Start
  <1> QED
    BY <1>1, <1>3, <1>4, NothingIsStep DEF LessonsInv

LEMMA RejectStep ==
    ASSUME LessonsInv, NEW request \in RequestIds, Reject(request)
    PROVE  LessonsInv' /\ IsStep(lessons, lessons')
PROOF
  <1>1. /\ requests[request] # NoRequest
        /\ requests' = [requests EXCEPT ![request].status = "rejected"]
        /\ UNCHANGED <<lessons, closing, rate, now, stopped>>
    BY DEF Reject, Pending
  <1>2. /\ requests'[request] \in RequestType
        /\ requests'[request].lesson = requests[request].lesson
        /\ DOMAIN requests' = RequestIds
        /\ \A other \in RequestIds \ {request} : requests'[other] = requests[other]
    BY <1>1 DEF RequestType, LessonsInv, RequestsOK
  <1>3. RequestsOK'
    BY <1>1, <1>2 DEF LessonsInv, RequestsOK
  <1>4. DocumentsOK(lessons)' /\ ClosingOK' /\ ClockOK'
    BY <1>1 DEF LessonsInv, DocumentsOK, ClosingOK, ClockOK, IsPastManualWindow, Start
  <1> QED
    BY <1>1, <1>3, <1>4, NothingIsStep DEF LessonsInv

LEMMA UpdateSettingsStep ==
    ASSUME LessonsInv, NEW value \in Rates, UpdateSettings(value)
    PROVE  LessonsInv' /\ IsStep(lessons, lessons')
PROOF
  <1>1. rate' = value /\ UNCHANGED <<lessons, requests, closing, now, stopped>>
    BY DEF UpdateSettings
  <1>2. DocumentsOK(lessons)' /\ RequestsOK' /\ ClosingOK' /\ ClockOK'
    BY <1>1 DEF LessonsInv, DocumentsOK, RequestsOK, ClosingOK, ClockOK, IsPastManualWindow, Start
  <1> QED
    BY <1>1, <1>2, NothingIsStep DEF LessonsInv

LEMMA TickStep ==
    ASSUME LessonsInv, Tick
    PROVE  LessonsInv' /\ IsStep(lessons, lessons')
PROOF
  <1>1. now' = now + 1 /\ UNCHANGED <<lessons, requests, closing, rate, stopped>> /\ now \in Nat
    BY DEF Tick, LessonsInv, ClockOK
  <1>2. \A id \in LessonIds : IsPastManualWindow(id) => IsPastManualWindow(id)'
    <2> SUFFICES ASSUME NEW id \in LessonIds, IsPastManualWindow(id)
                 PROVE  IsPastManualWindow(id)'
      OBVIOUS
    <2>1. Start(id) \in Nat /\ Start(id)' = Start(id)
      BY GridAssumption, ClassesAssumption DEF LessonIds, Start, Slots
    <2> QED
      BY <1>1, <2>1, ClassesAssumption DEF IsPastManualWindow
  <1>3. ClosingOK'
    BY <1>1, <1>2 DEF LessonsInv, ClosingOK, DocumentsOK
  <1>4. DocumentsOK(lessons)' /\ RequestsOK' /\ ClockOK'
    BY <1>1 DEF LessonsInv, DocumentsOK, RequestsOK, ClockOK
  <1> QED
    BY <1>1, <1>3, <1>4, NothingIsStep DEF LessonsInv

LEMMA OthersStep ==
    ASSUME LessonsInv, UNCHANGED lessonVars
    PROVE  LessonsInv' /\ IsStep(lessons, lessons')
PROOF
  <1>1. DocumentsOK(lessons)' /\ RequestsOK' /\ ClosingOK' /\ ClockOK'
    BY DEF lessonVars, LessonsInv, DocumentsOK, RequestsOK, ClosingOK, ClockOK,
           IsPastManualWindow, Start
  <1> QED
    BY <1>1, NothingIsStep DEF lessonVars, LessonsInv

-----------------------------------------------------------------------------
(* The theorems *)

Inv == GridInv /\ LessonsInv

LEMMA InvStarts == ClassesInit => Inv
PROOF
  <1> SUFFICES ASSUME ClassesInit PROVE Inv
    OBVIOUS
  <1>1. GridInv
    BY GridStarts DEF ClassesInit
  <1>2. /\ lessons = [id \in {} |-> Blank] /\ DOMAIN lessons = {}
        /\ \A reader \in Readers : DOMAIN closing[reader] = {}
        /\ DOMAIN closing = Readers /\ DOMAIN requests = RequestIds
        /\ \A request \in RequestIds : requests[request] = NoRequest
        /\ rate \in Rates /\ now = 0 /\ stopped = {}
    BY DEF ClassesInit
  <1>3. LessonsInv
    BY <1>2 DEF LessonsInv, DocumentsOK, RequestsOK, ClosingOK, ClockOK
  <1> QED
    BY <1>1, <1>3 DEF Inv

\* Every step keeps the invariant and treats the documents as IsStep says.
LEMMA InvStep ==
    ASSUME Inv, [ClassesNext]_vars
    PROVE  Inv' /\ IsStep(lessons, lessons')
PROOF
  <1>1. GridInv /\ LessonsInv
    BY DEF Inv
  <1>2. CASE GridNext /\ UNCHANGED lessonVars
    BY <1>1, <1>2, GridStep, OthersStep DEF Inv
  <1>3. CASE UNCHANGED vars
    <2>1. UNCHANGED gridVars /\ UNCHANGED lessonVars
      BY <1>3 DEF vars, gridVars, lessonVars
    <2> QED
      BY <1>1, <2>1, GridStutters, OthersStep DEF Inv
  <1>4. ASSUME Materialise
        PROVE  UNCHANGED gridVars /\ LessonsInv' /\ IsStep(lessons, lessons')
    <2>1. PICK from \in 0 .. MaxDate, to \in 0 .. MaxDate :
             \/ ListStudentLessons(from, to)
             \/ \E reader \in Readers : ListLessons(reader, from, to)
      BY <1>4 DEF Materialise
    <2>2. UNCHANGED gridVars
      BY <2>1 DEF ListStudentLessons, ListLessons
    <2> QED
      BY <1>1, <2>1, <2>2, ListStudentLessonsStep, ListLessonsStep
  <1>5. ASSUME Attend
        PROVE  UNCHANGED gridVars /\ LessonsInv' /\ IsStep(lessons, lessons')
    <2>1. ASSUME NEW reader \in Readers, NEW id \in DOMAIN closing[reader], CloseOverdue(reader, id)
          PROVE  UNCHANGED gridVars /\ LessonsInv' /\ IsStep(lessons, lessons')
      BY <1>1, <2>1, CloseOverdueStep DEF CloseOverdue
    <2>2. ASSUME NEW reader \in Readers, StopReading(reader)
          PROVE  UNCHANGED gridVars /\ LessonsInv' /\ IsStep(lessons, lessons')
      BY <1>1, <2>2, StopReadingStep DEF StopReading
    <2>3. ASSUME NEW id \in DOMAIN lessons, TeacherJoins(id)
          PROVE  UNCHANGED gridVars /\ LessonsInv' /\ IsStep(lessons, lessons')
      BY <1>1, <2>3, TeacherJoinsStep DEF TeacherJoins
    <2>4. ASSUME NEW id \in DOMAIN lessons, StudentJoins(id)
          PROVE  UNCHANGED gridVars /\ LessonsInv' /\ IsStep(lessons, lessons')
      BY <1>1, <2>4, StudentJoinsStep DEF StudentJoins
    <2>5. ASSUME NEW id \in DOMAIN lessons, StudentComesLate(id)
          PROVE  UNCHANGED gridVars /\ LessonsInv' /\ IsStep(lessons, lessons')
      BY <1>1, <2>5, StudentComesLateStep DEF StudentComesLate
    <2>6. ASSUME NEW id \in DOMAIN lessons, NEW present \in BOOLEAN, MarkAttendance(id, present)
          PROVE  UNCHANGED gridVars /\ LessonsInv' /\ IsStep(lessons, lessons')
      BY <1>1, <2>6, MarkAttendanceStep DEF MarkAttendance
    <2>7. ASSUME NEW id \in DOMAIN lessons, StudentCancel(id)
          PROVE  UNCHANGED gridVars /\ LessonsInv' /\ IsStep(lessons, lessons')
      BY <1>1, <2>7, StudentCancelStep DEF StudentCancel
    <2>8. ASSUME NEW id \in DOMAIN lessons, RateLesson(id)
          PROVE  UNCHANGED gridVars /\ LessonsInv' /\ IsStep(lessons, lessons')
      BY <1>1, <2>8, RateLessonStep DEF RateLesson
    <2> QED
      BY <1>5, <2>1, <2>2, <2>3, <2>4, <2>5, <2>6, <2>7, <2>8 DEF Attend
  <1>6. ASSUME Reschedule
        PROVE  UNCHANGED gridVars /\ LessonsInv' /\ IsStep(lessons, lessons')
    <2>1. ASSUME NEW request \in RequestIds, NEW id \in DOMAIN lessons,
                 NEW date \in 0 .. MaxDate, NEW hour \in Slots,
                 RequestReschedule(request, id, date, hour)
          PROVE  UNCHANGED gridVars /\ LessonsInv' /\ IsStep(lessons, lessons')
      BY <1>1, <2>1, RequestRescheduleStep DEF RequestReschedule
    <2>2. ASSUME NEW request \in RequestIds, Approve(request)
          PROVE  UNCHANGED gridVars /\ LessonsInv' /\ IsStep(lessons, lessons')
      BY <1>1, <2>2, ApproveStep DEF Approve
    <2>3. ASSUME NEW request \in RequestIds, Reject(request)
          PROVE  UNCHANGED gridVars /\ LessonsInv' /\ IsStep(lessons, lessons')
      BY <1>1, <2>3, RejectStep DEF Reject
    <2> QED
      BY <1>6, <2>1, <2>2, <2>3 DEF Reschedule
  <1>7. ASSUME NEW value \in Rates, UpdateSettings(value)
        PROVE  UNCHANGED gridVars /\ LessonsInv' /\ IsStep(lessons, lessons')
    BY <1>1, <1>7, UpdateSettingsStep DEF UpdateSettings
  <1>8. ASSUME Tick
        PROVE  UNCHANGED gridVars /\ LessonsInv' /\ IsStep(lessons, lessons')
    BY <1>1, <1>8, TickStep DEF Tick
  <1>9. ASSUME UNCHANGED gridVars, LessonsInv', IsStep(lessons, lessons')
        PROVE  Inv' /\ IsStep(lessons, lessons')
    BY <1>1, <1>9, GridStutters DEF Inv
  <1> QED
    BY <1>2, <1>3, <1>4, <1>5, <1>6, <1>7, <1>8, <1>9 DEF ClassesNext

\* The inductive invariant holds in every behaviour.
THEOREM InvIsInvariant == ClassesSpec => []Inv
PROOF
  <1>1. ClassesInit => Inv
    BY InvStarts
  <1>2. Inv /\ [ClassesNext]_vars => Inv'
    BY InvStep
  <1> QED
    BY <1>1, <1>2, PTL DEF ClassesSpec

\* ClassesTypeOK holds of every grid, every set of students and every window.
THEOREM LessonsAreTyped == ClassesSpec => []ClassesTypeOK
PROOF
  <1>1. Inv => ClassesTypeOK
    BY DEF Inv, GridInv, GridTypeOK, LessonsInv, DocumentsOK, RequestsOK, ClosingOK, ClockOK,
           ClassesTypeOK
  <1> QED
    BY <1>1, InvIsInvariant, PTL

\* No half hour of any grid points at a block that is gone: assign and free of
\* agenda.service.ts keep both halves of a block together.
THEOREM GridStaysWhole == ClassesSpec => []GridIsWhole
PROOF
  <1>1. Inv => GridIsWhole
    BY DEF Inv, GridInv
  <1> QED
    BY <1>1, InvIsInvariant, PTL

\* The teacher is paid for what a lesson became, whichever handler ended it and
\* however stale the list the automatic closing works from.
THEOREM LessonsArePaidWhenDue == ClassesSpec => []PaidWhenDue
PROOF
  <1>1. Inv => PaidWhenDue
    BY DEF Inv, LessonsInv, DocumentsOK, IsPaidWhenDue, PaidWhenDue
  <1> QED
    BY <1>1, InvIsInvariant, PTL

\* No handler puts a paid lesson back on the agenda, an approved reschedule included,
\* and the automatic closing never replaces what a person recorded of it, for any number
\* of list requests under way.
THEOREM PaidLessonsStayClosed == ClassesSpec => ClosedStaysClosed
PROOF
  <1>1. Inv /\ [ClassesNext]_vars =>
           [\A id \in DOMAIN lessons : IsPayable(lessons[id].status) =>
              /\ lessons'[id].status # "scheduled"
              /\ lessons[id].attendance.source = "manual"
                 => lessons'[id].attendance.source = "manual"]_vars
    BY InvStep DEF IsStep, EndedByHand
  <1> QED
    BY <1>1, InvIsInvariant, PTL DEF ClassesSpec, ClosedStaysClosed

\* What a month owes, its lines and what was stored at each closing agree for any days,
\* rates and documents: summary and detail of billing-summary.service.ts judge the status
\* and fall back on the rate of the day, and every payable lesson has its own price.
THEOREM ClosingsAddUp == ClassesSpec => []ClosingAddsUp
PROOF
  <1>1. Inv => ClosingAddsUp
    <2> SUFFICES ASSUME Inv PROVE ClosingAddsUp
      OBVIOUS
    <2>1. DocumentsOK(lessons)
      BY DEF Inv, LessonsInv
    <2>2. SUFFICES ASSUME NEW from \in 0 .. MaxDate, NEW to \in 0 .. MaxDate
                   PROVE  LET lines == Detail(from, to)  closed == Summary(from, to)
                              stored == {id \in DOMAIN lines : lessons[id].payable = "yes"}
                          IN  /\ closed.payable = Cardinality(stored)
                              /\ \A value \in Rates :
                                    /\ {id \in DOMAIN lines : lines[id] = value} =
                                          {id \in stored : lessons[id].rate = value}
                                    /\ closed.total[value] =
                                          Cardinality({id \in stored : lessons[id].rate = value})
      BY DEF ClosingAddsUp
    <2> DEFINE lines == Detail(from, to)
               payable == {id \in Within(from, to) : IsPayable(lessons[id].status)}
               stored == {id \in DOMAIN lines : lessons[id].payable = "yes"}
               owed(id) == IF lessons[id].rate = NoRate THEN rate ELSE lessons[id].rate
    <2>3. DOMAIN lines = Within(from, to) /\ Within(from, to) \subseteq DOMAIN lessons
      BY DEF Detail, Within
    <2>4. ASSUME NEW id \in Within(from, to)
          PROVE  /\ lessons[id].payable = "yes" <=> IsPayable(lessons[id].status)
                 /\ IsPayable(lessons[id].status) => lessons[id].rate # NoRate
                 /\ lines[id] = Line(lessons[id])
      BY <2>1, <2>3 DEF DocumentsOK, IsPaidWhenDue, Detail
    <2>5. stored = payable
      BY <2>3, <2>4
    <2>6. Summary(from, to).payable = Cardinality(payable)
      BY DEF Summary
    <2>7. \A value \in Rates :
             Summary(from, to).total[value] = Cardinality({id \in payable : owed(id) = value})
      BY DEF Summary
    <2> HIDE DEF lines
    <2>8. ASSUME NEW value \in Rates
          PROVE  /\ {id \in DOMAIN lines : lines[id] = value} = {id \in stored : lessons[id].rate = value}
                 /\ {id \in payable : owed(id) = value} = {id \in stored : lessons[id].rate = value}
      <3>1. value # NoRate
        BY ClassesAssumption
      <3>2. \A id \in Within(from, to) : lines[id] = value <=> id \in stored /\ lessons[id].rate = value
        BY <2>3, <2>4, <3>1 DEF Line
      <3>3. \A id \in payable : owed(id) = lessons[id].rate
        BY <2>4
      <3> HIDE DEF payable, owed
      <3> QED
        BY <2>3, <2>5, <3>2, <3>3
    <2> HIDE DEF payable, owed, stored
    <2>9. /\ Summary(from, to).payable = Cardinality(stored)
          /\ \A value \in Rates :
                /\ {id \in DOMAIN lines : lines[id] = value} = {id \in stored : lessons[id].rate = value}
                /\ Summary(from, to).total[value] = Cardinality({id \in stored : lessons[id].rate = value})
      BY <2>5, <2>6, <2>7, <2>8
    <2> QED
      BY <2>9 DEF lines, stored
  <1> QED
    BY <1>1, InvIsInvariant, PTL

-----------------------------------------------------------------------------
(* Makeups and prices; only the automatic closing needs that one list is read *)

MakesUp(document, id) == document.origin = "makeup" /\ document.from = id

\* The makeups of a lesson, as they are stored or as a list still to close has
\* them: what is listed is written back.
Listing(other, id) ==
    \E reader \in Readers : other \in DOMAIN closing[reader] /\ MakesUp(closing[reader][other], id)
MadeFor(id) == {other \in DOMAIN lessons : MakesUp(lessons[other], id) \/ Listing(other, id)}

\* A document names lessons that exist.
IsLinked(document) ==
    /\ {document.to, document.from} \subseteq DOMAIN lessons \cup {NoLesson}
    /\ document.origin = "makeup" => document.from # NoLesson

LinksOK ==
    /\ \A id \in DOMAIN lessons : IsLinked(lessons[id])
    /\ \A reader \in Readers : \A id \in DOMAIN closing[reader] : IsLinked(closing[reader][id])

MakeupsOK ==
    \A id \in DOMAIN lessons \ stopped :
        /\ lessons[id].to = NoLesson => MadeFor(id) = {}
        /\ \A a, b \in MadeFor(id) : a = b

\* What is listed has the price it was listed with, and no makeup that the list
\* does not know of.
ListedOK ==
    \A reader \in Readers : \A id \in DOMAIN closing[reader] :
        /\ closing[reader][id].rate = lessons[id].rate
        /\ closing[reader][id].to = NoLesson /\ id \notin stopped => MadeFor(id) = {}

\* What EveryMissIsReplaced says of one lesson.
IsMissed(status) == status \in {"no_show", "cancelled"}
IsReplaced(id) ==
    id.who \in Students /\ IsMissed(lessons[id].status) /\ MakeupSlot[id.who] # NoSlot
    => \/ lessons[id].to \in DOMAIN lessons
       \/ FreeDates(lessons, id, MakeupSlot[id.who]) = {}

TraceInv == LinksOK /\ MakeupsOK /\ ListedOK /\ EveryMissIsReplaced

\* Makeups after a step that ends the lesson: no more than before, or its first.
FirstMakeup(id) ==
    MadeFor(id) = {} /\ lessons'[id].to # NoLesson /\ \E other : MadeFor(id)' \subseteq {other}

\* What a step that ends some lessons does to the others, to the links and to
\* the lists.
Traced(ended) ==
    /\ DOMAIN lessons \subseteq DOMAIN lessons' /\ stopped \subseteq stopped'
    /\ \A id \in DOMAIN lessons' : IsLinked(lessons[id])'
    /\ \A id \in DOMAIN lessons :
          /\ lessons[id].rate # NoRate \/ id \notin ended => lessons'[id].rate = lessons[id].rate
          /\ lessons[id].to # NoLesson => lessons'[id].to # NoLesson
    /\ \A id \in DOMAIN lessons' \ ended : IsMissed(lessons'[id].status) =>
          id \in DOMAIN lessons /\ lessons'[id].status = lessons[id].status /\ lessons'[id].to = lessons[id].to
    /\ \A id \in DOMAIN lessons' : id \notin ended => MadeFor(id)' \subseteq MadeFor(id)
    /\ \A id \in ended \ stopped' : (MadeFor(id)' \subseteq MadeFor(id) \/ FirstMakeup(id)) /\ IsReplaced(id)'
    /\ \A reader \in Readers : \A id \in DOMAIN closing'[reader] :
          /\ id \in DOMAIN lessons' \ ended
          /\ \/ id \in DOMAIN closing[reader] /\ closing'[reader][id] = closing[reader][id]
             \/ closing'[reader][id] = lessons'[id]

RatesKept ==
    \A id \in DOMAIN lessons : lessons[id].rate # NoRate => lessons'[id].rate = lessons[id].rate

\* A lesson that is not there has no makeup.
LEMMA NoneForNobody ==
    ASSUME LinksOK, NEW id, id \notin DOMAIN lessons
    PROVE  MadeFor(id) = {}
PROOF
  <1> SUFFICES ASSUME NEW other \in MadeFor(id) PROVE FALSE
    OBVIOUS
  <1>1. CASE MakesUp(lessons[other], id)
    BY <1>1 DEF MadeFor, LinksOK, IsLinked, MakesUp
  <1>2. CASE Listing(other, id)
    BY <1>2 DEF Listing, LinksOK, IsLinked, MakesUp
  <1> QED
    BY <1>1, <1>2 DEF MadeFor

\* Once every week is taken, it stays so: documents are never removed.
LEMMA TakenStaysTaken ==
    ASSUME NEW docs, NEW new, DOMAIN docs \subseteq DOMAIN new, NEW id, NEW slot,
           FreeDates(docs, id, slot) = {}
    PROVE  FreeDates(new, id, slot) = {}
PROOF BY DEF FreeDates

LEMMA TracedKeeps ==
    ASSUME TraceInv, NEW ended \in SUBSET DOMAIN lessons, Traced(ended),
           \A reader \in Readers : DOMAIN closing[reader] \subseteq DOMAIN lessons
    PROVE  TraceInv' /\ RatesKept
PROOF
  <1>1. RatesKept
    BY DEF Traced, RatesKept
  <1>2. LinksOK'
    <2>1. ASSUME NEW reader \in Readers, NEW id \in DOMAIN closing'[reader]
          PROVE  IsLinked(closing[reader][id])'
      <3>1. CASE id \in DOMAIN closing[reader] /\ closing'[reader][id] = closing[reader][id]
        <4>1. IsLinked(closing[reader][id])
          BY <3>1 DEF TraceInv, LinksOK
        <4> QED
          BY <3>1, <4>1 DEF Traced, IsLinked
      <3>2. CASE closing'[reader][id] = lessons'[id]
        BY <2>1, <3>2 DEF Traced, IsLinked
      <3> QED
        BY <2>1, <3>1, <3>2 DEF Traced
    <2> QED
      BY <2>1 DEF Traced, LinksOK
  <1>3. MakeupsOK'
    <2>1. SUFFICES ASSUME NEW id \in DOMAIN lessons' \ stopped'
                   PROVE  /\ lessons'[id].to = NoLesson => MadeFor(id)' = {}
                          /\ \A a, b \in MadeFor(id)' : a = b
      BY DEF MakeupsOK
    <2>2. CASE MadeFor(id)' \subseteq MadeFor(id)
      <3>1. CASE id \in DOMAIN lessons
        <4>1. id \notin stopped /\ (lessons'[id].to = NoLesson => lessons[id].to = NoLesson)
          BY <3>1 DEF Traced
        <4> QED
          BY <2>2, <3>1, <4>1 DEF TraceInv, MakeupsOK
      <3>2. CASE id \notin DOMAIN lessons
        BY <2>2, <3>2, NoneForNobody DEF TraceInv
      <3> QED
        BY <3>1, <3>2
    <2>3. CASE id \in ended /\ FirstMakeup(id)
      BY <2>3 DEF FirstMakeup
    <2> QED
      BY <2>2, <2>3 DEF Traced
  <1>4. ListedOK'
    <2>1. SUFFICES ASSUME NEW reader \in Readers, NEW id \in DOMAIN closing'[reader]
                   PROVE  /\ closing'[reader][id].rate = lessons'[id].rate
                          /\ closing'[reader][id].to = NoLesson /\ id \notin stopped' => MadeFor(id)' = {}
      BY DEF ListedOK
    <2>2. id \in DOMAIN lessons' \ ended
      BY <2>1 DEF Traced
    <2>3. CASE id \in DOMAIN closing[reader] /\ closing'[reader][id] = closing[reader][id]
      <3>1. /\ closing[reader][id].rate = lessons[id].rate
            /\ closing[reader][id].to = NoLesson /\ id \notin stopped => MadeFor(id) = {}
        BY <2>3 DEF TraceInv, ListedOK
      <3>2. id \in DOMAIN lessons
        BY <2>3
      <3>3. lessons'[id].rate = lessons[id].rate /\ MadeFor(id)' \subseteq MadeFor(id) /\ stopped \subseteq stopped'
        BY <2>2, <3>2 DEF Traced
      <3> QED
        BY <2>3, <3>1, <3>3
    <2>4. CASE closing'[reader][id] = lessons'[id]
      BY <1>3, <2>2, <2>4 DEF MakeupsOK
    <2> QED
      BY <2>1, <2>3, <2>4 DEF Traced
  <1>5. EveryMissIsReplaced'
    <2>1. SUFFICES ASSUME NEW id \in DOMAIN lessons' \ stopped' PROVE IsReplaced(id)'
      BY DEF EveryMissIsReplaced, IsReplaced, IsMissed
    <2>2. CASE id \in ended
      BY <2>1, <2>2 DEF Traced
    <2>3. CASE id \notin ended /\ IsMissed(lessons'[id].status)
      <3>1. /\ id \in DOMAIN lessons \ stopped
            /\ lessons'[id].status = lessons[id].status /\ lessons'[id].to = lessons[id].to
            /\ DOMAIN lessons \subseteq DOMAIN lessons'
        BY <2>1, <2>3 DEF Traced
      <3>2. IsReplaced(id)
        BY <3>1 DEF TraceInv, EveryMissIsReplaced, IsReplaced, IsMissed
      <3> QED
        BY <3>1, <3>2, TakenStaysTaken DEF IsReplaced
    <2> QED
      BY <2>2, <2>3 DEF IsReplaced
  <1> QED
    BY <1>1, <1>2, <1>3, <1>4, <1>5 DEF TraceInv

\* What is left to close is as it was listed, or was listed just now.
Lists(ended) ==
    \A reader \in Readers : \A id \in DOMAIN closing'[reader] :
        /\ id \in DOMAIN lessons' \ ended
        /\ \/ id \in DOMAIN closing[reader] /\ closing'[reader][id] = closing[reader][id]
           \/ closing'[reader][id] = lessons'[id]

\* The makeups of a lesson are those it had, stored or listed, and the ones that
\* are new in the documents.
LEMMA MakeupsAfter ==
    ASSUME LessonsInv, NEW ended, Lists(ended), NEW id, NEW more,
           \A other \in DOMAIN lessons' : MakesUp(lessons'[other], id) => other \in MadeFor(id) \cup more
    PROVE  MadeFor(id)' \subseteq MadeFor(id) \cup more
PROOF
  <1> SUFFICES ASSUME NEW other \in MadeFor(id)' PROVE other \in MadeFor(id) \cup more
    OBVIOUS
  <1>1. other \in DOMAIN lessons' /\ (MakesUp(lessons'[other], id) \/ Listing(other, id)')
    BY DEF MadeFor, MakesUp
  <1>2. CASE Listing(other, id)'
    <2>1. PICK reader \in Readers : other \in DOMAIN closing'[reader] /\ MakesUp(closing'[reader][other], id)
      BY <1>2 DEF Listing, MakesUp
    <2>2. CASE other \in DOMAIN closing[reader] /\ closing'[reader][other] = closing[reader][other]
      BY <2>1, <2>2 DEF LessonsInv, ClosingOK, MadeFor, Listing
    <2>3. CASE closing'[reader][other] = lessons'[other]
      BY <1>1, <2>1, <2>3
    <2> QED
      BY <2>1, <2>2, <2>3 DEF Lists
  <1> QED
    BY <1>1, <1>2

\* A step that neither ends nor moves a lesson, whatever it lists.
Quiet ==
    /\ DOMAIN lessons \subseteq DOMAIN lessons' /\ stopped' = stopped
    /\ \A id \in DOMAIN lessons :
          /\ lessons'[id].to = lessons[id].to /\ lessons'[id].from = lessons[id].from
          /\ lessons'[id].origin = lessons[id].origin /\ lessons'[id].rate = lessons[id].rate
          /\ lessons'[id].status = lessons[id].status
    /\ \A id \in DOMAIN lessons' \ DOMAIN lessons :
          /\ lessons'[id].to = NoLesson /\ lessons'[id].from = NoLesson
          /\ lessons'[id].origin # "makeup" /\ lessons'[id].status = "scheduled"
    /\ Lists({})

LEMMA QuietIsTraced ==
    ASSUME LessonsInv, LinksOK, Quiet
    PROVE  Traced({})
PROOF
  <1>1. /\ DOMAIN lessons \subseteq DOMAIN lessons' /\ stopped' = stopped /\ Lists({})
    BY DEF Quiet
  <1>2. ASSUME NEW id \in DOMAIN lessons' PROVE IsLinked(lessons[id])'
    <2>1. CASE id \in DOMAIN lessons
      <3>1. IsLinked(lessons[id])
        BY <2>1 DEF LinksOK
      <3> QED
        BY <2>1, <3>1 DEF Quiet, IsLinked
    <2>2. CASE id \notin DOMAIN lessons
      BY <1>2, <2>2 DEF Quiet, IsLinked
    <2> QED
      BY <2>1, <2>2
  <1>3. \A id \in DOMAIN lessons :
           /\ lessons'[id].rate = lessons[id].rate
           /\ lessons[id].to # NoLesson => lessons'[id].to # NoLesson
    BY DEF Quiet
  <1>4. \A id \in DOMAIN lessons' : IsMissed(lessons'[id].status) =>
           id \in DOMAIN lessons /\ lessons'[id].status = lessons[id].status /\ lessons'[id].to = lessons[id].to
    BY DEF Quiet, IsMissed
  <1>5. ASSUME NEW id \in DOMAIN lessons' PROVE MadeFor(id)' \subseteq MadeFor(id)
    <2>1. \A other \in DOMAIN lessons' : MakesUp(lessons'[other], id) => other \in MadeFor(id) \cup {}
      BY DEF Quiet, MakesUp, MadeFor
    <2> QED
      BY <1>1, <2>1, MakeupsAfter
  <1>6. \A reader \in Readers : \A id \in DOMAIN closing'[reader] :
           /\ id \in DOMAIN lessons'
           /\ \/ id \in DOMAIN closing[reader] /\ closing'[reader][id] = closing[reader][id]
              \/ closing'[reader][id] = lessons'[id]
    BY <1>1 DEF Lists
  <1> QED
    BY <1>1, <1>2, <1>3, <1>4, <1>5, <1>6 DEF Traced

\* What a merge keeps and replaces of the links.
LEMMA MergeLinks ==
    ASSUME NEW stored \in LessonType, NEW document \in LessonType
    PROVE  /\ Merge(stored, document).to = IF document.to = NoLesson THEN stored.to ELSE document.to
           /\ Merge(stored, document).from = IF document.from = NoLesson THEN stored.from ELSE document.from
           /\ Merge(stored, document).origin = document.origin
PROOF
  <1> DEFINE merged == Merge(stored, document)
  <1>1. /\ {"to", "from", "origin"} \subseteq DOMAIN Blank
        /\ Blank.to = NoLesson /\ Blank.from = NoLesson /\ Blank.origin = "none"
    BY DEF Blank
  <1>2. \A f \in DOMAIN Blank : merged[f] = IF document[f] = Blank[f] THEN stored[f] ELSE document[f]
    BY DEF Merge
  <1>3. document.origin # "none"
    BY DEF LessonType
  <1> HIDE DEF merged
  <1>4. /\ merged.to = IF document.to = NoLesson THEN stored.to ELSE document.to
        /\ merged.from = IF document.from = NoLesson THEN stored.from ELSE document.from
        /\ merged.origin = document.origin
    BY <1>1, <1>2, <1>3
  <1> QED
    BY <1>4 DEF merged

LEMMA ReplacementLinks ==
    ASSUME NEW origin, NEW id
    PROVE  /\ Replacement(origin, id).to = NoLesson /\ Replacement(origin, id).from = id
           /\ Replacement(origin, id).origin = origin
PROOF BY DEF Replacement, Blank

-----------------------------------------------------------------------------
(* A lesson that ends, and its makeup *)

\* What a handler is about to write of a lesson: the price and the links the
\* document has, or had when it was listed.
Fits(id, lesson) ==
    /\ lessons[id].rate # NoRate => lesson.rate = lessons[id].rate
    /\ IsLinked(lesson)
    /\ lesson.to = NoLesson /\ id \notin stopped => MadeFor(id) = {}
    /\ \A other : MakesUp(lesson, other) => id \in MadeFor(other)

\* The documents after a lesson ended, with the makeups that were booked.
EndLinks(new, id, lesson, more) ==
    /\ DOMAIN new = DOMAIN lessons \cup more
    /\ \A other \in DOMAIN lessons \ {id} : new[other] = lessons[other]
    /\ \A other \in more : new[other] = Replacement("makeup", id)
    /\ new[id].rate = lesson.rate /\ new[id].status = lesson.status
    /\ new[id].origin = lesson.origin
    /\ new[id].from = IF lesson.from = NoLesson THEN lessons[id].from ELSE lesson.from

LEMMA EndIsTraced ==
    ASSUME LessonsInv, TraceInv, NEW id \in DOMAIN lessons, NEW lesson, Fits(id, lesson),
           NEW more, more \cap DOMAIN lessons = {}, EndLinks(lessons', id, lesson, more),
           stopped \subseteq stopped', Lists({id}),
           lessons'[id].to \in DOMAIN lessons' \cup {NoLesson},
           lessons[id].to # NoLesson => lessons'[id].to # NoLesson,
           id \notin stopped' =>
               /\ IsReplaced(id)'
               /\ more # {} => lesson.to = NoLesson /\ lessons'[id].to # NoLesson /\ \E m : more = {m}
    PROVE  Traced({id})
PROOF
  <1>1. id \in LessonIds /\ id # NoLesson
    BY ClassesAssumption DEF LessonsInv, DocumentsOK
  <1>2. \A m \in more : /\ lessons'[m].to = NoLesson /\ lessons'[m].from = id
                        /\ lessons'[m].origin = "makeup" /\ lessons'[m].status = "scheduled"
    BY <1>1, ReplacementOf, ReplacementLinks DEF EndLinks
  <1>3. /\ DOMAIN lessons' = DOMAIN lessons \cup more
        /\ \A other \in DOMAIN lessons \ {id} : lessons'[other] = lessons[other]
        /\ lessons'[id].rate = lesson.rate /\ lessons'[id].origin = lesson.origin
        /\ lessons'[id].from = IF lesson.from = NoLesson THEN lessons[id].from ELSE lesson.from
    BY DEF EndLinks
  <1>4. ASSUME NEW other \in DOMAIN lessons' PROVE IsLinked(lessons[other])'
    <2>1. CASE other = id
      <3>1. IsLinked(lessons[id]) /\ IsLinked(lesson)
        BY DEF TraceInv, LinksOK, Fits
      <3>2. lessons'[id].from \in DOMAIN lessons' \cup {NoLesson}
        BY <1>3, <3>1 DEF IsLinked
      <3>3. lessons'[id].origin = "makeup" => lessons'[id].from # NoLesson
        BY <1>3, <3>1 DEF IsLinked
      <3> QED
        BY <2>1, <3>2, <3>3 DEF IsLinked
    <2>2. CASE other \in DOMAIN lessons \ {id}
      <3>1. IsLinked(lessons[other])
        BY <2>2 DEF TraceInv, LinksOK
      <3> QED
        BY <1>3, <2>2, <3>1 DEF IsLinked
    <2>3. CASE other \in more
      BY <1>1, <1>2, <1>3, <2>3 DEF IsLinked
    <2> QED
      BY <1>3, <1>4, <2>1, <2>2, <2>3
  <1>5. ASSUME NEW for, NEW other \in DOMAIN lessons', MakesUp(lessons'[other], for), other \notin more
        PROVE  other \in MadeFor(for)
    <2>1. CASE other = id
      <3>1. lesson.origin = "makeup" /\ lesson.from # NoLesson /\ lesson.from = for
        BY <1>3, <1>5, <2>1 DEF MakesUp, Fits, IsLinked
      <3>2. MakesUp(lesson, for)
        BY <3>1 DEF MakesUp
      <3> QED
        BY <2>1, <3>2 DEF Fits
    <2>2. CASE other # id
      BY <1>3, <1>5, <2>2 DEF MadeFor
    <2> QED
      BY <2>1, <2>2
  <1>6. ASSUME NEW other \in DOMAIN lessons', other # id PROVE MadeFor(other)' \subseteq MadeFor(other)
    <2>1. \A m \in DOMAIN lessons' : MakesUp(lessons'[m], other) => m \in MadeFor(other) \cup {}
      BY <1>2, <1>5, <1>6 DEF MakesUp
    <2>2. MadeFor(other)' \subseteq MadeFor(other) \cup {}
      BY <2>1, MakeupsAfter
    <2> QED
      BY <2>2
  <1>7. MadeFor(id)' \subseteq MadeFor(id) \cup more
    <2>1. \A m \in DOMAIN lessons' : MakesUp(lessons'[m], id) => m \in MadeFor(id) \cup more
      BY <1>5
    <2> QED
      BY <2>1, MakeupsAfter
  <1>8. ASSUME id \notin stopped' PROVE (MadeFor(id)' \subseteq MadeFor(id) \/ FirstMakeup(id)) /\ IsReplaced(id)'
    <2>1. CASE more = {}
      BY <1>7, <1>8, <2>1
    <2>2. CASE more # {}
      <3>1. MadeFor(id) = {}
        BY <1>8, <2>2 DEF Fits
      <3> QED
        BY <1>7, <1>8, <2>2, <3>1 DEF FirstMakeup
    <2> QED
      BY <2>1, <2>2
  <1>9. \A other \in DOMAIN lessons' \ {id} : IsMissed(lessons'[other].status) =>
           /\ other \in DOMAIN lessons /\ lessons'[other].status = lessons[other].status
           /\ lessons'[other].to = lessons[other].to
    BY <1>2, <1>3 DEF IsMissed
  <1>10. \A other \in DOMAIN lessons :
            /\ lessons[other].rate # NoRate \/ other \notin {id} => lessons'[other].rate = lessons[other].rate
            /\ lessons[other].to # NoLesson => lessons'[other].to # NoLesson
    BY <1>3 DEF Fits
  <1>11. \A reader \in Readers : \A other \in DOMAIN closing'[reader] :
            /\ other \in DOMAIN lessons' \ {id}
            /\ \/ other \in DOMAIN closing[reader] /\ closing'[reader][other] = closing[reader][other]
               \/ closing'[reader][other] = lessons'[other]
    BY DEF Lists
  <1> QED
    BY <1>3, <1>4, <1>6, <1>8, <1>9, <1>10, <1>11 DEF Traced

\* Saving how a lesson ended, and what it keeps of the links.
LEMMA SavedLinks ==
    ASSUME LessonsInv, NEW id \in DOMAIN lessons, NEW lesson, IsEnd(lesson)
    PROVE  /\ EndLinks(Save(lessons, id, lesson), id, lesson, {})
           /\ Save(lessons, id, lesson)[id] \in LessonType
           /\ Save(lessons, id, lesson)[id].to = IF lesson.to = NoLesson THEN lessons[id].to ELSE lesson.to
PROOF
  <1> DEFINE saved == Save(lessons, id, lesson)
  <1>1. lessons[id] \in LessonType /\ lesson \in LessonType /\ lesson.rate # NoRate
    BY DEF LessonsInv, DocumentsOK, IsEnd
  <1>2. Saves(lessons, saved, id, lesson)
    BY SaveOf
  <1> HIDE DEF saved
  <1>3. /\ DOMAIN saved = DOMAIN lessons /\ saved[id] = Merge(lessons[id], lesson)
        /\ \A other \in DOMAIN lessons \ {id} : saved[other] = lessons[other]
    BY <1>2 DEF Saves
  <1>4. /\ saved[id] \in LessonType /\ saved[id].status = lesson.status /\ saved[id].rate = lesson.rate
    BY <1>1, <1>3, MergeOf
  <1>5. /\ saved[id].origin = lesson.origin
        /\ saved[id].from = IF lesson.from = NoLesson THEN lessons[id].from ELSE lesson.from
        /\ saved[id].to = IF lesson.to = NoLesson THEN lessons[id].to ELSE lesson.to
    BY <1>1, <1>3, MergeLinks
  <1>6. EndLinks(saved, id, lesson, {})
    BY <1>3, <1>4, <1>5 DEF EndLinks
  <1> QED
    BY <1>4, <1>5, <1>6 DEF saved

\* The makeup is one document more.
LEMMA BookedLinks ==
    ASSUME NEW id \in DOMAIN lessons, NEW closed, NEW lesson, EndLinks(closed, id, lesson, {}),
           NEW makeup, makeup \notin DOMAIN closed
    PROVE  /\ EndLinks(Save(closed, makeup, Replacement("makeup", id)), id, lesson, {makeup})
           /\ Save(closed, makeup, Replacement("makeup", id))[id] = closed[id]
PROOF
  <1> DEFINE document == Replacement("makeup", id)
             booked == Save(closed, makeup, document)
  <1>1. Saves(closed, booked, makeup, document)
    BY SaveOf
  <1> HIDE DEF document, booked
  <1>2. /\ DOMAIN booked = DOMAIN closed \cup {makeup} /\ booked[makeup] = document
        /\ \A other \in DOMAIN closed \ {makeup} : booked[other] = closed[other]
    BY <1>1 DEF Saves
  <1>3. DOMAIN closed = DOMAIN lessons
    BY DEF EndLinks
  <1>4. booked[id] = closed[id]
    BY <1>2, <1>3
  <1>5. /\ \A other \in DOMAIN lessons \ {id} : booked[other] = lessons[other]
        /\ DOMAIN booked = DOMAIN lessons \cup {makeup}
    BY <1>2, <1>3 DEF EndLinks
  <1>6. EndLinks(booked, id, lesson, {makeup})
    BY <1>2, <1>4, <1>5 DEF EndLinks, document
  <1> QED
    BY <1>4, <1>6 DEF booked, document

\* The link to the makeup changes nothing else.
LEMMA LinkedLinks ==
    ASSUME NEW id \in DOMAIN lessons, NEW booked, booked[id] \in LessonType, NEW lesson, IsEnd(lesson),
           NEW more, EndLinks(booked, id, lesson, more), id \notin more, NEW makeup \in LessonIds
    PROVE  /\ EndLinks(Save(booked, id, [lesson EXCEPT !.to = makeup]), id, lesson, more)
           /\ Save(booked, id, [lesson EXCEPT !.to = makeup])[id].to = makeup
PROOF
  <1> DEFINE link == [lesson EXCEPT !.to = makeup]
             linked == Save(booked, id, link)
  <1>1. IsEnd(link) /\ link.status = lesson.status
    BY LinkedEnd
  <1>2. /\ lesson \in LessonType /\ link \in LessonType /\ link.rate # NoRate
        /\ link.to = makeup /\ link.to # NoLesson /\ link.from = lesson.from
        /\ link.origin = lesson.origin /\ link.rate = lesson.rate
    BY <1>1, ClassesAssumption DEF IsEnd, LessonType
  <1>3. Saves(booked, linked, id, link) /\ id \in DOMAIN booked
    BY SaveOf DEF EndLinks
  <1> HIDE DEF link, linked
  <1>4. /\ DOMAIN linked = DOMAIN booked /\ linked[id] = Merge(booked[id], link)
        /\ \A other \in DOMAIN booked \ {id} : linked[other] = booked[other]
    BY <1>3 DEF Saves
  <1>5. linked[id].status = lesson.status /\ linked[id].rate = lesson.rate
    BY <1>1, <1>2, <1>4, MergeOf
  <1>6. /\ linked[id].origin = lesson.origin /\ linked[id].to = makeup
        /\ linked[id].from = IF lesson.from = NoLesson THEN booked[id].from ELSE lesson.from
    BY <1>2, <1>4, MergeLinks
  <1>7. EndLinks(linked, id, lesson, more)
    BY <1>4, <1>5, <1>6 DEF EndLinks
  <1> QED
    BY <1>6, <1>7 DEF link, linked

LEMMA MissedIsTraced ==
    ASSUME LessonsInv, TraceInv, NEW id \in DOMAIN lessons, NEW lesson, IsEnd(lesson), Fits(id, lesson),
           Lists({id}), Missed(id, lesson)
    PROVE  Traced({id})
PROOF
  <1> DEFINE closed == Save(lessons, id, lesson)
             makeup == MakeupId(closed, id)
             booked == Save(closed, makeup, Replacement("makeup", id))
             linked == Save(booked, id, [lesson EXCEPT !.to = makeup])
             gets == GetsMakeup(closed, id, lesson)
  <1>1. /\ EndLinks(closed, id, lesson, {}) /\ closed[id] \in LessonType
        /\ closed[id].to = IF lesson.to = NoLesson THEN lessons[id].to ELSE lesson.to
        /\ DOMAIN closed = DOMAIN lessons
    BY SavedLinks DEF EndLinks
  <1>2. \/ gets /\ lessons' = linked /\ stopped' = stopped
        \/ gets /\ lessons' \in {closed, booked} /\ stopped' = stopped \cup {id}
        \/ ~gets /\ lessons' = closed /\ stopped' = stopped
    BY DEF Missed
  <1>3. id \in LessonIds /\ IsLinked(lesson) /\ IsLinked(lessons[id])
    BY DEF LessonsInv, DocumentsOK, TraceInv, LinksOK, Fits
  <1>4. closed[id].to \in DOMAIN lessons \cup {NoLesson} /\ (lessons[id].to # NoLesson => closed[id].to # NoLesson)
    BY <1>1, <1>3 DEF IsLinked
  <1>5. ASSUME gets
        PROVE  /\ makeup \in LessonIds /\ makeup \notin DOMAIN lessons /\ lesson.to = NoLesson
               /\ EndLinks(booked, id, lesson, {makeup}) /\ booked[id] = closed[id]
               /\ EndLinks(linked, id, lesson, {makeup}) /\ linked[id].to = makeup
    <2>1. makeup \in LessonIds /\ makeup \notin DOMAIN closed
      BY <1>3, <1>5, MakeupIsNew
    <2>2. lesson.to = NoLesson
      BY <1>5 DEF GetsMakeup
    <2> HIDE DEF closed, makeup
    <2>3. EndLinks(booked, id, lesson, {makeup}) /\ booked[id] = closed[id]
      BY <1>1, <2>1, BookedLinks
    <2> HIDE DEF booked
    <2>4. EndLinks(linked, id, lesson, {makeup}) /\ linked[id].to = makeup
      BY <1>1, <2>1, <2>3, LinkedLinks
    <2> QED
      BY <1>1, <2>1, <2>2, <2>3, <2>4
  <1>6. ASSUME ~gets, lessons' = closed PROVE IsReplaced(id)'
    <2>1. SUFFICES ASSUME id.who \in Students, MakeupSlot[id.who] # NoSlot,
                          lessons'[id].to \notin DOMAIN lessons'
                   PROVE  FreeDates(lessons', id, MakeupSlot[id.who]) = {}
      BY DEF IsReplaced
    <2>2. lesson.to = NoLesson
      BY <1>1, <1>3, <1>6, <2>1 DEF IsLinked
    <2> QED
      BY <1>6, <2>1, <2>2 DEF GetsMakeup
  <1> HIDE DEF closed, makeup, booked, linked, gets
  <1>7. CASE gets /\ lessons' = linked /\ stopped' = stopped
    <2>1. DOMAIN lessons' = DOMAIN lessons \cup {makeup} /\ lessons'[id].to = makeup
      BY <1>5, <1>7 DEF EndLinks
    <2>2. makeup # NoLesson
      BY <1>5, <1>7, ClassesAssumption
    <2>3. IsReplaced(id)'
      BY <2>1 DEF IsReplaced
    <2> QED
      BY <1>5, <1>7, <2>1, <2>2, <2>3, EndIsTraced
  <1>8. CASE gets /\ lessons' = booked /\ stopped' = stopped \cup {id}
    <2>1. DOMAIN lessons' = DOMAIN lessons \cup {makeup} /\ lessons'[id].to = closed[id].to
      BY <1>5, <1>8 DEF EndLinks
    <2> QED
      BY <1>4, <1>5, <1>8, <2>1, EndIsTraced
  <1>9. CASE gets /\ lessons' = closed /\ stopped' = stopped \cup {id}
    BY <1>1, <1>4, <1>9, EndIsTraced
  <1>10. CASE ~gets /\ lessons' = closed /\ stopped' = stopped
    BY <1>1, <1>4, <1>6, <1>10, EndIsTraced
  <1> QED
    BY <1>2, <1>7, <1>8, <1>9, <1>10

LEMMA HeldIsTraced ==
    ASSUME LessonsInv, TraceInv, NEW id \in DOMAIN lessons, NEW lesson, IsEnd(lesson), Fits(id, lesson),
           Lists({id}), lesson.status = "completed",
           lessons' = Save(lessons, id, lesson), stopped' = stopped
    PROVE  Traced({id})
PROOF
  <1>1. /\ EndLinks(lessons', id, lesson, {})
        /\ lessons'[id].to = IF lesson.to = NoLesson THEN lessons[id].to ELSE lesson.to
    BY SavedLinks
  <1>2. IsLinked(lesson) /\ IsLinked(lessons[id])
    BY DEF TraceInv, LinksOK, Fits
  <1>3. /\ lessons'[id].to \in DOMAIN lessons' \cup {NoLesson}
        /\ lessons[id].to # NoLesson => lessons'[id].to # NoLesson
    BY <1>1, <1>2 DEF IsLinked, EndLinks
  <1>4. IsReplaced(id)'
    BY <1>1 DEF EndLinks, IsReplaced, IsMissed
  <1> QED
    BY <1>1, <1>3, <1>4, EndIsTraced

-----------------------------------------------------------------------------
(* The handlers: what each does to links, lists and prices *)

LEMMA ClosedLinks ==
    ASSUME NEW document \in LessonType, NEW status \in {"completed", "no_show", "cancelled"},
           NEW source \in {"auto", "manual"}, NEW present \in BOOLEAN
    PROVE  LET lesson == Closed(document, status, Mark(source, present)) IN
           /\ lesson.to = document.to /\ lesson.from = document.from /\ lesson.origin = document.origin
           /\ document.rate # NoRate => lesson.rate = document.rate
PROOF
  <1> DEFINE marked == [document EXCEPT !.status = status, !.attendance = Mark(source, present)]
             lesson == Closed(document, status, Mark(source, present))
  <1>1. /\ marked \in LessonType /\ marked.rate = document.rate /\ marked.to = document.to
        /\ marked.from = document.from /\ marked.origin = document.origin
    BY DEF LessonType, Statuses, Mark
  <1>2. lesson = PriceLesson(marked)
    BY DEF Closed
  <1> HIDE DEF marked, lesson
  <1>3. /\ lesson.to = marked.to /\ lesson.from = marked.from /\ lesson.origin = marked.origin
        /\ marked.rate # NoRate => lesson.rate = marked.rate
    BY <1>1, <1>2 DEF PriceLesson, LessonType
  <1> QED
    BY <1>1, <1>3 DEF lesson

\* What is written of a document as it is stored fits it.
LEMMA StoredFits ==
    ASSUME LessonsInv, TraceInv, NEW id \in DOMAIN lessons,
           NEW status \in {"completed", "no_show", "cancelled"},
           NEW source \in {"auto", "manual"}, NEW present \in BOOLEAN
    PROVE  Fits(id, Closed(lessons[id], status, Mark(source, present)))
PROOF
  <1> DEFINE lesson == Closed(lessons[id], status, Mark(source, present))
  <1>1. lessons[id] \in LessonType
    BY DEF LessonsInv, DocumentsOK
  <1>2. /\ lesson.to = lessons[id].to /\ lesson.from = lessons[id].from /\ lesson.origin = lessons[id].origin
        /\ lessons[id].rate # NoRate => lesson.rate = lessons[id].rate
    BY <1>1, ClosedLinks
  <1> HIDE DEF lesson
  <1>3. IsLinked(lesson)
    BY <1>2 DEF TraceInv, LinksOK, IsLinked
  <1>4. lesson.to = NoLesson /\ id \notin stopped => MadeFor(id) = {}
    BY <1>2 DEF TraceInv, MakeupsOK
  <1>5. \A other : MakesUp(lesson, other) => id \in MadeFor(other)
    BY <1>2 DEF MakesUp, MadeFor
  <1> QED
    BY <1>2, <1>3, <1>4, <1>5 DEF Fits, lesson

\* So does what is written of a document as it was listed.
LEMMA ListedFits ==
    ASSUME LessonsInv, TraceInv, NEW reader \in Readers, NEW id \in DOMAIN closing[reader],
           NEW status \in {"completed", "no_show", "cancelled"},
           NEW source \in {"auto", "manual"}, NEW present \in BOOLEAN
    PROVE  Fits(id, Closed(closing[reader][id], status, Mark(source, present)))
PROOF
  <1> DEFINE listed == closing[reader][id]
             lesson == Closed(listed, status, Mark(source, present))
  <1>1. listed \in LessonType /\ id \in DOMAIN lessons
    BY DEF LessonsInv, ClosingOK
  <1>2. /\ IsLinked(listed) /\ listed.rate = lessons[id].rate
        /\ listed.to = NoLesson /\ id \notin stopped => MadeFor(id) = {}
    BY DEF TraceInv, LinksOK, ListedOK
  <1>3. \A other : MakesUp(listed, other) => id \in MadeFor(other)
    BY <1>1 DEF MadeFor, Listing
  <1> HIDE DEF listed
  <1>4. /\ lesson.to = listed.to /\ lesson.from = listed.from /\ lesson.origin = listed.origin
        /\ listed.rate # NoRate => lesson.rate = listed.rate
    BY <1>1, ClosedLinks
  <1> HIDE DEF lesson
  <1>5. IsLinked(lesson) /\ \A other : MakesUp(lesson, other) => MakesUp(listed, other)
    BY <1>2, <1>4 DEF IsLinked, MakesUp
  <1> QED
    BY <1>2, <1>3, <1>4, <1>5 DEF Fits, lesson, listed

\* What can still be recorded by hand is in no list.
LEMMA NotListed ==
    ASSUME LessonsInv, NEW id, ~IsPastManualWindow(id), closing' = closing,
           DOMAIN lessons \subseteq DOMAIN lessons'
    PROVE  Lists({id})
PROOF BY DEF Lists, LessonsInv, ClosingOK

\* The student who comes late, or the panel, or the student who cancels.
LEMMA EndingNowTraces ==
    ASSUME LessonsInv, TraceInv, NEW id \in DOMAIN lessons, ~IsPastManualWindow(id),
           NEW status \in {"completed", "no_show", "cancelled"},
           NEW source \in {"auto", "manual"}, NEW present \in BOOLEAN,
           NEW lesson, lesson = Closed(lessons[id], status, Mark(source, present)),
           \/ Missed(id, lesson)
           \/ status = "completed" /\ lessons' = Save(lessons, id, lesson) /\ stopped' = stopped,
           closing' = closing, DOMAIN lessons \subseteq DOMAIN lessons'
    PROVE  Traced({id})
PROOF
  <1>1. lessons[id] \in LessonType /\ rate \in Rates
    BY DEF LessonsInv, DocumentsOK, ClockOK
  <1>2. IsEnd(lesson) /\ lesson.status = status
    BY <1>1, ClosedIsEnd
  <1>3. Fits(id, lesson)
    BY StoredFits
  <1>4. Lists({id})
    BY NotListed
  <1> QED
    BY <1>2, <1>3, <1>4, MissedIsTraced, HeldIsTraced

LEMMA StudentComesLateTraces ==
    ASSUME LessonsInv, TraceInv, NEW id \in DOMAIN lessons, StudentComesLate(id)
    PROVE  Traced({id})
PROOF
  <1>1. id \in LessonIds /\ now \in Nat
    BY DEF LessonsInv, DocumentsOK, ClockOK
  <1>2. Start(id) \in Nat
    BY <1>1, GridAssumption, ClassesAssumption DEF LessonIds, Start, Slots
  <1>3. ~IsPastManualWindow(id)
    BY <1>1, <1>2, ClassesAssumption DEF StudentComesLate, StudentState, IsPastManualWindow
  <1>4. DOMAIN lessons \subseteq DOMAIN lessons'
    BY StudentComesLateStep DEF IsStep
  <1> QED
    BY <1>3, <1>4, EndingNowTraces DEF StudentComesLate

LEMMA MarkAttendanceTraces ==
    ASSUME LessonsInv, TraceInv, NEW id \in DOMAIN lessons, NEW present \in BOOLEAN,
           MarkAttendance(id, present)
    PROVE  Traced({id})
PROOF
  <1>1. DOMAIN lessons \subseteq DOMAIN lessons' /\ ~IsPastManualWindow(id)
    BY MarkAttendanceStep DEF IsStep, MarkAttendance
  <1>2. CASE present
    BY <1>1, <1>2, EndingNowTraces DEF MarkAttendance
  <1>3. CASE ~present
    BY <1>1, <1>3, EndingNowTraces DEF MarkAttendance
  <1> QED
    BY <1>2, <1>3

LEMMA StudentCancelTraces ==
    ASSUME LessonsInv, TraceInv, NEW id \in DOMAIN lessons, StudentCancel(id)
    PROVE  Traced({id})
PROOF
  <1>1. id \in LessonIds /\ now \in Nat
    BY DEF LessonsInv, DocumentsOK, ClockOK
  <1>2. Start(id) \in Nat
    BY <1>1, GridAssumption, ClassesAssumption DEF LessonIds, Start, Slots
  <1>3. ~IsPastManualWindow(id)
    BY <1>1, <1>2, ClassesAssumption DEF StudentCancel, HasAdvanceNotice, IsPastManualWindow
  <1>4. DOMAIN lessons \subseteq DOMAIN lessons'
    BY StudentCancelStep DEF IsStep
  <1> QED
    BY <1>3, <1>4, EndingNowTraces DEF StudentCancel

\* One list request at a time: nobody else has the lesson still to close.
OneReader == \A a, b \in Readers : a = b

LEMMA CloseOverdueTraces ==
    ASSUME OneReader, LessonsInv, TraceInv, NEW reader \in Readers, NEW id \in DOMAIN closing[reader],
           CloseOverdue(reader, id)
    PROVE  Traced({id})
PROOF
  <1> DEFINE listed == closing[reader][id]
             status == IF listed.joinedS THEN "completed" ELSE "no_show"
             lesson == Closed(listed, status, Mark("auto", listed.joinedS))
  <1>1. /\ id \in DOMAIN lessons /\ listed \in LessonType /\ rate \in Rates /\ DOMAIN closing = Readers
        /\ DOMAIN closing[reader] \subseteq DOMAIN lessons
    BY DEF LessonsInv, ClosingOK, ClockOK
  <1>2. /\ \/ Missed(id, lesson)
           \/ status = "completed" /\ lessons' = Save(lessons, id, lesson) /\ stopped' = stopped
        /\ closing' = [closing EXCEPT ![reader] = Restrict(@, DOMAIN @ \ {id})]
    BY DEF CloseOverdue
  <1>3. listed.joinedS \in BOOLEAN /\ status \in {"completed", "no_show"}
    BY <1>1 DEF LessonType
  <1>4. DOMAIN lessons \subseteq DOMAIN lessons'
    BY CloseOverdueStep DEF IsStep
  <1>5. Lists({id})
    <2>1. closing'[reader] = [i \in DOMAIN closing[reader] \ {id} |-> closing[reader][i]]
      BY <1>1, <1>2 DEF Restrict
    <2>2. \A other \in Readers : other = reader
      BY DEF OneReader
    <2> QED
      BY <1>1, <1>4, <2>1, <2>2 DEF Lists
  <1> HIDE DEF status
  <1>6. Fits(id, lesson)
    BY <1>3, ListedFits
  <1> HIDE DEF listed
  <1>7. IsEnd(lesson) /\ lesson.status = status
    BY <1>1, <1>3, ClosedIsEnd
  <1> HIDE DEF lesson
  <1> QED
    BY <1>1, <1>2, <1>5, <1>6, <1>7, MissedIsTraced, HeldIsTraced

LEMMA KeptLists ==
    ASSUME LessonsInv, DOMAIN lessons \subseteq DOMAIN lessons', DOMAIN closing' = Readers,
           \A reader \in Readers : \A id \in DOMAIN closing'[reader] :
               id \in DOMAIN closing[reader] /\ closing'[reader][id] = closing[reader][id]
    PROVE  Lists({})
PROOF BY DEF Lists, LessonsInv, ClosingOK

\* Nothing of the lessons changes.
LEMMA StillTraces ==
    ASSUME LessonsInv, LinksOK, UNCHANGED <<lessons, closing, stopped>>
    PROVE  Traced({})
PROOF
  <1>1. Lists({})
    BY KeptLists DEF LessonsInv, ClosingOK
  <1>2. Quiet
    BY <1>1 DEF Quiet
  <1> QED
    BY <1>2, QuietIsTraced

LEMMA StopReadingTraces ==
    ASSUME LessonsInv, LinksOK, NEW reader \in Readers, StopReading(reader)
    PROVE  Traced({})
PROOF
  <1>1. /\ UNCHANGED <<lessons, stopped>>
        /\ closing' = [closing EXCEPT ![reader] = <<>>] /\ DOMAIN closing = Readers
    BY DEF StopReading, LessonsInv, ClosingOK
  <1>2. Lists({})
    BY <1>1, KeptLists
  <1>3. Quiet
    BY <1>1, <1>2 DEF Quiet
  <1> QED
    BY <1>3, QuietIsTraced

LEMMA BornLinks ==
    ASSUME NEW from, NEW to
    PROVE  LET new == EnsureLessons(from, to) IN
           /\ DOMAIN lessons \subseteq DOMAIN new
           /\ \A id \in DOMAIN lessons : new[id] = lessons[id]
           /\ \A id \in DOMAIN new \ DOMAIN lessons :
                 /\ new[id].to = NoLesson /\ new[id].from = NoLesson
                 /\ new[id].origin = "regular" /\ new[id].status = "scheduled"
PROOF
  <1> DEFINE planned == [Blank EXCEPT !.status = "scheduled"]
             born == [planned EXCEPT !.origin = "regular"]
             new == EnsureLessons(from, to)
  <1>1. Blank \in
         [status : {"none"}, origin : {"none"}, from : {NoLesson}, to : {NoLesson},
          joinedS : {FALSE}, joinedT : {FALSE}, attendance : {Unmarked},
          rated : {FALSE}, rate : {NoRate}, payable : {"unset"}]
    BY DEF Blank
  <1>2. planned \in
         [status : {"scheduled"}, origin : {"none"}, from : {NoLesson}, to : {NoLesson},
          joinedS : {FALSE}, joinedT : {FALSE}, attendance : {Unmarked},
          rated : {FALSE}, rate : {NoRate}, payable : {"unset"}]
    BY <1>1
  <1> HIDE DEF planned
  <1>3. born.to = NoLesson /\ born.from = NoLesson /\ born.origin = "regular" /\ born.status = "scheduled"
    BY <1>2
  <1>4. /\ DOMAIN new = DOMAIN lessons \cup Candidates(from, to)
        /\ \A id \in DOMAIN lessons : new[id] = lessons[id]
        /\ \A id \in DOMAIN new \ DOMAIN lessons : new[id] = born
    BY DEF EnsureLessons, planned
  <1> HIDE DEF born, new
  <1>5. /\ DOMAIN lessons \subseteq DOMAIN new
        /\ \A id \in DOMAIN new \ DOMAIN lessons :
              /\ new[id].to = NoLesson /\ new[id].from = NoLesson
              /\ new[id].origin = "regular" /\ new[id].status = "scheduled"
    BY <1>3, <1>4
  <1> QED
    BY <1>4, <1>5 DEF new

LEMMA ListStudentLessonsTraces ==
    ASSUME LessonsInv, LinksOK, NEW from, NEW to, ListStudentLessons(from, to)
    PROVE  Traced({})
PROOF
  <1>1. lessons' = EnsureLessons(from, to) /\ UNCHANGED <<closing, stopped>>
    BY DEF ListStudentLessons
  <1>2. /\ DOMAIN lessons \subseteq DOMAIN lessons'
        /\ \A id \in DOMAIN lessons : lessons'[id] = lessons[id]
        /\ \A id \in DOMAIN lessons' \ DOMAIN lessons :
              /\ lessons'[id].to = NoLesson /\ lessons'[id].from = NoLesson
              /\ lessons'[id].origin = "regular" /\ lessons'[id].status = "scheduled"
    BY <1>1, BornLinks
  <1>3. Lists({})
    BY <1>1, <1>2, KeptLists DEF LessonsInv, ClosingOK
  <1>4. Quiet
    BY <1>1, <1>2, <1>3 DEF Quiet
  <1> QED
    BY <1>4, QuietIsTraced

LEMMA ListLessonsTraces ==
    ASSUME LessonsInv, LinksOK, NEW reader \in Readers, NEW from, NEW to, ListLessons(reader, from, to)
    PROVE  Traced({})
PROOF
  <1> DEFINE ids == Overdue(lessons', from, to)
  <1>1. /\ lessons' = EnsureLessons(from, to) /\ stopped' = stopped
        /\ closing' = [closing EXCEPT ![reader] = [id \in ids |-> lessons'[id]]]
        /\ DOMAIN closing = Readers /\ ids \subseteq DOMAIN lessons'
    BY DEF ListLessons, Listed, Overdue, LessonsInv, ClosingOK
  <1> HIDE DEF ids
  <1>2. /\ DOMAIN lessons \subseteq DOMAIN lessons'
        /\ \A id \in DOMAIN lessons : lessons'[id] = lessons[id]
        /\ \A id \in DOMAIN lessons' \ DOMAIN lessons :
              /\ lessons'[id].to = NoLesson /\ lessons'[id].from = NoLesson
              /\ lessons'[id].origin = "regular" /\ lessons'[id].status = "scheduled"
    BY <1>1, BornLinks
  <1>3. Lists({})
    <2>1. SUFFICES ASSUME NEW other \in Readers, NEW id \in DOMAIN closing'[other]
                   PROVE  /\ id \in DOMAIN lessons'
                          /\ \/ id \in DOMAIN closing[other] /\ closing'[other][id] = closing[other][id]
                             \/ closing'[other][id] = lessons'[id]
      BY DEF Lists
    <2>2. CASE other = reader
      BY <1>1, <2>1, <2>2
    <2>3. CASE other # reader
      <3>1. closing'[other] = closing[other]
        BY <1>1, <2>3
      <3> QED
        BY <1>2, <2>1, <3>1 DEF LessonsInv, ClosingOK
    <2> QED
      BY <2>2, <2>3
  <1>4. Quiet
    BY <1>1, <1>2, <1>3 DEF Quiet
  <1> QED
    BY <1>4, QuietIsTraced

\* Joining and rating.
LEMMA TouchedTraces ==
    ASSUME LessonsInv, LinksOK, NEW id \in DOMAIN lessons, NEW field \in {"joinedT", "joinedS", "rated"},
           lessons' = [lessons EXCEPT ![id] = [lessons[id] EXCEPT ![field] = TRUE]],
           UNCHANGED <<closing, stopped>>
    PROVE  Traced({})
PROOF
  <1>1. lessons[id] \in LessonType
    BY DEF LessonsInv, DocumentsOK
  <1>2. /\ DOMAIN lessons' = DOMAIN lessons
        /\ \A other \in DOMAIN lessons \ {id} : lessons'[other] = lessons[other]
        /\ lessons'[id] = [lessons[id] EXCEPT ![field] = TRUE]
    OBVIOUS
  <1>3. /\ lessons'[id].to = lessons[id].to /\ lessons'[id].from = lessons[id].from
        /\ lessons'[id].origin = lessons[id].origin /\ lessons'[id].rate = lessons[id].rate
        /\ lessons'[id].status = lessons[id].status
    BY <1>1, <1>2 DEF LessonType
  <1>4. Lists({})
    BY <1>2, KeptLists DEF LessonsInv, ClosingOK
  <1>5. Quiet
    BY <1>2, <1>3, <1>4 DEF Quiet
  <1> QED
    BY <1>5, QuietIsTraced

LEMMA TeacherJoinsTraces ==
    ASSUME LessonsInv, LinksOK, NEW id \in DOMAIN lessons, TeacherJoins(id)
    PROVE  Traced({})
PROOF
  <1>1. lessons' = [lessons EXCEPT ![id] = [lessons[id] EXCEPT !["joinedT"] = TRUE]]
        /\ UNCHANGED <<closing, stopped>>
    BY DEF TeacherJoins
  <1> QED
    BY <1>1, TouchedTraces

LEMMA StudentJoinsTraces ==
    ASSUME LessonsInv, LinksOK, NEW id \in DOMAIN lessons, StudentJoins(id)
    PROVE  Traced({})
PROOF
  <1>1. lessons' = [lessons EXCEPT ![id] = [lessons[id] EXCEPT !["joinedS"] = TRUE]]
        /\ UNCHANGED <<closing, stopped>>
    BY DEF StudentJoins
  <1> QED
    BY <1>1, TouchedTraces

LEMMA RateLessonTraces ==
    ASSUME LessonsInv, LinksOK, NEW id \in DOMAIN lessons, RateLesson(id)
    PROVE  Traced({})
PROOF
  <1>1. lessons' = [lessons EXCEPT ![id] = [lessons[id] EXCEPT !["rated"] = TRUE]]
        /\ UNCHANGED <<closing, stopped>>
    BY DEF RateLesson
  <1> QED
    BY <1>1, TouchedTraces

-----------------------------------------------------------------------------
(* Approving a request *)

\* Documents that have one lesson more or another instead of an absence: nobody's
\* price, link or makeup changes, and no other lesson is missed.
Rebooked(docs, new) ==
    /\ DOMAIN docs = DOMAIN lessons \cup {new}
    /\ \A id \in DOMAIN docs :
          /\ {docs[id].to, docs[id].from} \subseteq DOMAIN docs \cup {NoLesson}
          /\ docs[id].origin = "makeup" =>
                id \in DOMAIN lessons /\ lessons[id].origin = "makeup" /\ docs[id].from = lessons[id].from
          /\ IsMissed(docs[id].status) =>
                id \in DOMAIN lessons /\ docs[id].status = lessons[id].status /\ docs[id].to = lessons[id].to
    /\ \A id \in DOMAIN lessons :
          docs[id].rate = lessons[id].rate /\ (lessons[id].to # NoLesson => docs[id].to # NoLesson)

LEMMA BookedIsRebooked ==
    ASSUME LessonsInv, LinksOK, NEW id \in DOMAIN lessons, NEW new \in LessonIds
    PROVE  Rebooked(Save(lessons, new, Replacement("rescheduled", id)), new)
PROOF
  <1> DEFINE document == Replacement("rescheduled", id)
             booked == Save(lessons, new, document)
  <1>1. /\ document \in LessonType /\ document.status = "scheduled" /\ document.rate = NoRate
        /\ document.to = NoLesson /\ document.from = id /\ document.origin = "rescheduled"
    BY ReplacementOf, ReplacementLinks DEF LessonsInv, DocumentsOK
  <1> HIDE DEF document
  <1>2. Saves(lessons, booked, new, document)
    BY SaveOf
  <1> HIDE DEF booked
  <1>3. /\ DOMAIN booked = DOMAIN lessons \cup {new}
        /\ \A other \in DOMAIN lessons \ {new} : booked[other] = lessons[other]
    BY <1>2 DEF Saves
  <1>4. /\ booked[new].origin = "rescheduled" /\ booked[new].status = "scheduled"
        /\ {booked[new].to, booked[new].from} \subseteq DOMAIN booked \cup {NoLesson}
        /\ new \in DOMAIN lessons =>
              booked[new].rate = lessons[new].rate /\ booked[new].to = lessons[new].to
    <2>1. CASE new \in DOMAIN lessons
      <3>1. lessons[new] \in LessonType /\ booked[new] = Merge(lessons[new], document)
        BY <1>2, <2>1 DEF LessonsInv, DocumentsOK, Saves
      <3>2. /\ booked[new].status = document.status /\ booked[new].origin = document.origin
            /\ booked[new].rate = IF document.rate = NoRate THEN lessons[new].rate ELSE document.rate
            /\ booked[new].to = IF document.to = NoLesson THEN lessons[new].to ELSE document.to
            /\ booked[new].from = IF document.from = NoLesson THEN lessons[new].from ELSE document.from
        <4> DEFINE stored == lessons[new]
        <4> HIDE DEF stored
        <4>1. stored \in LessonType /\ booked[new] = Merge(stored, document)
          BY <3>1 DEF stored
        <4>2. /\ Merge(stored, document).status = document.status
              /\ Merge(stored, document).rate = IF document.rate = NoRate THEN stored.rate ELSE document.rate
          BY <1>1, <4>1, MergeOf
        <4>3. /\ Merge(stored, document).origin = document.origin
              /\ Merge(stored, document).to = IF document.to = NoLesson THEN stored.to ELSE document.to
              /\ Merge(stored, document).from = IF document.from = NoLesson THEN stored.from ELSE document.from
          BY <1>1, <4>1, MergeLinks
        <4> QED
          BY <4>1, <4>2, <4>3 DEF stored
      <3>3. {lessons[new].to, lessons[new].from} \subseteq DOMAIN lessons \cup {NoLesson}
        BY <2>1 DEF LinksOK, IsLinked
      <3> QED
        BY <1>1, <1>3, <3>2, <3>3
    <2>2. CASE new \notin DOMAIN lessons
      BY <1>1, <1>2, <1>3, <2>2 DEF Saves
    <2> QED
      BY <2>1, <2>2
  <1>5. ASSUME NEW other \in DOMAIN lessons \ {new}
        PROVE  /\ {booked[other].to, booked[other].from} \subseteq DOMAIN booked \cup {NoLesson}
               /\ booked[other] = lessons[other]
    BY <1>3 DEF LinksOK, IsLinked
  <1>6. ASSUME NEW other \in DOMAIN booked
        PROVE  /\ {booked[other].to, booked[other].from} \subseteq DOMAIN booked \cup {NoLesson}
               /\ booked[other].origin = "makeup" =>
                     /\ other \in DOMAIN lessons /\ lessons[other].origin = "makeup"
                     /\ booked[other].from = lessons[other].from
               /\ IsMissed(booked[other].status) =>
                     /\ other \in DOMAIN lessons /\ booked[other].status = lessons[other].status
                     /\ booked[other].to = lessons[other].to
    <2>1. CASE other = new
      BY <1>4, <2>1 DEF IsMissed
    <2>2. CASE other # new
      <3>1. other \in DOMAIN lessons \ {new}
        BY <1>3, <1>6, <2>2
      <3> QED
        BY <1>5, <3>1
    <2> QED
      BY <2>1, <2>2
  <1>7. ASSUME NEW other \in DOMAIN lessons
        PROVE  booked[other].rate = lessons[other].rate /\ (lessons[other].to # NoLesson => booked[other].to # NoLesson)
    BY <1>4, <1>5
  <1> QED
    BY <1>3, <1>6, <1>7 DEF Rebooked, booked, document

LEMMA MovedIsRebooked ==
    ASSUME LessonsInv, LinksOK, NEW id \in DOMAIN lessons, NEW new \in LessonIds,
           NEW booked, Rebooked(booked, new), booked[id] \in LessonType
    PROVE  Rebooked(Save(booked, id, Absence(id, new)), new)
PROOF
  <1> DEFINE absence == Absence(id, new)
             moved == Save(booked, id, absence)
  <1>1. lessons[id] \in LessonType /\ id \in DOMAIN booked /\ new \in DOMAIN booked /\ new # NoLesson
    BY ClassesAssumption DEF LessonsInv, DocumentsOK, Rebooked
  <1>2. /\ absence \in LessonType /\ absence.status = "absence" /\ absence.to = new
        /\ absence.from = lessons[id].from /\ absence.origin = lessons[id].origin
        /\ absence.rate = lessons[id].rate
    BY <1>1 DEF Absence, LessonType, Statuses
  <1> HIDE DEF absence
  <1>3. Saves(booked, moved, id, absence)
    BY SaveOf
  <1> HIDE DEF moved
  <1>4. /\ DOMAIN moved = DOMAIN booked /\ moved[id] = Merge(booked[id], absence)
        /\ \A other \in DOMAIN booked \ {id} : moved[other] = booked[other]
    BY <1>1, <1>3 DEF Saves
  <1> DEFINE stored == booked[id]
  <1> HIDE DEF stored
  <1>5. stored \in LessonType /\ moved[id] = Merge(stored, absence)
    BY <1>4 DEF stored
  <1>6. /\ moved[id].status = "absence" /\ moved[id].to = new /\ moved[id].origin = lessons[id].origin
        /\ moved[id].from = IF lessons[id].from = NoLesson THEN stored.from ELSE lessons[id].from
        /\ moved[id].rate = IF lessons[id].rate = NoRate THEN stored.rate ELSE lessons[id].rate
    <2>1. /\ Merge(stored, absence).status = absence.status
          /\ Merge(stored, absence).rate = IF absence.rate = NoRate THEN stored.rate ELSE absence.rate
      BY <1>2, <1>5, MergeOf
    <2>2. /\ Merge(stored, absence).origin = absence.origin
          /\ Merge(stored, absence).to = IF absence.to = NoLesson THEN stored.to ELSE absence.to
          /\ Merge(stored, absence).from = IF absence.from = NoLesson THEN stored.from ELSE absence.from
      BY <1>2, <1>5, MergeLinks
    <2> QED
      BY <1>1, <1>2, <1>5, <2>1, <2>2
  <1>7. /\ stored.rate = lessons[id].rate
        /\ {stored.from, lessons[id].from} \subseteq DOMAIN booked \cup {NoLesson}
        /\ lessons[id].origin = "makeup" => lessons[id].from # NoLesson
    BY <1>1 DEF Rebooked, LinksOK, IsLinked, stored
  <1>8. ASSUME NEW other \in DOMAIN moved
        PROVE  /\ {moved[other].to, moved[other].from} \subseteq DOMAIN moved \cup {NoLesson}
               /\ moved[other].origin = "makeup" =>
                     /\ other \in DOMAIN lessons /\ lessons[other].origin = "makeup"
                     /\ moved[other].from = lessons[other].from
               /\ IsMissed(moved[other].status) =>
                     /\ other \in DOMAIN lessons /\ moved[other].status = lessons[other].status
                     /\ moved[other].to = lessons[other].to
    <2>1. CASE other = id
      BY <1>1, <1>4, <1>6, <1>7, <2>1 DEF IsMissed
    <2>2. CASE other # id
      BY <1>4, <1>8, <2>2 DEF Rebooked
    <2> QED
      BY <2>1, <2>2
  <1>9. ASSUME NEW other \in DOMAIN lessons
        PROVE  moved[other].rate = lessons[other].rate /\ (lessons[other].to # NoLesson => moved[other].to # NoLesson)
    <2>1. CASE other = id
      BY <1>1, <1>6, <1>7, <2>1
    <2>2. CASE other # id
      BY <1>4, <2>2 DEF Rebooked
    <2> QED
      BY <2>1, <2>2
  <1>10. DOMAIN moved = DOMAIN lessons \cup {new}
    BY <1>4 DEF Rebooked
  <1> QED
    BY <1>8, <1>9, <1>10 DEF Rebooked, moved, absence

LEMMA RebookedIsTraced ==
    ASSUME LessonsInv, LinksOK, NEW new, Rebooked(lessons', new),
           closing' = closing, stopped \subseteq stopped'
    PROVE  Traced({})
PROOF
  <1>1. DOMAIN lessons \subseteq DOMAIN lessons'
    BY DEF Rebooked
  <1>2. Lists({})
    BY <1>1, KeptLists DEF LessonsInv, ClosingOK
  <1>3. ASSUME NEW id \in DOMAIN lessons' PROVE IsLinked(lessons[id])'
    BY DEF Rebooked, LinksOK, IsLinked
  <1>4. \A id \in DOMAIN lessons :
           /\ lessons'[id].rate = lessons[id].rate
           /\ lessons[id].to # NoLesson => lessons'[id].to # NoLesson
    BY DEF Rebooked
  <1>5. \A id \in DOMAIN lessons' : IsMissed(lessons'[id].status) =>
           id \in DOMAIN lessons /\ lessons'[id].status = lessons[id].status /\ lessons'[id].to = lessons[id].to
    BY DEF Rebooked
  <1>6. ASSUME NEW id \in DOMAIN lessons' PROVE MadeFor(id)' \subseteq MadeFor(id)
    <2>1. \A other \in DOMAIN lessons' : MakesUp(lessons'[other], id) => other \in MadeFor(id) \cup {}
      BY DEF Rebooked, MakesUp, MadeFor
    <2> QED
      BY <1>2, <2>1, MakeupsAfter
  <1>7. \A reader \in Readers : \A id \in DOMAIN closing'[reader] :
           /\ id \in DOMAIN lessons'
           /\ \/ id \in DOMAIN closing[reader] /\ closing'[reader][id] = closing[reader][id]
              \/ closing'[reader][id] = lessons'[id]
    BY <1>2 DEF Lists
  <1> QED
    BY <1>1, <1>3, <1>4, <1>5, <1>6, <1>7 DEF Traced

LEMMA ApproveTraces ==
    ASSUME LessonsInv, LinksOK, NEW request \in RequestIds, Approve(request)
    PROVE  Traced({})
PROOF
  <1> DEFINE id == requests[request].lesson
             new == RescheduledId(request)
             booked == Save(lessons, new, Replacement("rescheduled", id))
             moved == Save(booked, id, Absence(id, new))
  <1>1. /\ requests[request] \in RequestType /\ id \in DOMAIN lessons
        /\ DocumentsOK(lessons) /\ id \in LessonIds
    BY DEF Approve, Pending, LessonsInv, RequestsOK, DocumentsOK
  <1>2. new \in LessonIds
    BY <1>1 DEF RescheduledId, LessonIds, RequestType, Occupants
  <1>3. /\ ~IsSlotTaken(new.date, new.hour) /\ lessons' \in {booked, moved}
        /\ stopped \subseteq stopped' /\ closing' = closing
    BY DEF Approve
  <1>4. new \in DOMAIN lessons => lessons[new].status = "absence"
    BY <1>3 DEF IsSlotTaken
  <1> HIDE DEF id, new
  <1>5. Rebooked(booked, new) /\ IsStep(lessons, booked)
    BY <1>1, <1>2, <1>4, BookedIsRebooked, BookedIsStep
  <1> HIDE DEF booked
  <1>6. booked[id] \in LessonType
    BY <1>1, <1>5 DEF IsStep, DocumentsOK
  <1>7. Rebooked(moved, new)
    BY <1>1, <1>2, <1>5, <1>6, MovedIsRebooked
  <1> HIDE DEF moved
  <1>8. Rebooked(lessons', new)
    BY <1>3, <1>5, <1>7
  <1> QED
    BY <1>3, <1>8, RebookedIsTraced

-----------------------------------------------------------------------------
(* One makeup and one price, where one list is read at a time *)

LEMMA TraceStarts == ClassesInit => TraceInv
PROOF
  <1> SUFFICES ASSUME ClassesInit PROVE TraceInv
    OBVIOUS
  <1>1. DOMAIN lessons = {} /\ \A reader \in Readers : DOMAIN closing[reader] = {}
    BY DEF ClassesInit
  <1> QED
    BY <1>1 DEF TraceInv, LinksOK, MakeupsOK, ListedOK, EveryMissIsReplaced

\* Every step ends one lesson or none, and treats links, lists and prices as Traced says.
LEMMA TraceStep ==
    ASSUME OneReader, Inv, TraceInv, [ClassesNext]_vars
    PROVE  TraceInv' /\ RatesKept
PROOF
  <1>1. LessonsInv /\ LinksOK /\ \A reader \in Readers : DOMAIN closing[reader] \subseteq DOMAIN lessons
    BY DEF Inv, LessonsInv, ClosingOK, TraceInv
  <1> DEFINE Ended == \E id \in DOMAIN lessons : Traced({id})
  <1>2. ASSUME UNCHANGED vars \/ UNCHANGED lessonVars
        PROVE  Traced({})
    <2>1. UNCHANGED <<lessons, closing, stopped>>
      BY <1>2 DEF vars, lessonVars
    <2> QED
      BY <1>1, <2>1, StillTraces
  <1>3. ASSUME Materialise PROVE Traced({})
    <2>1. PICK from \in 0 .. MaxDate, to \in 0 .. MaxDate :
             \/ ListStudentLessons(from, to)
             \/ \E reader \in Readers : ListLessons(reader, from, to)
      BY <1>3 DEF Materialise
    <2> QED
      BY <1>1, <2>1, ListStudentLessonsTraces, ListLessonsTraces
  <1>4. ASSUME Attend PROVE Traced({}) \/ Ended
    <2>1. ASSUME NEW reader \in Readers, NEW id \in DOMAIN closing[reader], CloseOverdue(reader, id)
          PROVE  Ended
      BY <1>1, <2>1, CloseOverdueTraces
    <2>2. ASSUME NEW reader \in Readers, StopReading(reader)
          PROVE  Traced({})
      BY <1>1, <2>2, StopReadingTraces
    <2>3. ASSUME NEW id \in DOMAIN lessons, TeacherJoins(id) \/ StudentJoins(id) \/ RateLesson(id)
          PROVE  Traced({})
      BY <1>1, <2>3, TeacherJoinsTraces, StudentJoinsTraces, RateLessonTraces
    <2>4. ASSUME NEW id \in DOMAIN lessons, StudentComesLate(id) \/ StudentCancel(id)
          PROVE  Ended
      BY <1>1, <2>4, StudentComesLateTraces, StudentCancelTraces
    <2>5. ASSUME NEW id \in DOMAIN lessons, NEW present \in BOOLEAN, MarkAttendance(id, present)
          PROVE  Ended
      BY <1>1, <2>5, MarkAttendanceTraces
    <2> QED
      BY <1>4, <2>1, <2>2, <2>3, <2>4, <2>5 DEF Attend
  <1>5. ASSUME Reschedule PROVE Traced({})
    <2>1. ASSUME NEW request \in RequestIds, Approve(request)
          PROVE  Traced({})
      BY <1>1, <2>1, ApproveTraces
    <2>2. ASSUME NEW request \in RequestIds,
                 \/ Reject(request)
                 \/ \E id \in DOMAIN lessons, date \in 0 .. MaxDate, hour \in Slots :
                       RequestReschedule(request, id, date, hour)
          PROVE  Traced({})
      <3>1. UNCHANGED <<lessons, closing, stopped>>
        BY <2>2 DEF Reject, RequestReschedule
      <3> QED
        BY <1>1, <3>1, StillTraces
    <2> QED
      BY <1>5, <2>1, <2>2 DEF Reschedule
  <1>6. ASSUME Tick \/ \E value \in Rates : UpdateSettings(value)
        PROVE  Traced({})
    <2>1. UNCHANGED <<lessons, closing, stopped>>
      BY <1>6 DEF Tick, UpdateSettings
    <2> QED
      BY <1>1, <2>1, StillTraces
  <1>7. Traced({}) \/ Ended
    BY <1>2, <1>3, <1>4, <1>5, <1>6 DEF ClassesNext
  <1>8. CASE Traced({})
    BY <1>1, <1>8, TracedKeeps
  <1>9. CASE Ended
    <2>1. PICK id \in DOMAIN lessons : Traced({id})
      BY <1>9
    <2>2. {id} \in SUBSET DOMAIN lessons
      OBVIOUS
    <2> QED
      BY <1>1, <2>1, <2>2, TracedKeeps
  <1> QED
    BY <1>7, <1>8, <1>9

LEMMA TracesHold == ASSUME OneReader PROVE ClassesSpec => [](Inv /\ TraceInv)
PROOF
  <1>1. ClassesInit => TraceInv
    BY TraceStarts
  <1>2. Inv /\ TraceInv /\ [ClassesNext]_vars => TraceInv'
    BY TraceStep
  <1> QED
    BY <1>1, <1>2, InvIsInvariant, PTL DEF ClassesSpec

\* A lesson with no two makeups has at most one.
LEMMA MakeupsAreOne == MakeupsOK => AtMostOneMakeup
PROOF
  <1> SUFFICES ASSUME MakeupsOK, NEW id \in DOMAIN lessons \ stopped
               PROVE  Cardinality({other \in DOMAIN lessons :
                          lessons[other].origin = "makeup" /\ lessons[other].from = id}) <= 1
    BY DEF AtMostOneMakeup
  <1> DEFINE stored == {other \in DOMAIN lessons :
                          lessons[other].origin = "makeup" /\ lessons[other].from = id}
  <1>1. stored \subseteq MadeFor(id)
    BY DEF MadeFor, MakesUp
  <1>2. \A a, b \in stored : a = b
    BY <1>1 DEF MakeupsOK
  <1> HIDE DEF stored
  <1>3. CASE stored = {}
    <2>1. Cardinality({}) = 0
      BY FS_EmptySet
    <2> QED
      BY <1>3, <2>1 DEF stored
  <1>4. CASE stored # {}
    <2>1. PICK makeup : makeup \in stored
      BY <1>4
    <2>2. stored = {makeup}
      BY <1>2, <2>1
    <2>3. Cardinality({makeup}) = 1
      BY FS_Singleton
    <2> QED
      BY <2>2, <2>3 DEF stored
  <1> QED
    BY <1>3, <1>4

\* A missed lesson has one makeup and no more, or every week was taken, whoever
\* recorded the absence, in what order and however often it is closed again, and
\* whatever a list still to close writes back: createMakeup looks at the link of the
\* document in hand, which a list keeps for as long as it is read.  Two lists read at
\* once (Readers of two members) book two.
THEOREM MissesAreMadeUpOnce == ASSUME OneReader PROVE ClassesSpec => []OneMakeupPerMiss
PROOF
  <1>1. TraceInv => OneMakeupPerMiss
    BY MakeupsAreOne DEF TraceInv, OneMakeupPerMiss
  <1> QED
    BY <1>1, TracesHold, PTL

\* No handler, reschedule, merge or change of the settings moves the price of a lesson
\* that has one (priceLesson keeps rateApplied), where one list is read at a time.
THEOREM RatesStayFrozen == ASSUME OneReader PROVE ClassesSpec => RateIsFrozen
PROOF
  <1>1. Inv /\ TraceInv /\ [ClassesNext]_vars =>
           [\A id \in DOMAIN lessons :
               lessons[id].rate # NoRate => lessons'[id].rate = lessons[id].rate]_vars
    BY TraceStep DEF RatesKept
  <1> QED
    BY <1>1, TracesHold, PTL DEF ClassesSpec, RateIsFrozen

-----------------------------------------------------------------------------
(* One lesson for one block *)

\* What the materialisation brings into being starts where a block of the grid starts.
LEMMA CandidatesAreStarts ==
    ASSUME NEW from, NEW to, NEW id \in Candidates(from, to)
    PROVE  id = Regular(id.date, id.hour) /\ id.hour \in BlockStarts(DayOfWeek(id.date))
PROOF
  <1>1. PICK date \in {d \in from .. to : d >= Today /\ DayOfWeek(d) \in Weekdays} :
           id \in {Regular(date, hour) : hour \in BlockStarts(DayOfWeek(date))}
    BY DEF Candidates
  <1>2. PICK hour \in BlockStarts(DayOfWeek(date)) : id = Regular(date, hour)
    BY <1>1
  <1>3. id.date = date /\ id.hour = hour
    BY <1>2 DEF Regular
  <1> QED
    BY <1>2, <1>3

\* Two half hours with the same document are of one block, which starts once.
LEMMA OneStartOfABlock ==
    ASSUME NEW from, NEW to, NEW a \in Candidates(from, to), NEW b \in Candidates(from, to),
           a.date = b.date,
           grid[DayOfWeek(a.date)][a.hour] = grid[DayOfWeek(a.date)][b.hour]
    PROVE  a = b
PROOF
  <1>1. /\ a = Regular(a.date, a.hour) /\ b = Regular(b.date, b.hour)
        /\ a.hour \in BlockStarts(DayOfWeek(a.date)) /\ b.hour \in BlockStarts(DayOfWeek(b.date))
    BY CandidatesAreStarts
  <1>2. a.hour = b.hour
    BY <1>1 DEF BlockStarts
  <1> QED
    BY <1>1, <1>2

LEMMA SavedDomain ==
    ASSUME NEW docs, NEW id, NEW document
    PROVE  DOMAIN Save(docs, id, document) = DOMAIN docs \cup {id}
PROOF BY SaveOf DEF Saves

\* A handler of a lesson or of a request books one more document, or none.
OneMore == \E new : DOMAIN lessons' \subseteq DOMAIN lessons \cup {new}

\* The makeup is what is new of a missed lesson.
LEMMA EndingBooksOne ==
    ASSUME NEW id \in DOMAIN lessons, NEW lesson,
           \/ Missed(id, lesson)
           \/ lessons' = Save(lessons, id, lesson)
    PROVE  OneMore
PROOF
  <1> DEFINE closed == Save(lessons, id, lesson)
             makeup == MakeupId(closed, id)
             booked == Save(closed, makeup, Replacement("makeup", id))
             linked == Save(booked, id, [lesson EXCEPT !.to = makeup])
  <1>1. /\ DOMAIN closed = DOMAIN lessons \cup {id}
        /\ DOMAIN booked = DOMAIN closed \cup {makeup}
        /\ DOMAIN linked = DOMAIN booked \cup {id}
    BY SavedDomain
  <1>2. lessons' \in {closed, booked, linked}
    BY DEF Missed
  <1> HIDE DEF closed, makeup, booked, linked
  <1>3. DOMAIN lessons' \subseteq DOMAIN lessons \cup {makeup}
    BY <1>1, <1>2
  <1> QED
    BY <1>3 DEF OneMore

\* The new time of a lesson is what is new of an approved request.
LEMMA ApproveBooksOne ==
    ASSUME LessonsInv, NEW request \in RequestIds, Approve(request)
    PROVE  OneMore
PROOF
  <1> DEFINE id == requests[request].lesson
             new == RescheduledId(request)
             booked == Save(lessons, new, Replacement("rescheduled", id))
             moved == Save(booked, id, Absence(id, new))
  <1>1. id \in DOMAIN lessons /\ lessons' \in {booked, moved}
    BY DEF Approve, Pending, LessonsInv, RequestsOK
  <1>2. DOMAIN booked = DOMAIN lessons \cup {new} /\ DOMAIN moved = DOMAIN booked \cup {id}
    BY SavedDomain
  <1> HIDE DEF id, new, booked, moved
  <1>3. DOMAIN lessons' \subseteq DOMAIN lessons \cup {new}
    BY <1>1, <1>2
  <1> QED
    BY <1>3 DEF OneMore

\* Only the materialisation brings more than one document into being.
LEMMA OthersBookOne ==
    ASSUME LessonsInv,
           \/ UNCHANGED lessons
           \/ Attend
           \/ Reschedule
    PROVE  OneMore
PROOF
  <1>1. CASE DOMAIN lessons' = DOMAIN lessons
    BY <1>1 DEF OneMore
  <1>2. CASE Attend
    <2>1. ASSUME NEW reader \in Readers, NEW id \in DOMAIN closing[reader], CloseOverdue(reader, id)
          PROVE  OneMore
      <3>1. id \in DOMAIN lessons
        BY DEF LessonsInv, ClosingOK
      <3> QED
        BY <2>1, <3>1, EndingBooksOne DEF CloseOverdue
    <2>2. ASSUME NEW id \in DOMAIN lessons, StudentComesLate(id) PROVE OneMore
      BY <2>2, EndingBooksOne DEF StudentComesLate
    <2>3. ASSUME NEW id \in DOMAIN lessons, NEW present \in BOOLEAN, MarkAttendance(id, present)
          PROVE  OneMore
      BY <2>3, EndingBooksOne DEF MarkAttendance
    <2>4. ASSUME NEW id \in DOMAIN lessons, StudentCancel(id) PROVE OneMore
      BY <2>4, EndingBooksOne DEF StudentCancel
    <2>5. ASSUME NEW id \in DOMAIN lessons, TeacherJoins(id) \/ StudentJoins(id) \/ RateLesson(id)
          PROVE  DOMAIN lessons' = DOMAIN lessons
      BY <2>5 DEF TeacherJoins, StudentJoins, RateLesson
    <2>6. ASSUME NEW reader \in Readers, StopReading(reader)
          PROVE  DOMAIN lessons' = DOMAIN lessons
      BY <2>6 DEF StopReading
    <2> QED
      BY <1>1, <1>2, <2>1, <2>2, <2>3, <2>4, <2>5, <2>6 DEF Attend
  <1>3. CASE Reschedule
    <2>1. ASSUME NEW request \in RequestIds,
                 \/ Reject(request)
                 \/ \E id \in DOMAIN lessons, date \in 0 .. MaxDate, hour \in Slots :
                       RequestReschedule(request, id, date, hour)
          PROVE  DOMAIN lessons' = DOMAIN lessons
      BY <2>1 DEF Reject, RequestReschedule
    <2> QED
      BY <1>1, <1>3, <2>1, ApproveBooksOne DEF Reschedule
  <1> QED
    BY <1>1, <1>2, <1>3

\* Of the lessons that are born together, no two are of one block.
LEMMA BornApart ==
    ASSUME Inv, [ClassesNext]_vars,
           NEW a \in DOMAIN lessons' \ DOMAIN lessons, NEW b \in DOMAIN lessons' \ DOMAIN lessons,
           a # b, a.date = b.date
    PROVE  grid[DayOfWeek(a.date)][a.hour] # grid[DayOfWeek(a.date)][b.hour]
PROOF
  <1>1. ~OneMore
    BY DEF OneMore
  <1>2. Materialise
    <2>1. ~(UNCHANGED lessons \/ Attend \/ Reschedule)
      BY <1>1, OthersBookOne DEF Inv
    <2> QED
      BY <2>1 DEF ClassesNext, UpdateSettings, Tick, vars, lessonVars
  <1>3. PICK from \in 0 .. MaxDate, to \in 0 .. MaxDate : lessons' = EnsureLessons(from, to)
    BY <1>2 DEF Materialise, ListStudentLessons, ListLessons
  <1>4. a \in Candidates(from, to) /\ b \in Candidates(from, to)
    BY <1>3 DEF EnsureLessons
  <1> QED
    BY <1>4, OneStartOfABlock

\* A block of the grid, of one half hour or two, becomes one lesson and not one for each
\* half, whoever lists the days and whatever the grid was before (ensureLessons,
\* isBlockStart): also on a day where an assignment stopped between its commits.
THEOREM BlocksBecomeOneLesson == ClassesSpec => NoTwinLessons
PROOF
  <1>1. Inv /\ [ClassesNext]_vars =>
           [LET born == {id \in DOMAIN lessons' \ DOMAIN lessons : lessons'[id].origin = "regular"}
            IN  \A a, b \in born : a # b /\ a.date = b.date =>
                   LET day == DayOfWeek(a.date) IN grid[day][a.hour] # grid[day][b.hour]]_vars
    BY BornApart
  <1> QED
    BY <1>1, InvIsInvariant, PTL DEF ClassesSpec, NoTwinLessons
=============================================================================
