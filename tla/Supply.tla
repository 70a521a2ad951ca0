------------------------------- MODULE Supply -------------------------------
(***************************************************************************)
(* The study material of one student at one level (supply/): a header and  *)
(* one document per module, written module by module by the panel of a     *)
(* teacher, or in one request, and shown to the student once complete.     *)
(* Materials share no document, so one stands for all of them.             *)
(*                                                                         *)
(* A generation is one skeleton and what was written for it.  Its panel    *)
(* saves the modules in any order and closes; requests of several panels,  *)
(* and repeated requests, interleave at every read and write of a handler. *)
(***************************************************************************)
EXTENDS Naturals, Functions

CONSTANTS
    Generations,
    MaxModules,   \* bound: modules of a level
    MaxRepeats,   \* bound: saves that arrive a second time
    MaxStopped,   \* bound: requests that stop half way
    NoHeader, NoAnswer

ASSUME SupplyAssumption ==
    /\ MaxModules \in Nat \ {0}
    /\ {MaxRepeats, MaxStopped} \subseteq Nat

Indices == 0 .. (MaxModules - 1)
Below(count) == {i \in Indices : i < count}

VARIABLES
    header,     \* the document of student_supplies
    modules,    \* supply_modules: index -> the generation that wrote it
    panel,      \* [Generations -> what the panel has generated, written, sent]
    closing,    \* [Generations -> its finishConsolidation under way]
    whole,      \* [Generations -> its consolidate under way]
    answer,     \* [Generations -> the material finishConsolidation returned]
    repeats, stopped,
    disturbed,  \* history: generations another one wrote over, that repeated a
                \* save while closing, or that closed before all was sent
    torn        \* history: modules were deleted between a check and its mark

supplyVars == <<header, modules, panel, closing, whole, answer, repeats, stopped, disturbed, torn>>

\* A legacy document embeds its modules and has no status: it is complete.
Legacy(count) == [count |-> count, status |-> "complete", embedded |-> TRUE]
Header(count, status) == [count |-> count, status |-> status, embedded |-> FALSE]

NoRequest == [pc |-> "none", count |-> 0, existing |-> {}]

SupplyInit ==
    /\ header \in {NoHeader} \cup {Legacy(n) : n \in 1 .. MaxModules}
    /\ modules = <<>>
    /\ panel = [g \in Generations |-> [size |-> 0, written |-> {}, sent |-> {}]]
    /\ closing = [g \in Generations |-> NoRequest]
    /\ whole = [g \in Generations |-> NoRequest]
    /\ answer = [g \in Generations |-> NoAnswer]
    /\ repeats = 0 /\ stopped = 0
    /\ disturbed = {}
    /\ torn = FALSE

CheckedByAnother(g) ==
    \E o \in Generations \ {g} : closing[o].pc \in {"existing", "mark"}

Others(g) == {o \in Generations \ {g} : panel[o].size > 0}

\* saveModule and markComplete drop what does not belong; saves overwrite.
Put(docs, g, indices) ==
    [i \in DOMAIN docs \cup indices |-> IF i \in indices THEN g ELSE docs[i]]

-----------------------------------------------------------------------------
(* Generation: only the panel keeps what it produces *)

\* loadContext: a level with no module in its curriculum is refused.
MayGenerate(n) == n > 0

\* The blueprint of the level has n modules.
GenerateSkeleton(g, n) ==
    /\ panel[g].size = 0
    /\ MayGenerate(n)
    /\ panel' = [panel EXCEPT ![g].size = n]
    /\ UNCHANGED <<header, modules, closing, whole, answer, repeats, stopped, disturbed, torn>>

\* The last topic of a module arrives; a topic that failed is asked for again.
GenerateTopic(g, i) ==
    /\ i < panel[g].size
    /\ panel' = [panel EXCEPT ![g].written = @ \cup {i}]
    /\ UNCHANGED <<header, modules, closing, whole, answer, repeats, stopped, disturbed, torn>>

-----------------------------------------------------------------------------
(* One request per module *)

\* Mutant: the merge leaves the embedded modules of a legacy document.
SaveKeepsEmbedded(g) ==
    IF header # NoHeader /\ header.embedded THEN [header EXCEPT !.status = "draft"]
    ELSE Header(panel[g].size, "draft")

SavedHeader(g) == Header(panel[g].size, "draft")

\* ModuleSchema refuses a module that is not written; a save is one batch.  A
\* panel that consolidates the whole does not send modules.
ConsolidateModule(g, i) ==
    /\ whole[g].pc = "none"
    /\ i \in panel[g].written
    /\ i < panel[g].size
    /\ IF i \in panel[g].sent THEN /\ repeats < MaxRepeats
                                   /\ repeats' = repeats + 1
                              ELSE /\ closing[g].pc = "none" /\ answer[g] = NoAnswer
                                   /\ UNCHANGED repeats
    /\ modules' = Put(modules, g, {i})
    /\ header' = SavedHeader(g)
    /\ panel' = [panel EXCEPT ![g].sent = @ \cup {i}]
    /\ disturbed' = disturbed \cup Others(g)
                    \cup (IF closing[g].pc # "none" THEN {g} ELSE {})
    /\ UNCHANGED <<closing, whole, answer, stopped, torn>>

\* findHeader, the first read of finishConsolidation.
FinishConsolidation(g) ==
    /\ panel[g].sent # {} /\ answer[g] = NoAnswer
    /\ closing[g].pc = "none"
    /\ closing' = [closing EXCEPT ![g] = [NoRequest EXCEPT !.pc = "check",
                                                          !.count = header.count]]
    /\ disturbed' = IF panel[g].sent = Below(panel[g].size) THEN disturbed
                    ELSE disturbed \cup {g}
    /\ UNCHANGED <<header, modules, panel, whole, answer, repeats, stopped, torn>>

\* Mutant: what is missing is not looked for.
NothingMissing(count) == {}

\* Mutant: one module too many is waited for.
MissingOneMore(count) == {i \in Indices : i <= count} \ DOMAIN modules

Missing(count) == Below(count) \ DOMAIN modules

\* findModuleIndices; with modules missing, 409 lists them to be sent again.
CheckModules(g) ==
    LET missing == Missing(closing[g].count) IN
    /\ closing[g].pc = "check"
    /\ closing' = [closing EXCEPT ![g] = IF missing = {} THEN [@ EXCEPT !.pc = "existing"]
                                                         ELSE NoRequest]
    /\ panel' = [panel EXCEPT ![g].sent = @ \ missing]
    /\ UNCHANGED <<header, modules, whole, answer, repeats, stopped, disturbed, torn>>

\* markComplete reads the indices again before it writes.
ReadExisting(g) ==
    /\ closing[g].pc = "existing"
    /\ closing' = [closing EXCEPT ![g].pc = "mark", ![g].existing = DOMAIN modules]
    /\ UNCHANGED <<header, modules, panel, whole, answer, repeats, stopped, disturbed, torn>>

\* Mutant: the modules of a longer, earlier material stay.
NothingInExcess(existing, count) == {}

Excess(existing, count) == {i \in existing : i >= count}

MarkComplete(g) ==
    LET request == closing[g] IN
    /\ request.pc = "mark"
    /\ modules' = Restrict(modules, DOMAIN modules \ Excess(request.existing, request.count))
    /\ header' = Header(request.count, "complete")
    /\ closing' = [closing EXCEPT ![g].pc = "read back"]
    /\ disturbed' = disturbed \cup Others(g)
    /\ torn' = (torn \/ (DOMAIN modules' # DOMAIN modules /\ CheckedByAnother(g)))
    /\ UNCHANGED <<panel, whole, answer, repeats, stopped>>

\* findByStudentAndLevel, one query each for the header and the modules: the
\* second decides what is shown, whatever count the header announced.
Shown == {<<i, modules[i]>> : i \in DOMAIN modules}

\* A draft cannot be read back: 500, and the panel closes again.
ReadHeaderBack(g) ==
    /\ closing[g].pc = "read back"
    /\ closing' = [closing EXCEPT ![g] = IF header.status = "complete"
                                         THEN [@ EXCEPT !.pc = "modules"] ELSE NoRequest]
    /\ UNCHANGED <<header, modules, panel, whole, answer, repeats, stopped, disturbed, torn>>

ReadModulesBack(g) ==
    /\ closing[g].pc = "modules"
    /\ answer' = [answer EXCEPT ![g] = Shown]
    /\ closing' = [closing EXCEPT ![g] = NoRequest]
    /\ UNCHANGED <<header, modules, panel, whole, repeats, stopped, disturbed, torn>>

\* A restart or a lost connection: what was written stays.
FinishStops(g) ==
    /\ closing[g].pc # "none"
    /\ stopped < MaxStopped
    /\ stopped' = stopped + 1
    /\ closing' = [closing EXCEPT ![g] = NoRequest]
    /\ UNCHANGED <<header, modules, panel, whole, answer, repeats, disturbed, torn>>

-----------------------------------------------------------------------------
(* The whole material in one request *)

\* saveAll reads the header before the batch, to know what was there.
Consolidate(g) ==
    /\ panel[g].size > 0 /\ panel[g].written = Below(panel[g].size)
    /\ panel[g].sent = {} /\ answer[g] = NoAnswer
    /\ whole[g].pc = "none"
    /\ whole' = [whole EXCEPT ![g] = [NoRequest EXCEPT !.pc = "commit", !.count =
                                        IF header = NoHeader THEN 0 ELSE header.count]]
    /\ UNCHANGED <<header, modules, panel, closing, answer, repeats, stopped, disturbed, torn>>

\* queueOrphanDeletes: from the new count up to the one that was read.
Orphans(previous, count) == {i \in Indices : i >= count /\ i < previous}

SaveAll(g) ==
    LET count == panel[g].size
        orphans == Orphans(whole[g].count, count)
    IN  /\ whole[g].pc = "commit"
        /\ header' = Header(count, "complete")
        /\ modules' = Put(Restrict(modules, DOMAIN modules \ orphans), g, Below(count))
        /\ whole' = [whole EXCEPT ![g].pc = "done"]
        /\ panel' = [panel EXCEPT ![g].sent = Below(count)]
        /\ answer' = [answer EXCEPT ![g] = Below(count) \X {g}]
        /\ disturbed' = disturbed \cup Others(g)
        /\ torn' = (torn \/ (orphans # {} /\ CheckedByAnother(g)))
        /\ UNCHANGED <<closing, repeats, stopped>>

-----------------------------------------------------------------------------
HandlerNext(g) ==
    \/ CheckModules(g) \/ ReadExisting(g) \/ MarkComplete(g)
    \/ ReadHeaderBack(g) \/ ReadModulesBack(g) \/ SaveAll(g)

PanelNext(g) ==
    \/ \E n \in 1 .. MaxModules : GenerateSkeleton(g, n)
    \/ \E i \in Indices : GenerateTopic(g, i)
    \/ \E i \in Indices : ConsolidateModule(g, i)
    \/ FinishConsolidation(g)
    \/ Consolidate(g)

SupplyNext == \E g \in Generations : HandlerNext(g) \/ PanelNext(g) \/ FinishStops(g)

SupplySpec == SupplyInit /\ [][SupplyNext]_supplyVars

\* A panel that started goes on until it is answered: it writes what is missing,
\* sends again what a 409 listed and closes again after an error.
Persists(g) ==
    /\ \A i \in Indices :
          /\ WF_supplyVars(GenerateTopic(g, i))
          /\ SF_supplyVars(i \notin panel[g].sent /\ ConsolidateModule(g, i))
    /\ WF_supplyVars(panel[g].sent = Below(panel[g].size) /\ FinishConsolidation(g))
    /\ WF_supplyVars(HandlerNext(g))

FairSupplySpec == SupplySpec /\ \A g \in Generations : Persists(g)
=============================================================================
