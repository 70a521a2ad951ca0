\* Two panels that generate the material of one student at one level, over
\* nothing or over a legacy document, with one save that arrives twice.
SPECIFICATION FairSupplySpec
CONSTANTS
    Generations = {g1, g2}
    MaxModules = 2
    MaxRepeats = 1
    MaxStopped = 1
    NoHeader = NoHeader
    NoAnswer = NoAnswer
CHECK_DEADLOCK FALSE
INVARIANT MaterialIsWhole
PROPERTY EveryPanelIsAnswered
