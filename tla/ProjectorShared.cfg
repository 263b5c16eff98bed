\* Two writers and two runners (the worker's loop and the CLI), fair.
SPECIFICATION FairSpec
CONSTANTS
    Event = {e1, e2}
    Writer = {w1, w2}
    Runner = {r1, r2}
    BatchSize = 1
    Settle = 1
    MaxInsert = 1
    MaxTime = 3
    MaxSeq = 2
    MaxFaults = 1
CHECK_DEADLOCK FALSE
INVARIANTS
    AtMostOnce
    SkipsOnlyOvertaken
PROPERTIES
    NeverLess
    RowsAreReached
    RebuildHeals
