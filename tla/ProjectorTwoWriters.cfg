\* Two writers, one runner, every insert over within the settle window.
SPECIFICATION Spec
CONSTANTS
    Event = {e1, e2}
    Writer = {w1, w2}
    Runner = {r1}
    BatchSize = 1
    Settle = 2
    MaxInsert = 1
    MaxTime = 6
    MaxSeq = 3
    MaxFaults = 0
CHECK_DEADLOCK FALSE
INVARIANTS
    ExactlyOnce
