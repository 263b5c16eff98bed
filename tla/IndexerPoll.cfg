\* One invocation at a time, fair, with faults.
SPECIFICATION FairSpec
CONSTANTS
    NumEvents = 6
    LedgerOf <- MCLedgerOf
    Undecodable = {4}
    Poll = {p1}
    PageSize = 2
    OverlapWindow = 2
    GapThreshold = 1
    RpcLag = 1
    MaxLedger = 7
    MaxFaults = 2
    CounterDigits = 4
INVARIANTS
    CursorSkipsNothing
PROPERTIES
    ImplementsCursorLog
    PollTerminates
    OldEventsAreReached
