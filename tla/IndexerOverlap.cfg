\* Two invocations in flight, no rejected call, RPC nodes in step.
SPECIFICATION Spec
CONSTANTS
    NumEvents = 3
    LedgerOf <- MCShortLedgerOf
    Undecodable = {}
    Poll = {p1, p2}
    PageSize = 1
    OverlapWindow = 2
    GapThreshold = 1
    RpcLag = 0
    MaxLedger = 4
    MaxFaults = 0
    CounterDigits = 7
INVARIANTS
    IdleCursorSkipsNothing
