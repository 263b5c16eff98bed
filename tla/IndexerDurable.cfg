\* An upsert may throw.
SPECIFICATION Spec
CONSTANTS
    NumEvents = 6
    LedgerOf <- MCLedgerOf
    Undecodable = {4}
    Poll = {p1}
    PageSize = 2
    OverlapWindow = 2
    GapThreshold = 1
    RpcLag = 1
    MaxLedger = 7
    MaxFaults = 1
    CounterDigits = 4
INVARIANTS
    CursorOnlyCoversDurable
