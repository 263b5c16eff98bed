\* A poll within the gap threshold.
SPECIFICATION Spec
CONSTANTS
    NumEvents = 6
    LedgerOf <- MCLedgerOf
    Undecodable = {4}
    Poll = {p1}
    PageSize = 2
    OverlapWindow = 2
    GapThreshold = 3
    RpcLag = 0
    MaxLedger = 7
    MaxFaults = 0
    CounterDigits = 4
PROPERTIES
    NormalProgressionFetches
