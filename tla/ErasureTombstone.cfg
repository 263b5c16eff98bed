\* One account of two is erased; no other writer of the row is needed.
SPECIFICATION Spec
CHECK_DEADLOCK FALSE
CONSTANTS
    User = {u1, u2}
    Caller = {c1}
    Purger = {p1}
    Editor = {e1}
    MaxRequests = 2
    MaxEdits = 0
INVARIANT TombstoneHoldsNoIdentity
