\* Two requests of each kind over one row; requests are bounded, so a behaviour ends.
SPECIFICATION RecordsSpec
SYMMETRY MCSymmetry
CHECK_DEADLOCK FALSE
CONSTANTS
    Account = {a1}
    MaxTokens = 4
    Nonce = {n1}
    Request = {r1, r2}
    MaxLost = 1
    User = {u1, u2}
    Caller = {c1}
    Purger = {j1}
    Editor = {e1}
    MaxRequests = 2
    MaxEdits = 1
    Takedown = {t1, t2}
    Report = {c1}
    ReportThreshold = 1
    SongWriter = {w1, w2}
    MaxWriters = 3
    Revision = {r1, r2}
    MaxRevised = 4
    Fan = {f1}
    Track = {k1, k2}
    Publisher = {p1, p2}
    MaxPreSaves = 2
    MaxPublishes = 3
    Entry = {e1, e2, e3}
    Arranger = {w1, w2}
    MaxRows = 3
    MaxArranged = 2
    Kid = {k1, k2}
    Ttl = 3
    StaleTtl = 4
    NegativeTtl = 2
    Threshold = 2
    ResetTimeout = 2
    MaxTime = 5
INVARIANTS
    OneLineOfTokens
    RevocationHolds
    ErasedAsAsked
    LandedIsMinted
    TakenDownStaysHidden
    AtMostOneActive
    ServedIsActive
    PreSavesAreFulfilled
    PositionsDistinct
    RotationCatchesOn
PROPERTIES
    ErasureIsFinal
