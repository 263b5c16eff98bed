\* Two or three overlapping requests at a time; requests, days and the clocks of limiter and breaker are bounded, so a behaviour ends.
SPECIFICATION UsersSpec
SYMMETRY MCSymmetry
CHECK_DEADLOCK FALSE
CONSTANTS
    Application = {a1, a2}
    CodeSet = {{c1, c2}, {c3}}
    UserWriter = {w1, w2}
    MaxTasks = 4
    Gift = {g1}
    Caller = {u1, u2}
    Period = 1
    GiftLife = 1
    MaxSubs = 3
    MaxCalls = 4
    MaxDay = 2
    Comment = {k1, k2}
    Reporter = {r1, r2}
    Request = {q1, q2}
    MaxDepth = 2
    MaxRequests = 5
    Member = {m1, m2, m3}
    Share = {4000, 6001}
    Whole = 10001
    Editor = {q1, q2}
    MaxEdits = 5
    N = 2
    Finaliser = {q1, q2}
    MaxReceived = 3
    MaxMerges = 3
    MaxLapses = 1
    Instance = {i1, i2}
    Window = 2
    Limit = 2
    MaxHits = 3
    MaxClock = 3
    Guest = {g1, g2}
    Visit = {v1, v2}
    MaxVisits = 4
    MaxInvited = 2
    Pin = {p1, p2, p3}
    Threshold = 2
    MaxAttempts = 2
    ResetTimeout = 2
    MaxFailures = 5
    MaxTime = 5
INVARIANTS
    CodeUsedOnce
    BadgeAgrees
    OneActiveSubscription
    HiddenAsResolved
    SharesWithin100
    OneWholeSongPerUpload
    WindowHolds
    AccessAsGranted
    BreakerRests
