\* Two overlapping requests of one account, several refreshes; Numbers exact
\* below 4, so that 9 is rounded to 8 and 11 and 13 to the threshold.
CONSTANTS
    Client = {c1}
    Amounts = {9, 11, 13}
    Threshold = 12
    Exact = 4
    Slot = {s1, s2}
    Nonces = 2
    MaxTime = 5
    NonceTTL = 2
    JwtTTL = 2
    RefreshMin = 1
    Skew = 1
    Durations = {0, 1}
    Recheck = TRUE
    MaxLatency = 1
SPECIFICATION Spec
CHECK_DEADLOCK FALSE
INVARIANTS
    NonceBuysOneToken
    AccessFollowsTokens
    ConnectionsBounded
