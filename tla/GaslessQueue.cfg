\* All endpoints and every fault that does not restart the server or revert
\* a block; the same account under two strings.
CONSTANTS
    k1 = k1  k1ss58 = k1ss58  k2 = k2  a1 = a1  a2 = a2
    N = 4
    Key <- TwoKeys
    HexKey <- OneHexKey
    Account <- OneAccount
    AccountOf <- TwoKeysOneAccountOf
    Kinds = {"request", "issue", "prolong", "revoke"}
    Faults = {"throw", "drop", "expire"}
SPECIFICATION FairSpec
CHECK_DEADLOCK FALSE
INVARIANTS
    TypeOK
PROPERTIES
    ImplementsDesk
    AnsweredUnlessLost
