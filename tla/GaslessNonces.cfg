\* Nonces under crashes, dropped transactions and reverted blocks.
CONSTANTS
    k1 = k1  k1ss58 = k1ss58  k2 = k2  a1 = a1  a2 = a2
    N = 3
    Key <- AllKeys
    HexKey <- HexKeys
    Account <- AllAccounts
    AccountOf <- AllAccountOf
    Kinds = {"request", "issue"}
    Faults = {"throw", "drop", "crash", "retract"}
SPECIFICATION Spec
CHECK_DEADLOCK FALSE
INVARIANTS
    NoncesNeverCollide
    WaitersHaveAnOperation
