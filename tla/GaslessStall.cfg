\* The node drops a submitted transaction.
CONSTANTS
    k1 = k1  k1ss58 = k1ss58  k2 = k2  a1 = a1  a2 = a2
    N = 2
    Key <- OneKey
    HexKey <- OneHexKey
    Account <- OneAccount
    AccountOf <- OneAccountOf
    Kinds = {"request"}
    Faults = {"drop"}
SPECIFICATION FairSpec
CHECK_DEADLOCK FALSE
PROPERTIES
    EveryRequestAnswered
