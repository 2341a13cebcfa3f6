-------------------------- MODULE MCGaslessServer --------------------------
(* Instances of GaslessServer for TLC: two accounts, one of which clients  *)
(* write in two ways (hex and SS58).                                       *)
EXTENDS GaslessServer

CONSTANTS k1, k1ss58, k2, a1, a2

OneKey == {k1}
OneAccount == {a1}
OneAccountOf == [k \in OneKey |-> a1]

HexKeys == {k1, k2}
OneHexKey == {k1}

TwoKeys == {k1, k1ss58}
TwoKeysOneAccountOf == [k \in TwoKeys |-> a1]

AllKeys == {k1, k1ss58, k2}
AllAccounts == {a1, a2}
AllAccountOf == [k \in AllKeys |-> IF k = k2 THEN a2 ELSE a1]
=============================================================================
