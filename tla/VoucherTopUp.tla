---------------------------- MODULE VoucherTopUp ----------------------------
(***************************************************************************)
(* How GaslessService.prolong computes the top-up of a voucher: it reads   *)
(* the balance, works in whole VARA (BigInt division truncates), and       *)
(* submits an update that adds the difference to the requested final       *)
(* balance.  Calls wait for each other in the submission queue             *)
(* (GaslessServer), but an update may outlive its call: the process        *)
(* restarts while it waits in the pool, or its block is reverted.  The     *)
(* spender waits for nobody.                                               *)
(***************************************************************************)
EXTENDS Integers

CONSTANTS
    Unit,      \* planck per VARA: 10^12, small in the runs
    Targets,   \* values of the `balance` argument
    Calls,     \* bound on the prolong calls
    Reverts,   \* bound on the reverted blocks
    Initial    \* planck on the voucher at first

ASSUME TopUpAssumption == /\ Unit \in Nat \ {0}
                          /\ Targets \subseteq Nat
                          /\ Calls \in Nat
                          /\ Reverts \in Nat
                          /\ Initial \in Nat

ProlongCall == 1 .. Calls

VARIABLES
    prolong,   \* how far the last call is; "idle": it is over
    target,    \* its `balance` argument
    seen,      \* the balance it read
    highest,   \* the highest target of any call so far
    calls,     \* calls made
    topUp,     \* per call: balanceTopUp of its update
    update,    \* per call: where its update is
    balance,   \* planck on the voucher in the best block
    finalized, \* planck on the voucher in the last finalized block
    reverts,   \* blocks reverted
    late       \* history: planck that came behind the last call's back

prolongVars == <<prolong, target, seen, highest, calls, topUp>>
topUpVars == <<prolongVars, update, balance, finalized, reverts, late>>

TopUpTypeOK ==
    /\ prolong \in {"idle", "read", "submitted"}
    /\ target \in Nat /\ seen \in Nat /\ highest \in Nat
    /\ calls \in 0 .. Calls
    /\ topUp \in [ProlongCall -> Nat]
    /\ update \in [ProlongCall -> {"none", "pool", "block", "back"}]
    /\ balance \in Nat /\ finalized \in Nat /\ late \in Nat
    /\ reverts \in 0 .. Reverts

TopUpInit ==
    /\ prolong = "idle"
    /\ target = 0 /\ seen = 0 /\ highest = 0
    /\ calls = 0
    /\ topUp = [c \in ProlongCall |-> 0]
    /\ update = [c \in ProlongCall |-> "none"]
    /\ balance = Initial /\ finalized = Initial
    /\ reverts = 0
    /\ late = 0

(* Mutants: rounding up, the argument taken for a delta, no `topUp > 0n`. *)
TopUpRoundedUp(wanted, current) ==
    LET missing == wanted - ((current + Unit - 1) \div Unit)
    IN  IF missing > 0 THEN missing * Unit ELSE 0

TopUpByDelta(wanted, current) == wanted * Unit

TopUpUnclamped(wanted, current) == (wanted - (current \div Unit)) * Unit

(* balanceTopUp, 0 when the parameter is left out. *)
TopUp(wanted, current) ==
    LET missing == wanted - (current \div Unit)
    IN  IF missing > 0 THEN missing * Unit ELSE 0

-----------------------------------------------------------------------------
(* The server.                                                             *)

ReadBalance(t) ==
    /\ prolong = "idle"
    /\ calls < Calls
    /\ calls' = calls + 1
    /\ prolong' = "read"
    /\ target' = t
    /\ seen' = balance
    /\ highest' = IF t > highest THEN t ELSE highest
    /\ UNCHANGED <<topUp, update, balance, finalized, reverts, late>>

SubmitUpdate ==
    /\ prolong = "read"
    /\ prolong' = "submitted"
    /\ topUp' = [topUp EXCEPT ![calls] = TopUp(target, seen)]
    /\ update' = [update EXCEPT ![calls] = "pool"]
    /\ UNCHANGED <<target, seen, highest, calls, balance, finalized, reverts, late>>

(* Fetching the nonce fails, or the process restarts: the call is over and *)
(* a submitted update stays where it is.                                   *)
CallEnds ==
    /\ prolong # "idle"
    /\ prolong' = "idle"
    /\ UNCHANGED <<target, seen, highest, calls, topUp,
                   update, balance, finalized, reverts, late>>

-----------------------------------------------------------------------------
(* The node.                                                               *)

(* Does the update come unseen by the last read: of an earlier call, or    *)
(* back from a reverted block?                                             *)
IsLate(c) == c # calls \/ update[c] = "back"

(* An update gets into a block, where it succeeds or fails, and its call   *)
(* settles if it still runs.  Nonces order the updates, unless the nonce   *)
(* of a dropped one is taken again: any order is possible.                 *)
IncludeUpdate(c, ok) ==
    /\ update[c] \in {"pool", "back"}
    /\ update' = [update EXCEPT ![c] = "block"]
    /\ prolong' = IF c = calls /\ prolong = "submitted" THEN "idle" ELSE prolong
    /\ balance' = IF ok THEN balance + topUp[c] ELSE balance
    /\ late' = IF ok /\ IsLate(c) THEN late + topUp[c] ELSE late
    /\ UNCHANGED <<target, seen, highest, calls, topUp, finalized, reverts>>

(* The pool drops the update; the status callback ignores it, and the call *)
(* never settles.                                                          *)
DropUpdate(c) ==
    /\ update[c] \in {"pool", "back"}
    /\ update' = [update EXCEPT ![c] = "none"]
    /\ UNCHANGED <<prolongVars, balance, finalized, reverts, late>>

FinalizeBlock ==
    /\ finalized' = balance
    /\ update' = [c \in ProlongCall |-> IF update[c] = "block" THEN "none" ELSE update[c]]
    /\ UNCHANGED <<prolongVars, balance, reverts, late>>

(* The blocks since the finalized one are reverted: their updates return   *)
(* to the pool, and what was spent in them returns to the voucher.         *)
RevertBlock ==
    /\ reverts < Reverts
    /\ reverts' = reverts + 1
    /\ balance' = finalized
    /\ update' = [c \in ProlongCall |-> IF update[c] = "block" THEN "back" ELSE update[c]]
    /\ late' = IF finalized > balance THEN late + (finalized - balance) ELSE late
    /\ UNCHANGED <<prolongVars, finalized>>

Spend == /\ balance > 0
         /\ balance' = balance - 1
         /\ UNCHANGED <<prolongVars, update, finalized, reverts, late>>

TopUpNext ==
    \/ \E t \in Targets : ReadBalance(t)
    \/ SubmitUpdate
    \/ CallEnds
    \/ \E c \in ProlongCall, ok \in BOOLEAN : IncludeUpdate(c, ok)
    \/ \E c \in ProlongCall : DropUpdate(c)
    \/ FinalizeBlock
    \/ RevertBlock
    \/ Spend

TopUpSpec == TopUpInit /\ [][TopUpNext]_topUpVars

-----------------------------------------------------------------------------
(* Overlapping calls do not add up: whatever is called and spent, the      *)
(* voucher never holds a whole VARA more than the highest balance asked    *)
(* for, unless it did from the start.  What exceeds this came late: an     *)
(* update that outlived its call or was reverted, or reverted spending.    *)
NeverOverfilled ==
    \/ balance < (highest + 1) * Unit + late
    \/ balance <= Initial + late

(* A successful prolong leaves the balance asked for, less at most what    *)
(* the spender took since the balance was read.                            *)
ReachesTarget ==
    [][(prolong = "submitted" /\ prolong' = "idle" /\ balance' # balance)
         => balance' >= target * Unit - (seen - balance)]_topUpVars
=============================================================================
