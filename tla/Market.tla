------------------------------- MODULE Market -------------------------------
(***************************************************************************)
(* The contract contracts/module-toggles/oracle-admin-wrapper: an oracle   *)
(* price that only the admin sets, through the wrapper service, and a      *)
(* market that quotes and opens positions at it.  The services share one   *)
(* program, so an action is one message; a call that returns Err panics    *)
(* and changes nothing, which is a stuttering step.  Traders decide on     *)
(* what they read, and the price moves before their message is executed.   *)
(***************************************************************************)
EXTENDS Integers

CONSTANTS
    Trader,      \* actors that call the market
    Admin,       \* the actor that created the program
    Price,       \* values the admin sets, 0 included
    Amount,      \* values of amount_tokens
    PriceScale,  \* PRICE_SCALE: 10^18, small in the runs
    MaxU128,     \* u128::MAX, small in the runs
    Zero         \* ActorId::zero()

ASSUME MarketAssumption == /\ Zero \notin Trader
                           /\ PriceScale \in Nat \ {0}
                           /\ MaxU128 \in Nat
                           /\ Price \subseteq 0 .. MaxU128
                           /\ Amount \subseteq 0 .. MaxU128

VARIABLES
    price,      \* Program.oracle
    lastQuote,  \* MarketStorage.last_quote_usd
    lastTrader, \* MarketStorage.last_trader
    ceiling,    \* ceiling[t]: the price t read last, its max_acceptable_price
    position    \* position[t]: what t asked for last and what it cost

marketVars == <<price, lastQuote, lastTrader, ceiling, position>>

Word == 0 .. MaxU128
Position == [amount : Word, limit : Word, cost : Word]
NoPosition == [amount |-> 0, limit |-> 0, cost |-> 0]

MarketTypeOK ==
    /\ price \in Word
    /\ lastQuote \in Word
    /\ lastTrader \in Trader \cup {Zero}
    /\ ceiling \in [Trader -> Word]
    /\ position \in [Trader -> Position]

MarketInit ==
    /\ price = 0
    /\ lastQuote = 0
    /\ lastTrader = Zero
    /\ ceiling = [t \in Trader |-> 0]
    /\ position = [t \in Trader |-> NoPosition]

-----------------------------------------------------------------------------
SaturatingMul(x, y) == IF x * y > MaxU128 THEN MaxU128 ELSE x * y

(* Mutant: the product neither saturates nor is scaled. *)
QuoteUnscaled(amount, p) == amount * p

Quote(amount, p) == SaturatingMul(amount, p) \div PriceScale

EnsureAdmin(source) == source = Admin

UpdatePrice(source, value) ==
    /\ EnsureAdmin(source)
    /\ price' = value
    /\ UNCHANGED <<lastQuote, lastTrader, ceiling, position>>

(* get_price: a trader reads the price and takes it as its limit. *)
GetPrice(t) == /\ ceiling' = [ceiling EXCEPT ![t] = price]
               /\ UNCHANGED <<price, lastQuote, lastTrader, position>>

(* Mutant: no slippage guard. *)
NoSlippageGuard(limit) == price # 0

Acceptable(limit) == price # 0 /\ price <= limit

Store(t, quote) == lastQuote' = quote /\ lastTrader' = t

OpenPosition(t, amount, limit) ==
    /\ Acceptable(limit)
    /\ LET quote == Quote(amount, price)
       IN  /\ Store(t, quote)
           /\ position' = [position EXCEPT ![t] =
                 [amount |-> amount, limit |-> limit, cost |-> quote]]
    /\ UNCHANGED <<price, ceiling>>

MarketNext ==
    \/ \E s \in Trader \cup {Admin}, v \in Price : UpdatePrice(s, v)
    \/ \E t \in Trader : \/ GetPrice(t)
                         \/ \E a \in Amount : OpenPosition(t, a, ceiling[t])

MarketSpec == MarketInit /\ [][MarketNext]_marketVars

-----------------------------------------------------------------------------
(* Properties.                                                             *)

(* A trader that limits the price to one it has read never pays more than  *)
(* the exact value of its tokens at that price, however the price moves    *)
(* before its message is executed, and also where the product saturates.   *)
NeverAboveLimit ==
    \A t \in Trader :
        position[t].cost * PriceScale <= position[t].amount * position[t].limit
=============================================================================
