-------------------------- MODULE ComponentProofs ---------------------------
(***************************************************************************)
(* The components that stand alone: the market of the oracle contract, the *)
(* factory, the top-up of a voucher and the buttons of the frontend.  Each *)
(* has an inductive invariant of its own and a section of its own here.    *)
(***************************************************************************)
EXTENDS Market, Factory, VoucherTopUp, SendButton, FiniteSetTheorems, TLAPS

-----------------------------------------------------------------------------
(* Whole units: what BigInt and u128 division leave out is less than one.  *)

LEMMA DivisionTruncates ==
    ASSUME NEW n \in Nat, NEW u \in Nat \ {0}
    PROVE  /\ n \div u \in Nat
           /\ (n \div u) * u <= n
           /\ n < (n \div u) * u + u
OBVIOUS

LEMMA ProductIsMonotone ==
    ASSUME NEW x \in Nat, NEW y \in Nat, NEW u \in Nat, x <= y
    PROVE  x * u \in Nat /\ y * u \in Nat /\ x * u <= y * u
OBVIOUS

-----------------------------------------------------------------------------
(* The market.                                                             *)

(* A quote never exceeds the exact value of the tokens, where the product  *)
(* saturates too.                                                          *)
LEMMA QuoteIsBelowValue ==
    ASSUME MarketAssumption, NEW amount \in Word, NEW p \in Word
    PROVE  Quote(amount, p) \in Word /\ Quote(amount, p) * PriceScale <= amount * p
<1> DEFINE product == SaturatingMul(amount, p)
<1>1. amount \in Nat /\ p \in Nat /\ MaxU128 \in Nat /\ PriceScale \in Nat \ {0}
  BY DEF MarketAssumption, Word
<1>2. product \in Nat /\ product <= MaxU128 /\ product <= amount * p /\ amount * p \in Nat
  BY <1>1 DEF SaturatingMul
<1> HIDE DEF product
<1>3. /\ product \div PriceScale \in Nat
      /\ (product \div PriceScale) * PriceScale <= product
  BY <1>1, <1>2, DivisionTruncates
<1>4. product \div PriceScale <= (product \div PriceScale) * PriceScale
  <2> \A q \in Nat, u \in Nat \ {0} : q <= q * u
    OBVIOUS
  <2> QED BY <1>1, <1>3
<1>5. \A q \in Nat, r \in Nat : q <= r => q <= MaxU128 \/ r > MaxU128
  BY <1>1
<1>6. product \div PriceScale \in Word
  <2> DEFINE q == product \div PriceScale
            r == q * PriceScale
  <2>1. q \in Nat /\ r \in Nat /\ q <= r /\ r <= product
    BY <1>1, <1>3, <1>4
  <2> HIDE DEF q, r
  <2>2. q \in Word
    BY <1>1, <1>2, <2>1 DEF Word
  <2> QED BY <2>2 DEF q
<1>7. (product \div PriceScale) * PriceScale <= amount * p
  <2> DEFINE r == (product \div PriceScale) * PriceScale
            v == amount * p
  <2>1. r \in Nat /\ v \in Nat /\ r <= product /\ product <= v
    BY <1>1, <1>2, <1>3
  <2> HIDE DEF r, v
  <2>2. r <= v
    BY <1>2, <2>1
  <2> QED BY <2>2 DEF r, v
<1> QED BY <1>6, <1>7 DEF Quote, product

MarketInv == MarketTypeOK /\ NeverAboveLimit

LEMMA MarketInvInit == MarketInit => MarketInv
<1> SUFFICES ASSUME MarketInit PROVE MarketInv
  OBVIOUS
<1> USE MarketAssumption DEF MarketAssumption
<1>1. MarketTypeOK
  BY DEF MarketInit, MarketTypeOK, Word, Position, NoPosition
<1>2. NeverAboveLimit
  <2>1. 0 * PriceScale <= 0 * 0
    <3>1. \A u \in Nat : 0 * u <= 0 * 0
      OBVIOUS
    <3>2. PriceScale \in Nat
      OBVIOUS
    <3> QED BY <3>1, <3>2, Zenon
  <2>2. \A t \in Trader : /\ position[t].cost = 0
                          /\ position[t].amount = 0 /\ position[t].limit = 0
    BY DEF MarketInit, NoPosition
  <2> QED BY <2>1, <2>2, Zenon DEF NeverAboveLimit
<1> QED BY <1>1, <1>2, Zenon DEF MarketInv

(* A position is charged at the price of its execution, which the guard    *)
(* keeps below the trader's limit.                                         *)
LEMMA MarketInvStep == MarketInv /\ [MarketNext]_marketVars => MarketInv'
<1> SUFFICES ASSUME MarketInv, [MarketNext]_marketVars PROVE MarketInv'
  OBVIOUS
<1>0. MarketTypeOK /\ NeverAboveLimit
  BY Zenon DEF MarketInv
<1>1. ASSUME NEW s \in Trader \cup {Admin}, NEW v \in Price, UpdatePrice(s, v)
      PROVE  MarketInv'
  <2>1. v \in Word
    BY MarketAssumption DEF MarketAssumption, Word
  <2>2. MarketTypeOK'
    BY <1>0, <1>1, <2>1, Zenon DEF MarketTypeOK, UpdatePrice
  <2> QED BY <1>0, <1>1, <2>2, Zenon
          DEF MarketInv, UpdatePrice, NeverAboveLimit
<1>2. ASSUME NEW t \in Trader, GetPrice(t) PROVE MarketInv'
  <2>1. MarketTypeOK'
    BY <1>0, <1>2 DEF MarketTypeOK, GetPrice
  <2> QED BY <1>0, <1>2, <2>1, Zenon
          DEF MarketInv, GetPrice, NeverAboveLimit
<1>3. ASSUME NEW t \in Trader, NEW a \in Amount, OpenPosition(t, a, ceiling[t])
      PROVE  MarketInv'
  <2> DEFINE quote == Quote(a, price)
             new == [amount |-> a, limit |-> ceiling[t], cost |-> quote]
  <2>1. a \in Word /\ price \in Word /\ ceiling[t] \in Word
    BY <1>0, MarketAssumption DEF MarketAssumption, MarketTypeOK, Word
  <2>2. quote \in Word /\ quote * PriceScale <= a * price
    BY <2>1, MarketAssumption, QuoteIsBelowValue, Zenon
  <2>3. /\ price <= ceiling[t]
        /\ lastQuote' = quote /\ lastTrader' = t
        /\ position' = [position EXCEPT ![t] = new]
        /\ UNCHANGED <<price, ceiling>>
    BY <1>3, Zenon DEF OpenPosition, Acceptable, Store
  <2> HIDE DEF quote
  <2>4. new \in Position
    BY <2>1, <2>2 DEF Position
  <2>5. new.amount = a /\ new.limit = ceiling[t] /\ new.cost = quote
    OBVIOUS
  <2> HIDE DEF new
  <2>6. position'[t] = new /\ \A u \in Trader \ {t} : position'[u] = position[u]
    BY <1>0, <2>3 DEF MarketTypeOK
  <2>7. MarketTypeOK'
    <3>1. position' \in [Trader -> Position]
      BY <1>0, <2>3, <2>4 DEF MarketTypeOK
    <3> QED BY <1>0, <2>2, <2>3, <3>1, Zenon DEF MarketTypeOK
  <2>8. new.cost * PriceScale <= new.amount * new.limit
    <3> DEFINE value == a * price
               most == a * ceiling[t]
               charge == quote * PriceScale
    <3>1. value \in Nat /\ most \in Nat /\ charge \in Nat
      BY <2>1, <2>2, MarketAssumption DEF Word, MarketAssumption
    <3>2. value <= most
      <4> \A x, y, z \in Nat : y <= z => x * y <= x * z
        OBVIOUS
      <4> QED BY <2>1, <2>3, MarketAssumption DEF Word, MarketAssumption
    <3>3. charge <= value
      BY <2>2
    <3> HIDE DEF value, most, charge
    <3>4. charge <= most
      BY <3>1, <3>2, <3>3
    <3> QED BY <2>5, <3>4 DEF charge, most
  <2>9. NeverAboveLimit'
    <3> SUFFICES ASSUME NEW u \in Trader
                 PROVE  position'[u].cost * PriceScale
                          <= position'[u].amount * position'[u].limit
      BY Zenon DEF NeverAboveLimit
    <3> QED BY <1>0, <2>6, <2>8, Zenon DEF NeverAboveLimit
  <2> QED BY <2>7, <2>9, Zenon DEF MarketInv
<1>4. CASE UNCHANGED marketVars
  BY <1>0, <1>4, Zenon
     DEF marketVars, MarketInv, MarketTypeOK, NeverAboveLimit
<1> QED BY <1>1, <1>2, <1>3, <1>4, Zenon DEF MarketNext

(* The prices, quotes and limits stay within u128.                         *)
THEOREM MarketTypeCorrect == MarketSpec => []MarketTypeOK
<1>1. MarketInv => MarketTypeOK
  BY Zenon DEF MarketInv
<1> QED BY <1>1, MarketInvInit, MarketInvStep, PTL DEF MarketSpec

(* The slippage guard protects a trader at any scale, limit and width      *)
(* (market.rs: open_position).                                             *)
THEOREM LimitProtects == MarketSpec => []NeverAboveLimit
<1>1. MarketInv => NeverAboveLimit
  BY Zenon DEF MarketInv
<1> QED BY <1>1, MarketInvInit, MarketInvStep, PTL DEF MarketSpec

-----------------------------------------------------------------------------
(* The factory.                                                            *)

(* The runtime hands out addresses in order, none twice. *)
Numbered == Requested = 1 .. Cardinality(Requested)

(* A reply tells what became of the child. *)
RepliesTrue == \A m \in mailbox : child[m.address] = IF m.ok THEN "active" ELSE "failed"

OnlyOkReturns == \A c \in Call : phase[c] # "ok" => result[c] = None

FactoryInv == /\ FactoryTypeOK /\ Numbered /\ RepliesTrue /\ OnlyOkReturns
              /\ ReturnsItsOwnChild /\ EventsAreResults

LEMMA AddressesAreFinite == Cardinality(Call) \in Nat /\ IsFiniteSet(Address)
<1>1. Cardinality(Call) \in Nat
  BY FactoryAssumption, FS_CardinalityType, Zenon DEF FactoryAssumption
<1>2. 1 \in Int /\ Cardinality(Call) \in Int
  BY <1>1
<1>3. IsFiniteSet(1 .. Cardinality(Call))
  BY <1>2, FS_Interval, Zenon
<1> QED BY <1>1, <1>3, Zenon DEF Address

LEMMA RequestedIsFinite == IsFiniteSet(Requested) /\ Cardinality(Requested) \in Nat
<1>1. Requested \in SUBSET Address
  BY Zenon DEF Requested
<1>2. IsFiniteSet(Requested)
  BY <1>1, AddressesAreFinite, FS_Subset, Zenon
<1> QED BY <1>2, FS_CardinalityType, Zenon

LEMMA FactoryInvInit == FactoryInit => FactoryInv
<1> SUFFICES ASSUME FactoryInit PROVE FactoryInv
  OBVIOUS
<1>1. FactoryTypeOK
  <2>1. /\ phase \in [Call -> Phase]
        /\ result \in [Call -> Address \cup {None}]
        /\ child \in [Address -> Child]
        /\ parent \in [Address -> Call \cup {None}]
    BY DEF FactoryInit, Phase, Child
  <2>2. mailbox \in SUBSET Reply /\ events \in SUBSET Address
    BY Zenon DEF FactoryInit
  <2> QED BY <2>1, <2>2, Zenon DEF FactoryTypeOK
<1>2. Numbered
  <2>1. Requested = {}
    BY DEF FactoryInit, Requested
  <2>2. 1 .. 0 = {} /\ Cardinality({}) = 0
    <3>1. 1 .. 0 = {}
      OBVIOUS
    <3> QED BY <3>1, FS_EmptySet, Zenon
  <2> QED BY <2>1, <2>2, Zenon DEF Numbered
<1>3. RepliesTrue
  BY Zenon DEF FactoryInit, RepliesTrue
<1>4. \A c \in Call : phase[c] = "none" /\ result[c] = None
  BY Zenon DEF FactoryInit
<1>5. "none" # "ok"
  OBVIOUS
<1>6. OnlyOkReturns /\ ReturnsItsOwnChild
  BY <1>4, <1>5, Zenon DEF OnlyOkReturns, ReturnsItsOwnChild
<1>7. EventsAreResults
  BY <1>4, Zenon DEF EventsAreResults, FactoryInit
<1> QED BY <1>1, <1>2, <1>3, <1>6, <1>7, Zenon DEF FactoryInv

(* A new child has an address nobody was given.                            *)
LEMMA NextAddressIsFree ==
    ASSUME FactoryInv, NEW a, a = Cardinality(Requested) + 1, a \in Address
    PROVE  /\ child[a] = "none"
           /\ \A kids : kids = Requested \cup {a} => kids = 1 .. Cardinality(kids)
<1> DEFINE n == Cardinality(Requested)
<1>1. n \in Nat /\ IsFiniteSet(Requested)
  BY RequestedIsFinite, Zenon
<1>2. Requested = 1 .. n
  BY Zenon DEF FactoryInv, Numbered
<1> HIDE DEF n
<1>3. a = n + 1
  BY DEF n
<1>4. a \notin 1 .. n /\ (1 .. n) \cup {a} = 1 .. n + 1
  BY <1>1, <1>3
<1>5. a \notin Requested
  BY <1>2, <1>4, Zenon
<1>6. Cardinality(Requested \cup {a}) = n + 1
  BY <1>1, <1>5, FS_AddElement, Zenon DEF n
<1> QED BY <1>2, <1>4, <1>5, <1>6, Zenon DEF Requested

(* What does not touch the children, or only those that are not active,    *)
(* leaves the results as they were.                                        *)
LEMMA ResultsStay ==
    ASSUME FactoryInv, UNCHANGED <<result, events>>,
           \A c \in Call : phase'[c] = "ok" <=> phase[c] = "ok",
           \A a \in Address : child[a] = "active" =>
               child'[a] = "active" /\ parent'[a] = parent[a]
    PROVE  OnlyOkReturns' /\ ReturnsItsOwnChild' /\ EventsAreResults'
<1>1. OnlyOkReturns /\ ReturnsItsOwnChild /\ EventsAreResults /\ FactoryTypeOK
  BY Zenon DEF FactoryInv
<1>2. OnlyOkReturns'
  BY <1>1, Zenon DEF OnlyOkReturns
<1>3. EventsAreResults'
  BY <1>1, Zenon DEF EventsAreResults
<1>4. ASSUME NEW c \in Call, phase'[c] = "ok"
      PROVE  /\ result'[c] # None /\ parent'[result'[c]] = c
             /\ child'[result'[c]] = "active" /\ result'[c] \in events'
  <2>1. /\ result[c] # None /\ parent[result[c]] = c
        /\ child[result[c]] = "active" /\ result[c] \in events
    BY <1>1, <1>4, Zenon DEF ReturnsItsOwnChild
  <2>2. result[c] \in Address
    BY <1>1, <2>1, Zenon DEF FactoryTypeOK
  <2> QED BY <2>1, <2>2, Zenon
<1>5. ReturnsItsOwnChild'
  BY <1>4, Zenon DEF ReturnsItsOwnChild
<1> QED BY <1>2, <1>3, <1>5, Zenon

LEMMA CreateKeeps ==
    ASSUME FactoryInv, NEW c \in Call, CreateProgram(c) PROVE FactoryInv'
<1> DEFINE a == Cardinality(Requested) + 1
<1>0. FactoryTypeOK /\ Numbered /\ RepliesTrue
  BY Zenon DEF FactoryInv
<1>1. /\ phase[c] = "none" /\ phase' = [phase EXCEPT ![c] = "awaiting"]
      /\ child' = [child EXCEPT ![a] = "requested"]
      /\ parent' = [parent EXCEPT ![a] = c]
      /\ UNCHANGED <<result, mailbox, events>>
  BY Zenon DEF CreateProgram
<1>2. a \in Address => /\ child[a] = "none"
                       /\ \A kids : kids = Requested \cup {a} => kids = 1 .. Cardinality(kids)
  BY NextAddressIsFree, Zenon
<1> HIDE DEF a
<1>3. /\ phase' \in [Call -> Phase]
      /\ \A d \in Call : phase'[d] = "ok" <=> phase[d] = "ok"
  BY <1>0, <1>1 DEF FactoryTypeOK, Phase
<1>4. /\ child' \in [Address -> Child]
      /\ parent' \in [Address -> Call \cup {None}]
  BY <1>0, <1>1 DEF FactoryTypeOK, Child
<1>5. \A b \in Address : child[b] # "none" => child'[b] = child[b] /\ parent'[b] = parent[b]
  BY <1>0, <1>1, <1>2 DEF FactoryTypeOK
<1>6. FactoryTypeOK'
  BY <1>0, <1>1, <1>3, <1>4, Zenon DEF FactoryTypeOK
<1>7. RepliesTrue'
  <2> SUFFICES ASSUME NEW m \in mailbox
               PROVE  child'[m.address] = IF m.ok THEN "active" ELSE "failed"
    BY <1>1, Zenon DEF RepliesTrue
  <2>1. m.address \in Address
    BY <1>0 DEF FactoryTypeOK, Reply
  <2>2. child[m.address] = (IF m.ok THEN "active" ELSE "failed")
    BY <1>0, Zenon DEF RepliesTrue
  <2>3. child[m.address] # "none"
    BY <2>2
  <2> QED BY <1>5, <2>1, <2>2, <2>3, Zenon
<1>8. Numbered'
  <2>1. CASE a \in Address
    <3>1. Requested' = Requested \cup {a}
      BY <1>0, <1>1, <1>2, <2>1 DEF FactoryTypeOK, Requested
    <3> QED BY <1>2, <2>1, <3>1, Zenon DEF Numbered
  <2>2. CASE a \notin Address
    <3>1. Requested' = Requested
      BY <1>0, <1>1, <2>2 DEF FactoryTypeOK, Requested
    <3> QED BY <1>0, <3>1, Zenon DEF Numbered
  <2> QED BY <2>1, <2>2, Zenon
<1>9. OnlyOkReturns' /\ ReturnsItsOwnChild' /\ EventsAreResults'
  <2>1. \A b \in Address : child[b] = "active" =>
            child'[b] = "active" /\ parent'[b] = parent[b]
    <3>1. "active" # "none"
      OBVIOUS
    <3> QED BY <1>5, <3>1, Zenon
  <2> QED BY <1>1, <1>3, <2>1, ResultsStay, Zenon
<1> QED BY <1>6, <1>7, <1>8, <1>9, Zenon DEF FactoryInv

LEMMA NewKeeps ==
    ASSUME FactoryInv, NEW a \in Address, NEW ok \in BOOLEAN, New(a, ok)
    PROVE  FactoryInv'
<1> DEFINE state == IF ok THEN "active" ELSE "failed"
           reply == [address |-> a, ok |-> ok]
<1>0. FactoryTypeOK /\ Numbered /\ RepliesTrue
  BY Zenon DEF FactoryInv
<1>1. /\ child[a] = "requested" /\ child' = [child EXCEPT ![a] = state]
      /\ mailbox' = mailbox \cup {reply}
      /\ UNCHANGED <<phase, result, parent, events>>
  BY Zenon DEF New
<1>2. reply \in Reply /\ reply.address = a /\ reply.ok = ok
  BY DEF Reply
<1>3. state \in Child /\ state # "none"
  BY DEF Child
<1> HIDE DEF reply
<1>4. /\ child' \in [Address -> Child] /\ child'[a] = state
      /\ \A b \in Address \ {a} : child'[b] = child[b]
  <2> HIDE DEF state
  <2> QED BY <1>0, <1>1, <1>3 DEF FactoryTypeOK
<1>5. FactoryTypeOK'
  BY <1>0, <1>1, <1>2, <1>4, Zenon DEF FactoryTypeOK
<1>6. Numbered'
  <2>1. Requested' = Requested
    <3>1. child[a] # "none"
      BY <1>1
    <3>2. \A b \in Address : child'[b] # "none" <=> child[b] # "none"
      BY <1>3, <1>4, <3>1, Zenon
    <3> QED BY <3>2, Zenon DEF Requested
  <2> QED BY <1>0, <2>1, Zenon DEF Numbered
<1>7. RepliesTrue'
  <2> SUFFICES ASSUME NEW m \in mailbox'
               PROVE  child'[m.address] = IF m.ok THEN "active" ELSE "failed"
    BY Zenon DEF RepliesTrue
  <2>1. CASE m = reply
    BY <1>2, <1>4, <2>1, Zenon
  <2>2. CASE m \in mailbox
    <3>1. m.address \in Address
      BY <1>0, <2>2 DEF FactoryTypeOK, Reply
    <3>2. child[m.address] = (IF m.ok THEN "active" ELSE "failed")
      BY <1>0, <2>2, Zenon DEF RepliesTrue
    <3>3. m.address # a
      BY <1>1, <3>2
    <3> QED BY <1>4, <3>1, <3>2, <3>3, Zenon
  <2> QED BY <1>1, <2>1, <2>2, Zenon
<1>8. OnlyOkReturns' /\ ReturnsItsOwnChild' /\ EventsAreResults'
  <2>1. "requested" # "active"
    OBVIOUS
  <2>2. \A b \in Address : child[b] = "active" =>
            child'[b] = "active" /\ parent'[b] = parent[b]
    BY <1>1, <1>4, <2>1, Zenon
  <2> QED BY <1>1, <2>2, ResultsStay, Zenon
<1> QED BY <1>5, <1>6, <1>7, <1>8, Zenon DEF FactoryInv

(* A call that is told of its own child returns it and announces it, or    *)
(* fails and does neither.                                                 *)
LEMMA WakeKeeps ==
    ASSUME FactoryInv, NEW c \in Call, NEW m \in mailbox, Wake(c, m)
    PROVE  FactoryInv'
<1>0. /\ FactoryTypeOK /\ Numbered /\ RepliesTrue
      /\ OnlyOkReturns /\ ReturnsItsOwnChild /\ EventsAreResults
  BY Zenon DEF FactoryInv
<1>1. /\ phase[c] = "awaiting" /\ parent[m.address] = c
      /\ mailbox' = mailbox \ {m}
      /\ Finish(c, m)
      /\ UNCHANGED <<child, parent>>
  BY Zenon DEF Wake, ReplyTo
<1>2. m.address \in Address /\ m.ok \in BOOLEAN
  BY <1>0 DEF FactoryTypeOK, Reply
<1>3. Numbered'
  <2>1. Requested' = Requested
    BY <1>1, Zenon DEF Requested
  <2> QED BY <1>0, <2>1, Zenon DEF Numbered
<1>4. RepliesTrue'
  BY <1>0, <1>1, Zenon DEF RepliesTrue
<1>5. mailbox' \in SUBSET Reply
  BY <1>0, <1>1, Zenon DEF FactoryTypeOK
<1>6. CASE /\ m.ok
           /\ phase' = [phase EXCEPT ![c] = "ok"]
           /\ result' = [result EXCEPT ![c] = m.address]
           /\ events' = events \cup {m.address}
  <2>1. child[m.address] = "active"
    BY <1>0, <1>6, Zenon DEF RepliesTrue
  <2>2. m.address # None
    <3>1. Cardinality(Call) \in Nat
      BY AddressesAreFinite, Zenon
    <3> QED BY <1>2, <3>1 DEF Address, None
  <2>3. /\ phase' \in [Call -> Phase] /\ phase'[c] = "ok"
        /\ \A d \in Call \ {c} : phase'[d] = phase[d]
    BY <1>0, <1>6 DEF FactoryTypeOK, Phase
  <2>4. /\ result' \in [Call -> Address \cup {None}] /\ result'[c] = m.address
        /\ \A d \in Call \ {c} : result'[d] = result[d]
    BY <1>0, <1>2, <1>6 DEF FactoryTypeOK
  <2>5. FactoryTypeOK'
    <3>1. events' \in SUBSET Address
      BY <1>0, <1>2, <1>6, Zenon DEF FactoryTypeOK
    <3> QED BY <1>0, <1>1, <1>5, <2>3, <2>4, <3>1, Zenon DEF FactoryTypeOK
  <2>6. result[c] = None
    <3>1. "awaiting" # "ok"
      OBVIOUS
    <3> QED BY <1>0, <1>1, <3>1, Zenon DEF OnlyOkReturns
  <2>7. EventsAreResults'
    <3>1. events = {result[d] : d \in Call} \ {None}
      BY <1>0, Zenon DEF EventsAreResults
    <3>2. ASSUME NEW x PROVE x \in events' <=> \E d \in Call : x = result'[d] /\ x # None
      <4>1. x \in events <=> \E d \in Call \ {c} : x = result[d] /\ x # None
        BY <2>6, <3>1, Zenon
      <4>2. x \in events' <=> x \in events \/ x = m.address
        BY <1>6, Zenon
      <4> QED BY <2>2, <2>4, <4>1, <4>2, Zenon
    <3> QED BY <3>2, Zenon DEF EventsAreResults
  <2>8. OnlyOkReturns'
    BY <1>0, <2>3, <2>4, Zenon DEF OnlyOkReturns
  <2>9. ReturnsItsOwnChild'
    <3> SUFFICES ASSUME NEW d \in Call, phase'[d] = "ok"
                 PROVE  /\ result'[d] # None /\ parent[result'[d]] = d
                        /\ child[result'[d]] = "active" /\ result'[d] \in events'
      BY <1>1, Zenon DEF ReturnsItsOwnChild
    <3>1. CASE d = c
      BY <1>1, <1>6, <2>1, <2>2, <2>4, <3>1, Zenon
    <3>2. CASE d # c
      BY <1>0, <1>6, <2>3, <2>4, <3>2, Zenon DEF ReturnsItsOwnChild
    <3> QED BY <3>1, <3>2, Zenon
  <2> QED BY <1>3, <1>4, <2>5, <2>7, <2>8, <2>9, Zenon DEF FactoryInv
<1>7. CASE /\ phase' = [phase EXCEPT ![c] = IF m.ok THEN "emitFailed" ELSE "replyFailed"]
           /\ UNCHANGED <<result, events>>
  <2>1. /\ phase' \in [Call -> Phase]
        /\ \A d \in Call : phase'[d] = "ok" <=> phase[d] = "ok"
    <3>1. PICK failure \in {"emitFailed", "replyFailed"} :
               phase' = [phase EXCEPT ![c] = failure]
      BY <1>7, Zenon
    <3> QED BY <1>0, <1>1, <3>1 DEF FactoryTypeOK, Phase
  <2>2. FactoryTypeOK'
    BY <1>0, <1>1, <1>5, <1>7, <2>1, Zenon DEF FactoryTypeOK
  <2>3. OnlyOkReturns' /\ ReturnsItsOwnChild' /\ EventsAreResults'
    BY <1>1, <1>7, <2>1, ResultsStay, Zenon
  <2> QED BY <1>3, <1>4, <2>2, <2>3, Zenon DEF FactoryInv
<1> QED BY <1>1, <1>6, <1>7, Zenon DEF Finish

(* Calls that give up, and replies that find nobody.                       *)
LEMMA FailureKeeps ==
    ASSUME FactoryInv, UNCHANGED <<result, child, parent, events>>,
           phase' \in [Call -> Phase], mailbox' \subseteq mailbox,
           \A c \in Call : phase'[c] = "ok" <=> phase[c] = "ok"
    PROVE  FactoryInv'
<1>0. FactoryTypeOK /\ Numbered /\ RepliesTrue
  BY Zenon DEF FactoryInv
<1>1. FactoryTypeOK'
  BY <1>0, Zenon DEF FactoryTypeOK
<1>2. Numbered'
  <2>1. Requested' = Requested
    BY Zenon DEF Requested
  <2> QED BY <1>0, <2>1, Zenon DEF Numbered
<1>3. RepliesTrue'
  BY <1>0, Zenon DEF RepliesTrue
<1> QED BY <1>1, <1>2, <1>3, ResultsStay, Zenon DEF FactoryInv

LEMMA FactoryInvStep == FactoryInv /\ [FactoryNext]_factoryVars => FactoryInv'
<1> SUFFICES ASSUME FactoryInv, [FactoryNext]_factoryVars PROVE FactoryInv'
  OBVIOUS
<1>0. FactoryTypeOK
  BY Zenon DEF FactoryInv
<1>1. ASSUME NEW c \in Call, StartFails(c) \/ Timeout(c) PROVE FactoryInv'
  <2>1. PICK failure \in {"startFailed", "replyFailed"} :
             phase' = [phase EXCEPT ![c] = failure]
    BY <1>1, Zenon DEF StartFails, Timeout
  <2>2. phase[c] # "ok"
    BY <1>1 DEF StartFails, Timeout
  <2>3. /\ phase' \in [Call -> Phase]
        /\ \A d \in Call : phase'[d] = "ok" <=> phase[d] = "ok"
    BY <1>0, <2>1, <2>2 DEF FactoryTypeOK, Phase
  <2>4. UNCHANGED <<result, child, parent, mailbox, events>>
    BY <1>1, Zenon DEF StartFails, Timeout
  <2> QED BY <2>3, <2>4, FailureKeeps, Zenon
<1>2. ASSUME NEW c \in Call, CreateProgram(c) PROVE FactoryInv'
  BY <1>2, CreateKeeps, Zenon
<1>3. ASSUME NEW c \in Call, NEW m \in mailbox, Wake(c, m) PROVE FactoryInv'
  BY <1>3, WakeKeeps, Zenon
<1>4. ASSUME NEW a \in Address, NEW ok \in BOOLEAN, New(a, ok) PROVE FactoryInv'
  BY <1>4, NewKeeps, Zenon
<1>5. ASSUME NEW m \in mailbox, LateReply(m) PROVE FactoryInv'
  <2>1. mailbox' \subseteq mailbox /\ UNCHANGED <<phase, result, child, parent, events>>
    BY <1>5, Zenon DEF LateReply
  <2>2. phase' \in [Call -> Phase]
    BY <1>0, <2>1, Zenon DEF FactoryTypeOK
  <2> QED BY <2>1, <2>2, FailureKeeps, Zenon
<1>6. CASE UNCHANGED factoryVars
  <2>1. UNCHANGED <<phase, result, child, parent, mailbox, events>>
    BY <1>6, Zenon DEF factoryVars
  <2>2. phase' \in [Call -> Phase] /\ mailbox' \subseteq mailbox
    BY <1>0, <2>1, Zenon DEF FactoryTypeOK
  <2> QED BY <2>1, <2>2, FailureKeeps, Zenon
<1> QED BY <1>1, <1>2, <1>3, <1>4, <1>5, <1>6, Zenon DEF FactoryNext

(* The state of any number of calls and children stays within its type.    *)
THEOREM FactoryTypeCorrect == FactorySpec => []FactoryTypeOK
<1>1. FactoryInv => FactoryTypeOK
  BY Zenon DEF FactoryInv
<1> QED BY <1>1, FactoryInvInit, FactoryInvStep, PTL DEF FactorySpec

(* However many calls interleave, a caller is given the address of its own *)
(* initialized child (factory/app/src/lib.rs: create_program).             *)
THEOREM CallersGetTheirOwn == FactorySpec => []ReturnsItsOwnChild
<1>1. FactoryInv => ReturnsItsOwnChild
  BY Zenon DEF FactoryInv
<1> QED BY <1>1, FactoryInvInit, FactoryInvStep, PTL DEF FactorySpec

(* Events and return values agree, also where emitting or initializing     *)
(* fails (factory/app/src/lib.rs: ProgramCreated).                         *)
THEOREM EventsTellResults == FactorySpec => []EventsAreResults
<1>1. FactoryInv => EventsAreResults
  BY Zenon DEF FactoryInv
<1> QED BY <1>1, FactoryInvInit, FactoryInvStep, PTL DEF FactorySpec

-----------------------------------------------------------------------------
(* The top-up of a voucher.                                                *)

(* What is added reaches the balance asked for and exceeds it by less than *)
(* a whole VARA: the part of the balance that the division dropped.        *)
LEMMA TopUpIsExact ==
    ASSUME TopUpAssumption, NEW wanted \in Nat, NEW current \in Nat,
           TopUp(wanted, current) # 0
    PROVE  /\ TopUp(wanted, current) \in Nat
           /\ wanted * Unit <= current + TopUp(wanted, current)
           /\ current + TopUp(wanted, current) < (wanted + 1) * Unit
<1> DEFINE whole == current \div Unit
           missing == wanted - whole
           kept == whole * Unit
           added == missing * Unit
           asked == wanted * Unit
<1>1. Unit \in Nat \ {0}
  BY DEF TopUpAssumption
<1>2. whole \in Nat /\ kept <= current /\ current < kept + Unit
  BY <1>1, DivisionTruncates
<1>3. missing \in Int /\ kept \in Nat /\ asked \in Nat
  BY <1>1, <1>2
<1>4. added = asked - kept
  <2> HIDE DEF whole
  <2>1. \A x, y \in Nat, u \in Nat \ {0} : (x - y) * u = x * u - y * u
    OBVIOUS
  <2> QED BY <1>1, <1>2, <2>1
<1>5. (wanted + 1) * Unit = asked + Unit
  BY <1>1
<1>6. missing > 0 /\ TopUp(wanted, current) = added
  BY DEF TopUp
<1>7. added \in Nat
  <2> HIDE DEF whole
  <2>1. \A x \in Int, u \in Nat \ {0} : x > 0 => x * u \in Nat
    OBVIOUS
  <2>2. missing \in Int
    BY <1>3
  <2> HIDE DEF missing
  <2> QED BY <1>1, <1>6, <2>1, <2>2
<1> HIDE DEF whole, missing, kept, added, asked
<1>8. asked <= current + added /\ current + added < asked + Unit
  BY <1>1, <1>2, <1>3, <1>4, <1>7
<1>9. asked = wanted * Unit
  BY DEF asked
<1> QED BY <1>5, <1>6, <1>7, <1>8, <1>9, Zenon

LEMMA TopUpIsNat ==
    ASSUME TopUpAssumption, NEW wanted \in Nat, NEW current \in Nat
    PROVE  TopUp(wanted, current) \in Nat
<1>1. CASE TopUp(wanted, current) = 0
  BY <1>1
<1>2. CASE TopUp(wanted, current) # 0
  BY <1>2, TopUpIsExact, Zenon
<1> QED BY <1>1, <1>2, Zenon

(* The target of the last call counts among those asked for, and a call    *)
(* that runs has a number.                                                 *)
CallIsCounted == target <= highest /\ (prolong # "idle" => calls \in ProlongCall)

(* No update goes out before it is computed.                               *)
NotYetSent ==
    \A c \in ProlongCall :
        (c > calls \/ (c = calls /\ prolong = "read")) => update[c] = "none"

(* The update of the last call adds what its target needs after its read.  *)
LastIsComputed ==
    (calls \in ProlongCall /\ (prolong = "submitted" \/ update[calls] # "none"))
        => topUp[calls] = TopUp(target, seen)

(* Until the update of the last call is in a block, all that came to the   *)
(* voucher since its read came late.                                       *)
ReadIsAhead ==
    (prolong # "idle" \/ (calls \in ProlongCall /\ update[calls] = "pool"))
        => balance <= seen + late

TopUpInv == /\ TopUpTypeOK /\ CallIsCounted /\ NotYetSent /\ LastIsComputed
            /\ ReadIsAhead /\ NeverOverfilled

LEMMA TopUpInvInit == TopUpInit => TopUpInv
<1> SUFFICES ASSUME TopUpInit PROVE TopUpInv
  OBVIOUS
<1>0. Initial \in Nat /\ Calls \in Nat /\ Reverts \in Nat
  BY TopUpAssumption DEF TopUpAssumption
<1>1. TopUpTypeOK
  <2>1. 0 \in Nat /\ 0 \in 0 .. Calls /\ 0 \in 0 .. Reverts
    BY <1>0
  <2>2. /\ topUp \in [ProlongCall -> Nat]
        /\ update \in [ProlongCall -> {"none", "pool", "block", "back"}]
    BY <2>1 DEF TopUpInit
  <2>3. prolong \in {"idle", "read", "submitted"}
    BY DEF TopUpInit
  <2> QED BY <1>0, <2>1, <2>2, <2>3, Zenon DEF TopUpInit, TopUpTypeOK
<1>2. prolong = "idle" /\ \A c \in ProlongCall : update[c] = "none"
  BY DEF TopUpInit
<1>3. CallIsCounted /\ NotYetSent
  <2>1. 0 <= 0
    OBVIOUS
  <2> QED BY <1>2, <2>1, Zenon DEF TopUpInit, CallIsCounted, NotYetSent
<1>4. LastIsComputed /\ ReadIsAhead
  BY <1>2 DEF LastIsComputed, ReadIsAhead
<1>5. balance <= Initial + late
  BY <1>0 DEF TopUpInit
<1> QED BY <1>1, <1>3, <1>4, <1>5, Zenon DEF TopUpInv, NeverOverfilled

(* A balance that grows no more than `late` does stays within a bound that *)
(* grows by as much.                                                       *)
LEMMA LateCovers ==
    /\ \A b, l, b2, l2, k, k2 \in Nat :
          b2 + l <= b + l2 /\ k <= k2 => (b < k + l => b2 < k2 + l2)
    /\ \A b, l, b2, l2, k \in Nat :
          b2 + l <= b + l2 => (b <= k + l => b2 <= k + l2)
OBVIOUS

LEMMA BoundIsMonotone ==
    ASSUME TopUpAssumption, NEW x \in Nat, NEW y \in Nat, x <= y
    PROVE  /\ (x + 1) * Unit \in Nat /\ (y + 1) * Unit \in Nat
           /\ (x + 1) * Unit <= (y + 1) * Unit
<1> DEFINE p == x + 1
           q == y + 1
<1>1. p \in Nat /\ q \in Nat /\ p <= q
  OBVIOUS
<1>2. Unit \in Nat
  BY DEF TopUpAssumption
<1> HIDE DEF p, q
<1>3. p * Unit \in Nat /\ q * Unit \in Nat /\ p * Unit <= q * Unit
  BY <1>1, <1>2, ProductIsMonotone
<1> QED BY <1>3 DEF p, q

LEMMA StaysFilled ==
    ASSUME TopUpTypeOK, TopUpTypeOK', NeverOverfilled,
           balance' + late <= balance + late', highest <= highest'
    PROVE  NeverOverfilled'
<1>1. /\ balance \in Nat /\ late \in Nat /\ highest \in Nat
      /\ balance' \in Nat /\ late' \in Nat /\ highest' \in Nat
  BY Zenon DEF TopUpTypeOK
<1>2. /\ (highest + 1) * Unit \in Nat /\ (highest' + 1) * Unit \in Nat
      /\ (highest + 1) * Unit <= (highest' + 1) * Unit
  BY <1>1, TopUpAssumption, BoundIsMonotone, Zenon
<1>3. Initial \in Nat
  BY TopUpAssumption DEF TopUpAssumption
<1>4. balance < (highest + 1) * Unit + late => balance' < (highest' + 1) * Unit + late'
  <2> DEFINE k == (highest + 1) * Unit
             k2 == (highest' + 1) * Unit
  <2>1. k \in Nat /\ k2 \in Nat /\ k <= k2
    BY <1>2
  <2> HIDE DEF k, k2
  <2>2. balance < k + late => balance' < k2 + late'
    BY <1>1, <2>1, LateCovers, Zenon
  <2> QED BY <2>2 DEF k, k2
<1>5. balance <= Initial + late => balance' <= Initial + late'
  BY <1>1, <1>3, LateCovers, Zenon
<1> QED BY <1>4, <1>5, Zenon DEF NeverOverfilled

(* What neither starts a call nor sends an update, and raises the balance  *)
(* no more than `late`, keeps the invariant.                               *)
LEMMA MovesKeep ==
    ASSUME TopUpInv, TopUpTypeOK',
           UNCHANGED <<target, seen, highest, calls, topUp>>,
           balance' + late <= balance + late',
           prolong' # "idle" => prolong' = prolong,
           \A c \in ProlongCall : /\ update'[c] = "pool" => update[c] = "pool"
                                  /\ update'[c] # "none" => update[c] # "none"
    PROVE  TopUpInv'
<1>0. /\ TopUpTypeOK /\ CallIsCounted /\ NotYetSent /\ LastIsComputed
      /\ ReadIsAhead /\ NeverOverfilled
  BY Zenon DEF TopUpInv
<1>1. /\ balance \in Nat /\ late \in Nat /\ seen \in Nat /\ highest \in Nat
      /\ balance' \in Nat /\ late' \in Nat
  BY <1>0, Zenon DEF TopUpTypeOK
<1>2. CallIsCounted'
  BY <1>0, Zenon DEF CallIsCounted
<1>3. NotYetSent'
  <2>1. "read" # "idle"
    OBVIOUS
  <2> QED BY <1>0, <2>1, Zenon DEF NotYetSent
<1>4. LastIsComputed'
  <2>1. "submitted" # "idle"
    OBVIOUS
  <2> QED BY <1>0, <2>1, Zenon DEF LastIsComputed
<1>5. ReadIsAhead'
  <2>1. balance <= seen + late => balance' <= seen + late'
    BY <1>1, LateCovers, Zenon
  <2> QED BY <1>0, <2>1, Zenon DEF ReadIsAhead
<1>6. NeverOverfilled'
  <2>1. highest <= highest'
    BY <1>1
  <2> QED BY <1>0, <2>1, StaysFilled, Zenon
<1> QED BY <1>2, <1>3, <1>4, <1>5, <1>6, Zenon DEF TopUpInv

LEMMA UpdateMoves ==
    ASSUME TopUpTypeOK, NEW c \in ProlongCall,
           NEW to \in {"none", "pool", "block", "back"},
           update' = [update EXCEPT ![c] = to]
    PROVE  /\ update' \in [ProlongCall -> {"none", "pool", "block", "back"}]
           /\ update'[c] = to
           /\ \A d \in ProlongCall \ {c} : update'[d] = update[d]
BY DEF TopUpTypeOK

LEMMA ReadKeeps ==
    ASSUME TopUpInv, NEW t \in Targets, ReadBalance(t) PROVE TopUpInv'
<1>0. TopUpTypeOK /\ CallIsCounted /\ NotYetSent /\ NeverOverfilled
  BY Zenon DEF TopUpInv
<1>u. t \in Nat /\ Calls \in Nat
  BY TopUpAssumption DEF TopUpAssumption
<1>t. /\ balance \in Nat /\ late \in Nat /\ highest \in Nat
      /\ calls \in Nat /\ calls <= Calls
  BY <1>0, <1>u DEF TopUpTypeOK
<1>1. /\ prolong' = "read" /\ target' = t /\ seen' = balance
      /\ calls' = calls + 1 /\ calls < Calls
      /\ UNCHANGED <<topUp, update, balance, finalized, reverts, late>>
  BY Zenon DEF ReadBalance
<1>2. highest' \in Nat /\ highest <= highest' /\ t <= highest'
  BY <1>u, <1>t DEF ReadBalance
<1>3. calls' \in 0 .. Calls /\ calls' \in ProlongCall
  BY <1>u, <1>t, <1>1 DEF ProlongCall
<1>4. TopUpTypeOK'
  <2>1. prolong' \in {"idle", "read", "submitted"}
    BY <1>1
  <2> QED BY <1>0, <1>u, <1>1, <1>2, <1>3, <2>1, Zenon DEF TopUpTypeOK
<1>5. CallIsCounted'
  BY <1>1, <1>2, <1>3, Zenon DEF CallIsCounted
<1>6. \A c \in ProlongCall : c >= calls + 1 => update[c] = "none"
  <2>1. \A c \in ProlongCall : c >= calls + 1 => c > calls
    BY <1>t DEF ProlongCall
  <2> QED BY <1>0, <2>1, Zenon DEF NotYetSent
<1>7. NotYetSent'
  <2>1. \A c \in ProlongCall : (c > calls + 1 \/ c = calls + 1) => c >= calls + 1
    BY <1>t DEF ProlongCall
  <2> QED BY <1>1, <1>6, <2>1, Zenon DEF NotYetSent
<1>8. LastIsComputed'
  <2>1. update'[calls'] = "none"
    <3>1. calls + 1 >= calls + 1
      BY <1>t
    <3> QED BY <1>1, <1>3, <1>6, <3>1, Zenon
  <2>2. "read" # "submitted"
    OBVIOUS
  <2> QED BY <1>1, <2>1, <2>2, Zenon DEF LastIsComputed
<1>9. ReadIsAhead'
  <2>1. balance <= balance + late
    BY <1>t
  <2> QED BY <1>1, <2>1, Zenon DEF ReadIsAhead
<1>10. NeverOverfilled'
  <2>1. balance' + late <= balance + late'
    <3>1. balance + late <= balance + late
      BY <1>t
    <3> QED BY <1>1, <3>1, Zenon
  <2> QED BY <1>0, <1>2, <1>4, <2>1, StaysFilled, Zenon
<1> QED BY <1>4, <1>5, <1>7, <1>8, <1>9, <1>10, Zenon DEF TopUpInv

LEMMA SubmitKeeps == ASSUME TopUpInv, SubmitUpdate PROVE TopUpInv'
<1>0. /\ TopUpTypeOK /\ CallIsCounted /\ NotYetSent
      /\ ReadIsAhead /\ NeverOverfilled
  BY Zenon DEF TopUpInv
<1>t. /\ balance \in Nat /\ late \in Nat /\ highest \in Nat /\ calls \in Nat
      /\ target \in Nat /\ seen \in Nat
  BY <1>0, TopUpAssumption DEF TopUpTypeOK, TopUpAssumption
<1>1. /\ prolong = "read" /\ prolong' = "submitted"
      /\ topUp' = [topUp EXCEPT ![calls] = TopUp(target, seen)]
      /\ update' = [update EXCEPT ![calls] = "pool"]
      /\ UNCHANGED <<target, seen, highest, calls, balance, finalized, reverts, late>>
  BY Zenon DEF SubmitUpdate
<1>2. "read" # "idle" /\ "submitted" # "idle" /\ "submitted" # "read"
  OBVIOUS
<1>3. calls \in ProlongCall
  BY <1>0, <1>1, <1>2, Zenon DEF CallIsCounted
<1>4. TopUp(target, seen) \in Nat
  BY <1>t, TopUpAssumption, TopUpIsNat, Zenon
<1>5. topUp' \in [ProlongCall -> Nat] /\ topUp'[calls] = TopUp(target, seen)
  <2> DEFINE added == TopUp(target, seen)
  <2> HIDE DEF added
  <2> QED BY <1>0, <1>1, <1>3, <1>4 DEF TopUpTypeOK, added
<1>6. /\ update' \in [ProlongCall -> {"none", "pool", "block", "back"}]
      /\ \A d \in ProlongCall \ {calls} : update'[d] = update[d]
  BY <1>0, <1>1, <1>3, UpdateMoves
<1>7. TopUpTypeOK'
  <2>1. prolong' \in {"idle", "read", "submitted"}
    BY <1>1
  <2> QED BY <1>0, <1>1, <1>5, <1>6, <2>1, Zenon DEF TopUpTypeOK
<1>8. CallIsCounted'
  BY <1>0, <1>1, <1>3, Zenon DEF CallIsCounted
<1>9. NotYetSent'
  <2>1. \A c \in ProlongCall : c > calls => c # calls
    BY <1>t DEF ProlongCall
  <2> QED BY <1>0, <1>1, <1>2, <1>6, <2>1, Zenon DEF NotYetSent
<1>10. LastIsComputed'
  BY <1>1, <1>5, Zenon DEF LastIsComputed
<1>11. ReadIsAhead'
  BY <1>0, <1>1, <1>2, Zenon DEF ReadIsAhead
<1>12. NeverOverfilled'
  BY <1>0, <1>1, Zenon DEF NeverOverfilled
<1> QED BY <1>7, <1>8, <1>9, <1>10, <1>11, <1>12, Zenon DEF TopUpInv

(* The update of the last call meets a balance no greater than the one it  *)
(* was computed from, apart from what came late.                           *)
LEMMA OwnUpdateKeeps ==
    ASSUME TopUpInv, calls \in ProlongCall, update[calls] = "pool",
           IncludeUpdate(calls, TRUE), TopUpTypeOK'
    PROVE  TopUpInv'
<1>0. /\ TopUpTypeOK /\ CallIsCounted /\ NotYetSent /\ LastIsComputed
      /\ ReadIsAhead /\ NeverOverfilled
  BY Zenon DEF TopUpInv
<1>t. /\ balance \in Nat /\ late \in Nat /\ highest \in Nat /\ calls \in Nat
      /\ target \in Nat /\ seen \in Nat
      /\ prolong \in {"idle", "read", "submitted"}
  BY <1>0, TopUpAssumption DEF TopUpTypeOK, TopUpAssumption
<1> DEFINE added == TopUp(target, seen)
<1>1. "pool" # "none" /\ "block" # "none" /\ "block" # "pool" /\ "pool" # "back"
  OBVIOUS
<1>2. added = topUp[calls]
  BY <1>0, <1>1, Zenon DEF LastIsComputed
<1>3. /\ balance' = balance + added
      /\ prolong' = IF prolong = "submitted" THEN "idle" ELSE prolong
      /\ update' = [update EXCEPT ![calls] = "block"]
      /\ UNCHANGED <<target, seen, highest, calls, topUp, finalized, reverts>>
      /\ late' = late
  <2>1. ~IsLate(calls)
    BY <1>1, Zenon DEF IsLate
  <2> QED BY <1>2, <2>1 DEF IncludeUpdate
<1>4. prolong' = "idle"
  <2>1. prolong # "read"
    BY <1>0, <1>1, Zenon DEF NotYetSent
  <2> QED BY <1>t, <1>3, <2>1
<1>5. /\ update'[calls] = "block"
      /\ \A d \in ProlongCall \ {calls} : update'[d] = update[d]
  BY <1>0, <1>3, UpdateMoves
<1>6. CallIsCounted'
  BY <1>0, <1>3, <1>4, Zenon DEF CallIsCounted
<1>7. NotYetSent'
  <2>1. \A c \in ProlongCall : c > calls => c # calls
    BY <1>t DEF ProlongCall
  <2>2. "idle" # "read"
    OBVIOUS
  <2> QED BY <1>0, <1>3, <1>4, <1>5, <2>1, <2>2, Zenon DEF NotYetSent
<1>8. LastIsComputed'
  BY <1>2, <1>3, Zenon DEF LastIsComputed
<1>9. ReadIsAhead'
  BY <1>1, <1>3, <1>4, <1>5, Zenon DEF ReadIsAhead
<1>10. NeverOverfilled'
  <2>1. balance <= seen + late
    BY <1>0, Zenon DEF ReadIsAhead
  <2>2. added \in Nat
    BY <1>t, TopUpIsNat, TopUpAssumption, Zenon
  <2>3. CASE added = 0
    <3>1. balance' = balance
      BY <1>t, <1>3, <2>3
    <3> QED BY <1>0, <1>3, <3>1, Zenon DEF NeverOverfilled
  <2>4. CASE added # 0
    <3>1. seen + added < (target + 1) * Unit
      BY <1>t, <2>4, TopUpIsExact, TopUpAssumption, Zenon
    <3>2. target <= highest
      BY <1>0, Zenon DEF CallIsCounted
    <3> DEFINE bound == (target + 1) * Unit
               most == (highest + 1) * Unit
    <3>3. bound \in Nat /\ most \in Nat /\ bound <= most
      BY <1>t, <3>2, TopUpAssumption, BoundIsMonotone, Zenon
    <3> HIDE DEF bound, most, added
    <3>4. seen + added < bound
      BY <3>1 DEF bound, added
    <3>5. balance + added < most + late
      BY <1>t, <2>1, <2>2, <3>3, <3>4
    <3> QED BY <1>3, <3>5, Zenon DEF NeverOverfilled, most
  <2> QED BY <2>3, <2>4, Zenon
<1> QED BY <1>6, <1>7, <1>8, <1>9, <1>10, Zenon DEF TopUpInv

LEMMA IncludeKeeps ==
    ASSUME TopUpInv, NEW c \in ProlongCall, NEW ok \in BOOLEAN, IncludeUpdate(c, ok)
    PROVE  TopUpInv'
<1>0. TopUpTypeOK
  BY Zenon DEF TopUpInv
<1>t. /\ balance \in Nat /\ late \in Nat /\ topUp[c] \in Nat
      /\ prolong \in {"idle", "read", "submitted"}
      /\ update[c] \in {"pool", "back"}
  BY <1>0 DEF TopUpTypeOK, IncludeUpdate
<1>1. /\ prolong' = IF c = calls /\ prolong = "submitted" THEN "idle" ELSE prolong
      /\ balance' = IF ok THEN balance + topUp[c] ELSE balance
      /\ late' = IF ok /\ IsLate(c) THEN late + topUp[c] ELSE late
      /\ update' = [update EXCEPT ![c] = "block"]
      /\ UNCHANGED <<target, seen, highest, calls, topUp, finalized, reverts>>
  BY Zenon DEF IncludeUpdate
<1>2. /\ update' \in [ProlongCall -> {"none", "pool", "block", "back"}]
      /\ update'[c] = "block"
      /\ \A d \in ProlongCall \ {c} : update'[d] = update[d]
  BY <1>0, <1>1, UpdateMoves
<1>3. prolong' \in {"idle", "read", "submitted"} /\ (prolong' # "idle" => prolong' = prolong)
  BY <1>t, <1>1
<1>4. balance' \in Nat /\ late' \in Nat
  <2>1. balance + topUp[c] \in Nat /\ late + topUp[c] \in Nat
    BY <1>t
  <2> QED BY <1>t, <1>1, <2>1, Zenon
<1>5. TopUpTypeOK'
  BY <1>0, <1>1, <1>2, <1>3, <1>4, Zenon DEF TopUpTypeOK
<1>6. CASE ok /\ ~IsLate(c)
  <2>1. c = calls /\ update[c] = "pool"
    BY <1>t, <1>6 DEF IsLate
  <2>2. ok = TRUE
    BY <1>6
  <2> QED BY <1>5, <2>1, <2>2, OwnUpdateKeeps, Zenon
<1>7. CASE ~(ok /\ ~IsLate(c))
  <2>1. balance' + late <= balance + late'
    <3>1. \/ balance' = balance /\ late' = late
          \/ balance' = balance + topUp[c] /\ late' = late + topUp[c]
      BY <1>1, <1>7, Zenon
    <3> DEFINE n == topUp[c]
    <3> HIDE DEF n
    <3>2. balance + late <= balance + late /\ (balance + n) + late <= balance + (late + n)
      BY <1>t DEF n
    <3> QED BY <3>1, <3>2, Zenon DEF n
  <2>2. \A d \in ProlongCall : /\ update'[d] = "pool" => update[d] = "pool"
                               /\ update'[d] # "none" => update[d] # "none"
    BY <1>t, <1>2
  <2> QED BY <1>1, <1>3, <1>5, <2>1, <2>2, MovesKeep, Zenon
<1> QED BY <1>6, <1>7, Zenon

LEMMA TopUpInvStep == TopUpInv /\ [TopUpNext]_topUpVars => TopUpInv'
<1> SUFFICES ASSUME TopUpInv, [TopUpNext]_topUpVars PROVE TopUpInv'
  OBVIOUS
<1>0. TopUpTypeOK
  BY Zenon DEF TopUpInv
<1>t. /\ balance \in Nat /\ late \in Nat /\ finalized \in Nat
      /\ balance + late <= balance + late
  BY <1>0 DEF TopUpTypeOK
<1>1. CASE CallEnds
  <2>1. prolong' = "idle" /\ prolong' \in {"idle", "read", "submitted"}
        /\ UNCHANGED <<target, seen, highest, calls, topUp,
                       update, balance, finalized, reverts, late>>
    BY <1>1 DEF CallEnds
  <2>2. TopUpTypeOK'
    BY <1>0, <2>1, Zenon DEF TopUpTypeOK
  <2> QED BY <1>t, <2>1, <2>2, MovesKeep, Zenon
<1>2. ASSUME NEW c \in ProlongCall, DropUpdate(c) PROVE TopUpInv'
  <2>1. /\ update' = [update EXCEPT ![c] = "none"]
        /\ UNCHANGED <<prolong, target, seen, highest, calls, topUp,
                       balance, finalized, reverts, late>>
    BY <1>2, Zenon DEF DropUpdate, prolongVars
  <2>2. /\ update' \in [ProlongCall -> {"none", "pool", "block", "back"}]
        /\ update'[c] = "none"
        /\ \A d \in ProlongCall \ {c} : update'[d] = update[d]
    BY <1>0, <2>1, UpdateMoves
  <2>3. TopUpTypeOK'
    BY <1>0, <2>1, <2>2, Zenon DEF TopUpTypeOK
  <2>4. \A d \in ProlongCall : /\ update'[d] = "pool" => update[d] = "pool"
                               /\ update'[d] # "none" => update[d] # "none"
    BY <2>2
  <2> QED BY <1>t, <2>1, <2>3, <2>4, MovesKeep, Zenon
<1>3. CASE FinalizeBlock
  <2>1. /\ finalized' = balance
        /\ UNCHANGED <<prolong, target, seen, highest, calls, topUp,
                       balance, reverts, late>>
    BY <1>3, Zenon DEF FinalizeBlock, prolongVars
  <2>2. /\ update' \in [ProlongCall -> {"none", "pool", "block", "back"}]
        /\ \A d \in ProlongCall : /\ update'[d] = "pool" => update[d] = "pool"
                                  /\ update'[d] # "none" => update[d] # "none"
    BY <1>0, <1>3 DEF FinalizeBlock, TopUpTypeOK
  <2>3. TopUpTypeOK'
    BY <1>0, <2>1, <2>2, Zenon DEF TopUpTypeOK
  <2> QED BY <1>t, <2>1, <2>2, <2>3, MovesKeep, Zenon
<1>4. CASE RevertBlock
  <2>1. /\ balance' = finalized
        /\ late' = IF finalized > balance THEN late + (finalized - balance) ELSE late
        /\ UNCHANGED <<prolong, target, seen, highest, calls, topUp, finalized>>
    BY <1>4, Zenon DEF RevertBlock, prolongVars
  <2>2. /\ update' \in [ProlongCall -> {"none", "pool", "block", "back"}]
        /\ \A d \in ProlongCall : /\ update'[d] = "pool" => update[d] = "pool"
                                  /\ update'[d] # "none" => update[d] # "none"
    BY <1>0, <1>4 DEF RevertBlock, TopUpTypeOK
  <2>3. late' \in Nat /\ finalized + late <= balance + late'
    BY <1>t, <2>1
  <2>4. reverts' \in 0 .. Reverts
    BY <1>0, <1>4, TopUpAssumption DEF RevertBlock, TopUpTypeOK, TopUpAssumption
  <2>5. TopUpTypeOK'
    BY <1>0, <1>t, <2>1, <2>2, <2>3, <2>4, Zenon DEF TopUpTypeOK
  <2>6. balance' + late <= balance + late'
    BY <2>1, <2>3, Zenon
  <2> QED BY <2>1, <2>2, <2>5, <2>6, MovesKeep, Zenon
<1>5. CASE Spend
  <2>1. /\ balance' = balance - 1 /\ balance > 0
        /\ UNCHANGED <<prolong, target, seen, highest, calls, topUp,
                       update, finalized, reverts, late>>
    BY <1>5, Zenon DEF Spend, prolongVars
  <2>2. balance' \in Nat /\ balance' + late <= balance + late'
    <3>1. balance - 1 \in Nat /\ (balance - 1) + late <= balance + late
      BY <1>t, <2>1
    <3> QED BY <2>1, <3>1, Zenon
  <2>3. TopUpTypeOK'
    BY <1>0, <2>1, <2>2, Zenon DEF TopUpTypeOK
  <2> QED BY <2>1, <2>2, <2>3, MovesKeep, Zenon
<1>6. CASE UNCHANGED topUpVars
  <2>1. UNCHANGED <<prolong, target, seen, highest, calls, topUp,
                    update, balance, finalized, reverts, late>>
    BY <1>6, Zenon DEF topUpVars, prolongVars
  <2>2. TopUpTypeOK'
    BY <1>0, <2>1, Zenon DEF TopUpTypeOK
  <2> QED BY <1>t, <2>1, <2>2, MovesKeep, Zenon
<1> QED BY <1>1, <1>2, <1>3, <1>4, <1>5, <1>6, ReadKeeps, SubmitKeeps, IncludeKeeps, Zenon
       DEF TopUpNext

(* The bookkeeping stays in its types: a top-up never takes.               *)
THEOREM TopUpTypeCorrect == TopUpSpec => []TopUpTypeOK
<1>1. TopUpInv => TopUpTypeOK
  BY Zenon DEF TopUpInv
<1> QED BY <1>1, TopUpInvInit, TopUpInvStep, PTL DEF TopUpSpec

(* Whatever is called, spent, dropped, restarted and reverted, calls that  *)
(* overlap with spending do not add up beyond what came late, for any unit *)
(* and any targets (lib.ts: prolong).                                      *)
THEOREM DoesNotOverfill == TopUpSpec => []NeverOverfilled
<1>1. TopUpInv => NeverOverfilled
  BY Zenon DEF TopUpInv
<1> QED BY <1>1, TopUpInvInit, TopUpInvStep, PTL DEF TopUpSpec

(* A prolong that changes the balance leaves what was asked for, less what *)
(* was spent since its read (lib.ts: prolong, balanceTopUp).               *)
THEOREM TopUpReaches == TopUpSpec => ReachesTarget
<1> DEFINE Reaches == (prolong = "submitted" /\ prolong' = "idle" /\ balance' # balance)
                        => balance' >= target * Unit - (seen - balance)
<1>1. TopUpInv /\ [TopUpNext]_topUpVars => [Reaches]_topUpVars
  <2> SUFFICES ASSUME TopUpInv, TopUpNext,
                      prolong = "submitted", prolong' = "idle", balance' # balance
               PROVE  balance' >= target * Unit - (seen - balance)
    BY Zenon
  <2>1. /\ balance \in Nat /\ target \in Nat /\ seen \in Nat
        /\ LastIsComputed /\ CallIsCounted
    BY Zenon DEF TopUpInv, TopUpTypeOK
  <2>2. "submitted" # "idle" /\ "submitted" # "read"
    OBVIOUS
  <2>3. \E c \in ProlongCall, ok \in BOOLEAN : IncludeUpdate(c, ok)
    BY <2>2, Zenon DEF TopUpNext, ReadBalance, SubmitUpdate, CallEnds, DropUpdate,
                       FinalizeBlock, RevertBlock, Spend, prolongVars
  <2>4. PICK c \in ProlongCall, ok \in BOOLEAN : IncludeUpdate(c, ok)
    BY <2>3
  <2>5. c = calls /\ balance' = balance + topUp[c]
    BY <2>2, <2>4, Zenon DEF IncludeUpdate
  <2>6. topUp[calls] = TopUp(target, seen)
    BY <2>1, <2>5, Zenon DEF LastIsComputed
  <2> DEFINE added == TopUp(target, seen)
             asked == target * Unit
  <2>7. balance' = balance + added
    BY <2>5, <2>6, Zenon
  <2>8. added # 0
    BY <2>1, <2>7
  <2>9. added \in Nat /\ asked <= seen + added
    BY <2>1, <2>8, TopUpIsExact, TopUpAssumption, Zenon
  <2>10. asked \in Nat
    BY <2>1, TopUpAssumption DEF TopUpAssumption
  <2> HIDE DEF added, asked
  <2>11. balance + added >= asked - (seen - balance)
    BY <2>1, <2>9, <2>10
  <2> QED BY <2>7, <2>11, Zenon DEF asked
<1> QED BY <1>1, TopUpInvInit, TopUpInvStep, PTL DEF TopUpSpec, ReachesTarget

-----------------------------------------------------------------------------
(* The buttons.                                                            *)

LEMMA StageChanges ==
    ASSUME ButtonTypeOK, NEW a \in Attempt, NEW to \in Stage,
           stage' = [stage EXCEPT ![a] = to]
    PROVE  /\ stage' \in [Attempt -> Stage]
           /\ stage'[a] = to
           /\ \A b \in Attempt \ {a} : stage'[b] = stage[b]
BY DEF ButtonTypeOK

LEMMA UserIsTold ==
    ASSUME ButtonTypeOK, NEW a \in Attempt, NEW g \in Nat, NEW b \in Nat,
           Tells(a, g, b)
    PROVE  /\ good' \in [Attempt -> Nat] /\ bad' \in [Attempt -> Nat]
           /\ good'[a] = good[a] + g /\ bad'[a] = bad[a] + b
           /\ \A c \in Attempt \ {a} : good'[c] = good[c] /\ bad'[c] = bad[c]
<1>1. good \in [Attempt -> Nat] /\ bad \in [Attempt -> Nat]
  BY Zenon DEF ButtonTypeOK
<1>2. /\ good' = [good EXCEPT ![a] = good[a] + g]
      /\ bad' = [bad EXCEPT ![a] = bad[a] + b]
  BY DEF Tells
<1> QED BY <1>1, <1>2

(* An attempt of SwitchSignless that was the only one under way goes on to *)
(* its next stage: the indicator is off as soon as that is an end.         *)
LEMMA OnlyOneGoesOn ==
    ASSUME ButtonTypeOK, HelloOneAtATime, component = "hello", component' = component,
           NEW a \in Attempt, UnderWay(a), NEW to \in Stage \ {"none"},
           stage' = [stage EXCEPT ![a] = to],
           loading' = (to \notin Ended)
    PROVE  HelloOneAtATime'
<1>1. stage'[a] = to /\ \A b \in Attempt \ {a} : stage'[b] = stage[b]
  BY StageChanges, Zenon
<1>2. \A b \in Attempt \ {a} : ~UnderWay(b)
  BY Zenon DEF HelloOneAtATime
<1>3. \A b \in Attempt \ {a} : ~UnderWay(b)'
  BY <1>1, <1>2, Zenon DEF UnderWay
<1>4. UnderWay(a)' <=> to \notin Ended
  BY <1>1, Zenon DEF UnderWay
<1>5. loading' <=> UnderWay(a)'
  BY <1>4, Zenon
<1>6. loading' <=> \E b \in Attempt : UnderWay(b)'
  BY <1>3, <1>5, Zenon
<1>7. \A b, c \in Attempt : UnderWay(b)' /\ UnderWay(c)' => b = c
  BY <1>3, Zenon
<1> QED BY <1>6, <1>7, Zenon DEF HelloOneAtATime

ButtonInv == ButtonTypeOK /\ HelloOneAtATime /\ EachIsToldItsOutcome

LEMMA ButtonInvInit == ButtonInit => ButtonInv
<1> SUFFICES ASSUME ButtonInit PROVE ButtonInv
  OBVIOUS
<1>1. ButtonTypeOK
  BY ClicksAssumption DEF ButtonInit, ButtonTypeOK, Stage
<1>2. \A a \in Attempt : stage[a] = "none" /\ ~UnderWay(a) /\ good[a] = 0 /\ bad[a] = 0
  BY DEF ButtonInit, UnderWay
<1>3. HelloOneAtATime
  BY <1>2, Zenon DEF ButtonInit, HelloOneAtATime
<1>4. EachIsToldItsOutcome
  <2>1. "none" # "ok" /\ "none" # "failed" /\ ~(0 > 0)
    OBVIOUS
  <2> QED BY <1>2, <2>1, Zenon DEF EachIsToldItsOutcome
<1> QED BY <1>1, <1>3, <1>4, Zenon DEF ButtonInv

(* Steps of SwitchSignless say nothing of the transfers' users, and those  *)
(* of the transfers nothing of SwitchSignless.                             *)
LEMMA OnlyHello ==
    ASSUME component = "hello", component' = component PROVE EachIsToldItsOutcome'
BY DEF EachIsToldItsOutcome, Mutations

LEMMA OnlyMutations ==
    ASSUME Mutations, component' = component PROVE HelloOneAtATime'
BY DEF HelloOneAtATime, Mutations

(* A step of SwitchSignless's handlers.                                    *)
LEMMA HelloKeeps ==
    ASSUME ButtonInv, NEW a \in Attempt,
           NEW from \in Stage \ (Ended \cup {"none"}), NEW to \in Stage \ {"none"},
           NEW errors \in Nat, Hello(a, from, to, errors)
    PROVE  ButtonInv'
<1>1. /\ component = "hello" /\ component' = component
      /\ UNCHANGED <<ready, latest>>
      /\ stage[a] = from /\ stage' = [stage EXCEPT ![a] = to]
      /\ loading' = (to \notin Ended)
      /\ Tells(a, 0, errors)
  BY Zenon DEF Hello, Goes, LoadingUntilEnd
<1>2. ButtonTypeOK /\ HelloOneAtATime
  BY Zenon DEF ButtonInv
<1>3. UnderWay(a)
  BY <1>1, Zenon DEF UnderWay
<1>4. HelloOneAtATime'
  BY <1>1, <1>2, <1>3, OnlyOneGoesOn, Zenon
<1>5. ButtonTypeOK'
  <2>1. stage' \in [Attempt -> Stage]
    BY <1>1, <1>2, StageChanges, Zenon
  <2>2. good' \in [Attempt -> Nat] /\ bad' \in [Attempt -> Nat]
    <3>1. 0 \in Nat
      OBVIOUS
    <3> QED BY <1>1, <1>2, <3>1, UserIsTold, Zenon
  <2>3. loading' \in BOOLEAN
    BY <1>1, Zenon
  <2> QED BY <1>1, <1>2, <2>1, <2>2, <2>3, Zenon DEF ButtonTypeOK
<1> QED BY <1>1, <1>4, <1>5, OnlyHello, Zenon DEF ButtonInv

(* A step of the transfers' handlers: an attempt comes to a stage where its *)
(* user is told what this stage calls for.                                 *)
LEMMA MutationKeeps ==
    ASSUME ButtonInv, Mutations, NEW a \in Attempt,
           NEW from \in Stage \ Ended, NEW to \in Stage,
           Goes(a, from, to),
           NEW g \in Nat, NEW b \in Nat, Tells(a, g, b),
           g = IF to = "ok" THEN 1 ELSE 0,
           b > 0 <=> to = "failed",
           latest' \in Attempt \cup {0},
           UNCHANGED <<component, ready, loading>>
    PROVE  ButtonInv'
<1>1. ButtonTypeOK /\ EachIsToldItsOutcome
  BY Zenon DEF ButtonInv
<1>2. stage[a] = from /\ stage' = [stage EXCEPT ![a] = to]
  BY Zenon DEF Goes
<1>3. /\ stage' \in [Attempt -> Stage] /\ stage'[a] = to
      /\ \A c \in Attempt \ {a} : stage'[c] = stage[c]
  BY <1>1, <1>2, StageChanges, Zenon
<1>4. /\ good' \in [Attempt -> Nat] /\ bad' \in [Attempt -> Nat]
      /\ good'[a] = good[a] + g /\ bad'[a] = bad[a] + b
      /\ \A c \in Attempt \ {a} : good'[c] = good[c] /\ bad'[c] = bad[c]
  BY <1>1, UserIsTold, Zenon
<1>5. good[a] = 0 /\ bad[a] = 0
  <2>1. good[a] \in Nat /\ bad[a] \in Nat
    BY <1>1 DEF ButtonTypeOK
  <2>2. stage[a] # "ok" /\ stage[a] # "failed"
    BY <1>2, Zenon DEF Ended
  <2>3. good[a] = 0 /\ ~(bad[a] > 0)
    BY <1>1, <2>2, Zenon DEF EachIsToldItsOutcome
  <2> QED BY <2>1, <2>3
<1>6. good'[a] = g /\ bad'[a] = b
  BY <1>4, <1>5
<1>7. EachIsToldItsOutcome'
  <2> SUFFICES ASSUME NEW c \in Attempt
               PROVE  /\ good'[c] = IF stage'[c] = "ok" THEN 1 ELSE 0
                      /\ bad'[c] > 0 <=> stage'[c] = "failed"
    BY Zenon DEF EachIsToldItsOutcome
  <2>1. CASE c = a
    BY <1>3, <1>6, <2>1, Zenon
  <2>2. CASE c # a
    BY <1>1, <1>3, <1>4, <2>2, Zenon DEF EachIsToldItsOutcome
  <2> QED BY <2>1, <2>2, Zenon
<1>8. ButtonTypeOK'
  BY <1>1, <1>3, <1>4, Zenon DEF ButtonTypeOK
<1>9. HelloOneAtATime'
  BY OnlyMutations, Zenon
<1> QED BY <1>7, <1>8, <1>9, Zenon DEF ButtonInv

LEMMA ClickKeeps ==
    ASSUME ButtonInv, NEW a \in Attempt, Click(a) PROVE ButtonInv'
<1>1. ButtonTypeOK /\ HelloOneAtATime /\ EachIsToldItsOutcome
  BY Zenon DEF ButtonInv
<1>2. /\ ~Busy /\ stage[a] = "none"
      /\ stage' = [stage EXCEPT ![a] = "preparing"]
      /\ loading' = (component = "hello")
      /\ UNCHANGED <<component, ready, latest, good, bad>>
  BY Zenon DEF Click
<1>3. "preparing" \in Stage /\ "preparing" \notin Ended \cup {"none"}
  BY DEF Stage, Ended
<1>4. /\ stage' \in [Attempt -> Stage] /\ stage'[a] = "preparing"
      /\ \A c \in Attempt \ {a} : stage'[c] = stage[c]
  BY <1>1, <1>2, <1>3, StageChanges, Zenon
<1>5. ButtonTypeOK'
  <2>1. loading' \in BOOLEAN
    BY <1>2, Zenon
  <2> QED BY <1>1, <1>2, <1>4, <2>1, Zenon DEF ButtonTypeOK
<1>6. HelloOneAtATime'
  <2> SUFFICES ASSUME component = "hello"
               PROVE  /\ loading' <=> \E b \in Attempt : UnderWay(b)'
                      /\ \A b, c \in Attempt : UnderWay(b)' /\ UnderWay(c)' => b = c
    BY <1>2, Zenon DEF HelloOneAtATime
  <2>1. \A b \in Attempt : ~UnderWay(b)
    BY <1>1, <1>2, Zenon DEF Busy, HelloOneAtATime
  <2>2. \A b \in Attempt \ {a} : ~UnderWay(b)'
    BY <1>4, <2>1, Zenon DEF UnderWay
  <2>3. UnderWay(a)'
    BY <1>3, <1>4, Zenon DEF UnderWay
  <2> QED BY <1>2, <2>2, <2>3, Zenon
<1>7. EachIsToldItsOutcome'
  <2> SUFFICES ASSUME Mutations, NEW c \in Attempt
               PROVE  /\ good[c] = IF stage'[c] = "ok" THEN 1 ELSE 0
                      /\ bad[c] > 0 <=> stage'[c] = "failed"
    BY <1>2, Zenon DEF EachIsToldItsOutcome, Mutations
  <2>1. /\ good[c] = IF stage[c] = "ok" THEN 1 ELSE 0
        /\ bad[c] > 0 <=> stage[c] = "failed"
    BY <1>1, Zenon DEF EachIsToldItsOutcome
  <2>2. CASE c = a
    BY <1>2, <1>4, <2>1, <2>2
  <2>3. CASE c # a
    BY <1>4, <2>1, <2>3, Zenon
  <2> QED BY <2>2, <2>3, Zenon
<1> QED BY <1>5, <1>6, <1>7, Zenon DEF ButtonInv

(* A lost message leaves its attempt under way for good.                   *)
LEMMA LoseKeeps ==
    ASSUME ButtonInv, NEW a \in Attempt, Lose(a) PROVE ButtonInv'
<1>1. ButtonTypeOK /\ HelloOneAtATime /\ EachIsToldItsOutcome
  BY Zenon DEF ButtonInv
<1>2. PICK from \in {"sending", "responding"} : Goes(a, from, "lost")
  BY Zenon DEF Lose
<1>3. UNCHANGED <<component, ready, loading, latest, good, bad>>
  BY Zenon DEF Lose
<1>4. stage[a] = from /\ stage' = [stage EXCEPT ![a] = "lost"]
  BY <1>2, Zenon DEF Goes
<1>5. "lost" \in Stage /\ from \notin Ended \cup {"none"} /\ "lost" \notin Ended \cup {"none"}
  BY DEF Stage, Ended
<1>6. /\ stage' \in [Attempt -> Stage] /\ stage'[a] = "lost"
      /\ \A c \in Attempt \ {a} : stage'[c] = stage[c]
  BY <1>1, <1>4, <1>5, StageChanges, Zenon
<1>7. \A b \in Attempt : UnderWay(b)' <=> UnderWay(b)
  <2> TAKE b \in Attempt
  <2>1. CASE b = a
    BY <1>4, <1>5, <1>6, <2>1, Zenon DEF UnderWay
  <2>2. CASE b # a
    BY <1>6, <2>2, Zenon DEF UnderWay
  <2> QED BY <2>1, <2>2, Zenon
<1>8. HelloOneAtATime'
  BY <1>1, <1>3, <1>7, Zenon DEF HelloOneAtATime
<1>9. EachIsToldItsOutcome'
  <2> SUFFICES ASSUME Mutations, NEW c \in Attempt
               PROVE  /\ good[c] = IF stage'[c] = "ok" THEN 1 ELSE 0
                      /\ bad[c] > 0 <=> stage'[c] = "failed"
    BY <1>3, Zenon DEF EachIsToldItsOutcome, Mutations
  <2>1. /\ good[c] = IF stage[c] = "ok" THEN 1 ELSE 0
        /\ bad[c] > 0 <=> stage[c] = "failed"
    BY <1>1, Zenon DEF EachIsToldItsOutcome
  <2>2. CASE c = a
    BY <1>4, <1>6, <2>1, <2>2
  <2>3. CASE c # a
    BY <1>6, <2>1, <2>3, Zenon
  <2> QED BY <2>2, <2>3, Zenon
<1>10. ButtonTypeOK'
  BY <1>1, <1>3, <1>6, Zenon DEF ButtonTypeOK
<1> QED BY <1>8, <1>9, <1>10, Zenon DEF ButtonInv

LEMMA ButtonInvStep == ButtonInv /\ [ButtonNext]_buttonVars => ButtonInv'
<1> SUFFICES ASSUME ButtonInv, [ButtonNext]_buttonVars PROVE ButtonInv'
  OBVIOUS
<1>0. ButtonTypeOK /\ HelloOneAtATime /\ EachIsToldItsOutcome
  BY Zenon DEF ButtonInv
<1>s. /\ {"preparing", "building", "sending", "responding", "ok", "failed"}
           \subseteq Stage \ {"none"}
      /\ {"preparing", "building", "sending", "responding"}
           \subseteq Stage \ (Ended \cup {"none"})
      /\ Ended = {"ok", "failed"}
  BY DEF Stage, Ended
<1>n. 0 \in Nat /\ 1 \in Nat /\ 2 \in Nat /\ 1 > 0 /\ 2 > 0 /\ ~(0 > 0)
  OBVIOUS
<1>1. CASE ReadyChanges
  <2>1. ready' \in BOOLEAN /\ UNCHANGED <<component, stage, loading, latest, good, bad>>
    BY <1>1, Zenon DEF ReadyChanges
  <2>2. ButtonTypeOK'
    BY <1>0, <2>1, Zenon DEF ButtonTypeOK
  <2>3. HelloOneAtATime'
    BY <1>0, <2>1, Zenon DEF HelloOneAtATime, UnderWay
  <2>4. EachIsToldItsOutcome'
    BY <1>0, <2>1, Zenon DEF EachIsToldItsOutcome, Mutations
  <2> QED BY <2>2, <2>3, <2>4, Zenon DEF ButtonInv
<1>2. ASSUME NEW a \in Attempt, Click(a) PROVE ButtonInv'
  BY <1>2, ClickKeeps, Zenon
<1>3. ASSUME NEW a \in Attempt, Lose(a) PROVE ButtonInv'
  BY <1>3, LoseKeeps, Zenon
<1>4. ASSUME NEW a \in Attempt,
             HelloPrepare(a) \/ HelloCheck(a) \/ HelloSend(a) \/ HelloRespond(a)
      PROVE  ButtonInv'
  <2>1. PICK from \in {"preparing", "building", "sending", "responding"},
             to \in {"building", "sending", "responding", "ok", "failed"},
             errors \in {0, 1} : Hello(a, from, to, errors)
    BY <1>4, Zenon DEF HelloPrepare, HelloCheck, HelloSend, HelloRespond
  <2>2. from \in Stage \ (Ended \cup {"none"}) /\ to \in Stage \ {"none"} /\ errors \in Nat
    BY <1>s, <1>n, <2>1, Zenon
  <2> QED BY <2>1, <2>2, HelloKeeps, Zenon
<1>5. ASSUME NEW a \in Attempt, PrepareFails(a) PROVE ButtonInv'
  <2>1. /\ Mutations /\ Goes(a, "preparing", "failed") /\ Tells(a, 0, 1)
        /\ UNCHANGED <<component, ready, loading, latest>>
    BY <1>5, Zenon DEF PrepareFails
  <2>2. latest' \in Attempt \cup {0}
    BY <1>0, <2>1, Zenon DEF ButtonTypeOK
  <2>3. 0 = IF "failed" = "ok" THEN 1 ELSE 0
    OBVIOUS
  <2>4. "failed" \in Stage /\ "preparing" \in Stage \ Ended
    BY DEF Stage, Ended
  <2> QED BY <1>n, <2>1, <2>2, <2>3, <2>4, MutationKeeps, Zenon
<1>6. ASSUME NEW a \in Attempt, Mutate(a) PROVE ButtonInv'
  <2>1. Mutations /\ latest' = a /\ UNCHANGED <<component, ready, loading>>
    BY <1>6, Zenon DEF Mutate
  <2>2. latest' \in Attempt \cup {0}
    BY <2>1, Zenon
  <2>3. Errors \in Nat /\ Errors > 0
    BY DEF Errors
  <2>4. "preparing" \in Stage \ Ended /\ {"sending", "failed"} \subseteq Stage
    BY DEF Stage, Ended
  <2>5. CASE Goes(a, "preparing", "sending") /\ Tells(a, 0, 0)
    <3>1. /\ 0 = IF "sending" = "ok" THEN 1 ELSE 0
          /\ 0 > 0 <=> "sending" = "failed"
      OBVIOUS
    <3> QED BY <1>n, <2>1, <2>2, <2>4, <2>5, <3>1, MutationKeeps, Zenon
  <2>6. CASE Goes(a, "preparing", "failed") /\ Tells(a, 0, Errors)
    <3>1. 0 = IF "failed" = "ok" THEN 1 ELSE 0
      OBVIOUS
    <3> QED BY <1>n, <2>1, <2>2, <2>3, <2>4, <2>6, <3>1, MutationKeeps, Zenon
  <2> QED BY <1>6, <2>5, <2>6, Zenon DEF Mutate
<1>7. ASSUME NEW a \in Attempt, Settle(a) PROVE ButtonInv'
  <2>1. Mutations /\ UNCHANGED <<component, ready, loading, latest>>
    BY <1>7, Zenon DEF Settle
  <2>2. latest' \in Attempt \cup {0}
    BY <1>0, <2>1, Zenon DEF ButtonTypeOK
  <2>3. Errors \in Nat /\ Errors > 0
    BY DEF Errors
  <2>4. "sending" \in Stage \ Ended /\ {"ok", "failed"} \subseteq Stage
    BY DEF Stage, Ended
  <2>5. CASE Goes(a, "sending", "ok") /\ Tells(a, Successes(a), 0)
    <3>1. /\ Successes(a) = IF "ok" = "ok" THEN 1 ELSE 0
          /\ 0 > 0 <=> "ok" = "failed"
          /\ Successes(a) \in Nat
      BY DEF Successes
    <3> QED BY <1>n, <2>1, <2>2, <2>4, <2>5, <3>1, MutationKeeps, Zenon
  <2>6. CASE Goes(a, "sending", "failed") /\ Tells(a, 0, Errors)
    <3>1. 0 = IF "failed" = "ok" THEN 1 ELSE 0
      OBVIOUS
    <3> QED BY <1>n, <2>1, <2>2, <2>3, <2>4, <2>6, <3>1, MutationKeeps, Zenon
  <2> QED BY <1>7, <2>5, <2>6, Zenon DEF Settle
<1>8. CASE UNCHANGED buttonVars
  <2>1. UNCHANGED <<component, ready, stage, loading, latest, good, bad>>
    BY <1>8, Zenon DEF buttonVars
  <2>2. ButtonTypeOK'
    BY <1>0, <2>1, Zenon DEF ButtonTypeOK
  <2>3. HelloOneAtATime'
    BY <1>0, <2>1, Zenon DEF HelloOneAtATime, UnderWay
  <2>4. EachIsToldItsOutcome'
    BY <1>0, <2>1, Zenon DEF EachIsToldItsOutcome, Mutations
  <2> QED BY <2>2, <2>3, <2>4, Zenon DEF ButtonInv
<1> QED BY <1>1, <1>2, <1>3, <1>4, <1>5, <1>6, <1>7, <1>8, Zenon DEF ButtonNext, Step

(* The stages of any number of clicks stay within what the handlers know.  *)
THEOREM ButtonTypeCorrect == ButtonSpec => []ButtonTypeOK
<1>1. ButtonInv => ButtonTypeOK
  BY Zenon DEF ButtonInv
<1> QED BY <1>1, ButtonInvInit, ButtonInvStep, PTL DEF ButtonSpec

(* The button of SwitchSignless is off exactly while its one attempt is    *)
(* under way (SwitchSignless.tsx:142-165, 193).                            *)
THEOREM OneHelloAtATime == ButtonSpec => []HelloOneAtATime
<1>1. ButtonInv => HelloOneAtATime
  BY Zenon DEF ButtonInv
<1> QED BY <1>1, ButtonInvInit, ButtonInvStep, PTL DEF ButtonSpec

(* However transfers overlap, their users are told what became of each     *)
(* (VftTransfer.tsx:62-85).                                                *)
THEOREM ToldItsOutcome == ButtonSpec => []EachIsToldItsOutcome
<1>1. ButtonInv => EachIsToldItsOutcome
  BY Zenon DEF ButtonInv
<1> QED BY <1>1, ButtonInvInit, ButtonInvStep, PTL DEF ButtonSpec
=============================================================================
