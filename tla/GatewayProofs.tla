--------------------------- MODULE GatewayProofs ---------------------------
(***************************************************************************)
(* What the gateway answers, for any requests, endpoints and tokens, any   *)
(* number of requests under way at a time and of shutdowns, whether or not *)
(* pools reach the registry late.                                          *)
(***************************************************************************)
EXTENDS Gateway, FiniteSetTheorems, TLAPS

USE GatewayAssumption DEF GatewayAssumption

-----------------------------------------------------------------------------
(* The inductive invariant. *)

(* Which calls an endpoint makes. *)
CallsFit == \A r \in Req :
    /\ kind[r] = "none" <=> phase[r] = "none"
    /\ kind[r] \in {"pool", "poolRegistered"} => call[r] = "CreatePool"
    /\ kind[r] = "program" => call[r] = "CreateProgram"
    /\ kind[r] = "query" => call[r] = "none"
    /\ kind[r] = "both" => call[r] # "none"
    /\ phase[r] = "pausing" /\ call[r] # "CreatePool" => kind[r] = "both"

(* The reply that a pool was created has not been looked at yet. *)
Before == {"none", "estimating", "submitted", "lost", "orphaned"}

Created == Registered \cup late

(* A pool is the work of a request whose second call is over, and joins    *)
(* the tokens it asked for.                                                *)
PairsOwned == \A p \in Created :
    /\ call[p.address] = "CreatePool" /\ phase[p.address] \notin Before
    /\ p.joins = tokens[p.address]

(* No pool is registered twice, or registered and still to be. *)
AddressesOnce ==
    /\ \A i, j \in 1 .. Len(pairs) : pairs[i].address = pairs[j].address => i = j
    /\ \A p \in late : \A i \in 1 .. Len(pairs) : pairs[i].address # p.address

(* What createProgramAndPool has brought about at each of its steps. *)
BothProgress == \A r \in Req : kind[r] = "both" =>
    /\ call[r] = "CreatePool" \/ phase[r] = "pausing" => r \in programs
    /\ call[r] = "CreatePool" => r \in tokens[r]
    /\ phase[r] \in {"querying", "ok"} => call[r] = "CreatePool"
    /\ call[r] = "CreatePool" /\ phase[r] \in {"pausing", "querying", "ok"} =>
          \E p \in Created : p.address = r

IInv == /\ TypeOK /\ CallsFit /\ PairsOwned /\ AddressesOnce /\ BothProgress
        /\ OwnTokensAnswered

-----------------------------------------------------------------------------
LEMMA PairTypes == TypeOK => \A p \in Created : p \in Pair /\ p.address \in Req
<1> SUFFICES ASSUME TypeOK, NEW p \in Created PROVE p \in Pair /\ p.address \in Req
  OBVIOUS
<1>1. \A i \in 1 .. Len(pairs) : pairs[i] \in Pair
  BY DEF TypeOK
<1>2. p \in Pair
  BY <1>1 DEF TypeOK, Created, Registered
<1> QED BY <1>2 DEF Pair

(* Steps that touch how far requests got, none of those that are answered, *)
(* and perhaps create a program.                                           *)

MovesOn(r) == \/ phase'[r] = phase[r]
              \/ phase[r] \in {"estimating", "submitted", "pausing", "querying"}
                 /\ phase'[r] \in {"failed", "cut"}
              \/ phase[r] = "estimating" /\ phase'[r] = "submitted"
              \/ phase[r] = "submitted" /\ phase'[r] \in {"lost", "orphaned"}
              \/ phase[r] \in {"lost", "orphaned"} /\ phase'[r] = "cut"

LEMMA PhasesStep ==
    ASSUME IInv, TypeOK', UNCHANGED <<kind, tokens, call, answer, pairs, late>>,
           programs \subseteq programs',
           \A r \in Req : MovesOn(r)
    PROVE  IInv'
<1>1. CallsFit'
  BY DEF IInv, CallsFit, MovesOn
<1>2. Registered' = Registered /\ Created' = Created
  BY DEF Registered, Created
<1>3. \A p \in Created : p.address \in Req
  BY PairTypes DEF IInv
<1>4. PairsOwned'
  <2> SUFFICES ASSUME NEW p \in Created
               PROVE  /\ call[p.address] = "CreatePool" /\ phase'[p.address] \notin Before
                      /\ p.joins = tokens[p.address]
    BY <1>2 DEF PairsOwned
  <2>1. phase[p.address] \notin Before /\ MovesOn(p.address)
    BY <1>3 DEF IInv, PairsOwned
  <2> QED BY <2>1 DEF IInv, PairsOwned, MovesOn, Before
<1>5. AddressesOnce'
  BY DEF IInv, AddressesOnce
<1>6. BothProgress'
  <2> SUFFICES ASSUME NEW r \in Req, kind[r] = "both"
               PROVE  /\ call[r] = "CreatePool" \/ phase'[r] = "pausing" => r \in programs'
                      /\ call[r] = "CreatePool" => r \in tokens[r]
                      /\ phase'[r] \in {"querying", "ok"} => call[r] = "CreatePool"
                      /\ (call[r] = "CreatePool" /\ phase'[r] \in {"pausing", "querying", "ok"}) =>
                            \E p \in Created : p.address = r
    BY <1>2 DEF BothProgress
  <2>1. MovesOn(r)
    OBVIOUS
  <2> QED BY <2>1 DEF IInv, BothProgress, MovesOn
<1>7. OwnTokensAnswered'
  BY <1>2 DEF IInv, OwnTokensAnswered, MovesOn
<1> QED BY <1>1, <1>4, <1>5, <1>6, <1>7 DEF IInv

LEMMA MoveTypes ==
    ASSUME TypeOK, NEW r \in Req, NEW p \in Phase, Move(r, p)
    PROVE  phase' \in [Req -> Phase] /\ phase'[r] = p /\ \A q \in Req \ {r} : phase'[q] = phase[q]
BY DEF TypeOK, Move

LEMMA ProcessStep == ASSUME IInv, Process PROVE IInv'
<1>1. CASE Listen \/ Shutdown
  <2>1. TypeOK'
    BY <1>1 DEF IInv, TypeOK, Listen, Shutdown, chain
  <2> QED BY <1>1, <2>1, PhasesStep DEF Listen, Shutdown, MovesOn, chain
<1>2. CASE Exit
  <2>1. TypeOK /\ UNCHANGED <<stops, kind, tokens, call, answer, chain>> /\ server' = "starting"
    BY <1>2 DEF Exit, IInv
  <2>2. \A r \in Req : phase'[r] = IF r \notin Active THEN phase[r]
                         ELSE IF phase[r] = "submitted" THEN "orphaned" ELSE "cut"
    BY <1>2 DEF Exit
  <2>3. \A r \in Req : phase[r] \in Phase
    BY <2>1 DEF TypeOK
  <2>4. phase' \in [Req -> Phase]
    BY <1>2, <2>3 DEF Exit, Phase
  <2>5. TypeOK'
    BY <2>1, <2>4 DEF TypeOK, chain
  <2>6. \A r \in Req : MovesOn(r)
    BY <2>2, <2>3 DEF MovesOn, Active, Ended, Cut, Phase
  <2> QED BY <2>1, <2>5, <2>6, PhasesStep DEF chain
<1> QED BY <1>1, <1>2 DEF Process

(* Submitted, or failed. *)
LEMMA FailsStep ==
    ASSUME IInv, NEW r \in Req,
           \/ SignAndSend(r) \/ Throw(r) \/ ErrorReply(r)
           \/ NotCreated(r) /\ kind[r] = "both"
           \/ (QueryOwn(r) \/ QueryLast(r)) /\ Fail(r)
    PROVE  IInv'
<1>1. UNCHANGED <<process, kind, tokens, call, answer, chain>> /\ TypeOK
  BY DEF SignAndSend, Throw, ErrorReply, NotCreated, QueryOwn, QueryLast, Fail, IInv
<1>2. PICK p \in {"submitted", "failed"} :
         /\ Move(r, p)
         /\ phase[r] \in {"estimating", "submitted", "querying"}
         /\ p = "submitted" => phase[r] = "estimating"
  BY DEF SignAndSend, Throw, ErrorReply, NotCreated, QueryOwn, QueryLast, Fail
<1>3. phase' \in [Req -> Phase] /\ phase'[r] = p /\ \A q \in Req \ {r} : phase'[q] = phase[q]
  BY <1>1, <1>2, MoveTypes DEF Phase
<1>4. TypeOK'
  BY <1>1, <1>3 DEF TypeOK, chain, process
<1>5. \A q \in Req : MovesOn(q)
  BY <1>2, <1>3 DEF MovesOn
<1> QED BY <1>1, <1>4, <1>5, PhasesStep DEF chain

-----------------------------------------------------------------------------
(* Requests arrive. *)

LEMMA StartStep ==
    ASSUME IInv, NEW r \in Req, NEW k \in Kinds,
           NEW first \in {"none", "CreateProgram", "CreatePool"},
           NEW joined \in SUBSET AnyToken,
           first = "CreatePool" => Cardinality(joined) = 2,
           k \in {"pool", "poolRegistered"} => first = "CreatePool",
           k \in {"program", "both"} => first = "CreateProgram",
           k = "query" => first = "none",
           Start(r, k, first, joined)
    PROVE  IInv'
<1>1. /\ TypeOK /\ CallsFit /\ PairsOwned /\ AddressesOnce /\ BothProgress
      /\ OwnTokensAnswered
  BY DEF IInv
<1>2. /\ phase[r] = "none" /\ UNCHANGED <<process, answer, chain>>
      /\ kind'[r] = k /\ tokens'[r] = joined /\ call'[r] = first
      /\ phase'[r] = IF k = "query" THEN "querying" ELSE "estimating"
  BY <1>1 DEF Start, Arrives, TypeOK
<1>3. \A q \in Req \ {r} : /\ kind'[q] = kind[q] /\ tokens'[q] = tokens[q]
                           /\ call'[q] = call[q] /\ phase'[q] = phase[q]
  BY <1>1 DEF Start, TypeOK
<1>4. k \in {"program", "pool", "poolRegistered", "both", "query"} /\ k # "none"
  OBVIOUS
<1>5. TypeOK'
  <2>1. /\ kind' \in [Req -> Kinds \cup {"none"}]
        /\ tokens' \in [Req -> SUBSET AnyToken]
        /\ call' \in [Req -> {"none", "CreateProgram", "CreatePool"}]
    BY <1>1 DEF Start, TypeOK
  <2>2. phase' \in [Req -> Phase]
    BY <1>1 DEF Start, TypeOK, Phase
  <2>3. \A q \in Req : call'[q] = "CreatePool" => Cardinality(tokens'[q]) = 2
    BY <1>1, <1>2, <1>3 DEF TypeOK
  <2> QED BY <1>1, <1>2, <2>1, <2>2, <2>3 DEF TypeOK, process, chain
<1>6. CallsFit'
  BY <1>1, <1>2, <1>3, <1>4 DEF CallsFit
<1>7. Registered' = Registered /\ Created' = Created
  BY <1>2 DEF Registered, Created, chain
<1>8. \A p \in Created : p.address \in Req \ {r}
  BY <1>1, <1>2, PairTypes DEF PairsOwned, Before
<1>9. PairsOwned'
  BY <1>1, <1>3, <1>7, <1>8 DEF PairsOwned
<1>10. AddressesOnce'
  BY <1>1, <1>2 DEF AddressesOnce, chain
<1>11. BothProgress'
  <2>1. ASSUME NEW q \in Req, kind'[q] = "both", q = r
        PROVE  call'[q] = "CreateProgram" /\ phase'[q] = "estimating"
    BY <1>2, <2>1
  <2> QED BY <1>1, <1>2, <1>3, <1>7, <2>1 DEF BothProgress, chain
<1>12. OwnTokensAnswered'
  BY <1>1, <1>2, <1>3, <1>7 DEF OwnTokensAnswered
<1> QED BY <1>5, <1>6, <1>9, <1>10, <1>11, <1>12 DEF IInv

LEMMA TwoTokens == \A a, b : a # b => Cardinality({a, b}) = 2
<1> SUFFICES ASSUME NEW a, NEW b, a # b PROVE Cardinality({a, b}) = 2
  OBVIOUS
<1>1. IsFiniteSet({a}) /\ Cardinality({a}) = 1
  BY FS_Singleton
<1>2. {a, b} = {a} \cup {b}
  OBVIOUS
<1> QED BY <1>1, <1>2, FS_AddElement

LEMMA ArrivalStep ==
    ASSUME IInv, NEW r \in Req,
           \/ CreateProgram(r) \/ CreateProgramAndPool(r)
           \/ \E a, b \in Token : a # b /\ CreatePool(r, a, b)
           \/ \E a, reg \in Token : a # reg /\ PoolWithRegistered(r, a, reg)
           \/ \E a, b \in Token : a # b /\ Query(r, a, b)
    PROVE  IInv'
<1>1. CASE CreateProgram(r) \/ CreateProgramAndPool(r)
  <2>1. PICK k \in {"program", "both"} : Start(r, k, "CreateProgram", {})
    BY <1>1 DEF CreateProgram, CreateProgramAndPool
  <2>2. k \in Kinds
    BY <2>1 DEF Start
  <2> QED BY <2>1, <2>2, StartStep
<1>2. ASSUME NEW a \in Token, NEW b \in Token, a # b,
             CreatePool(r, a, b) \/ PoolWithRegistered(r, a, b)
      PROVE  IInv'
  <2>1. PICK k \in {"pool", "poolRegistered"} : Start(r, k, "CreatePool", {a, b})
    BY <1>2 DEF CreatePool, PoolWithRegistered
  <2>2. k \in Kinds
    BY <2>1 DEF Start
  <2>3. {a, b} \in SUBSET AnyToken /\ Cardinality({a, b}) = 2
    BY <1>2, TwoTokens DEF AnyToken
  <2> QED BY <2>1, <2>2, <2>3, StartStep
<1>3. ASSUME NEW a \in Token, NEW b \in Token, Query(r, a, b) PROVE IInv'
  <2>1. Start(r, "query", "none", {a, b}) /\ "query" \in Kinds
    BY <1>3 DEF Query, Start
  <2>2. {a, b} \in SUBSET AnyToken
    BY DEF AnyToken
  <2> QED BY <2>1, <2>2, StartStep
<1> QED BY <1>1, <1>2, <1>3

-----------------------------------------------------------------------------
(* A request is answered. *)
LEMMA AnswerStep ==
    ASSUME IInv, NEW r \in Req, NEW a \in 0 .. N, Answer(r, a),
           phase[r] \in {"submitted", "querying"},
           UNCHANGED <<process, kind, tokens, call, pairs, late>>,
           programs' = programs \/ programs' = programs \cup {r},
           kind[r] = "both" => phase[r] = "querying",
           kind[r] = "pool" \/ (kind[r] = "query" /\ a # None) =>
              \E p \in Registered : p.address = a /\ p.joins = tokens[r]
    PROVE  IInv'
<1>1. /\ TypeOK /\ CallsFit /\ PairsOwned /\ AddressesOnce /\ BothProgress
      /\ OwnTokensAnswered
  BY DEF IInv
<1>2. /\ answer' \in [Req -> 0 .. N] /\ answer'[r] = a
      /\ \A q \in Req \ {r} : answer'[q] = answer[q]
  BY <1>1 DEF Answer, TypeOK
<1>3. /\ phase' \in [Req -> Phase] /\ phase'[r] = "ok"
      /\ \A q \in Req \ {r} : phase'[q] = phase[q]
  BY <1>1, MoveTypes DEF Answer, Phase
<1>4. TypeOK'
  BY <1>1, <1>2, <1>3 DEF TypeOK, process
<1>5. CallsFit'
  BY <1>1, <1>3 DEF CallsFit
<1>6. Registered' = Registered /\ Created' = Created
  BY DEF Registered, Created
<1>7. PairsOwned'
  BY <1>1, <1>3, <1>6, PairTypes DEF PairsOwned, Before
<1>8. AddressesOnce'
  BY <1>1 DEF AddressesOnce
<1>9. BothProgress'
  BY <1>1, <1>3, <1>6 DEF BothProgress
<1>10. OwnTokensAnswered'
  BY <1>1, <1>2, <1>3, <1>6 DEF OwnTokensAnswered
<1> QED BY <1>4, <1>5, <1>7, <1>8, <1>9, <1>10 DEF IInv

LEMMA ProgramStep == ASSUME IInv, NEW r \in Req, ProgramCreated(r) PROVE IInv'
<1>1. CASE kind[r] # "both"
  <2>1. Answer(r, None) /\ None \in 0 .. N
    BY <1>1 DEF ProgramCreated, None
  <2>2. kind[r] \notin {"pool", "query"}
    BY DEF ProgramCreated, IInv, CallsFit
  <2>3. /\ phase[r] = "submitted" /\ programs' = programs \cup {r}
        /\ UNCHANGED <<process, kind, tokens, call, pairs, late>>
    BY DEF ProgramCreated
  <2> QED BY <1>1, <2>1, <2>2, <2>3, AnswerStep
<1>2. CASE kind[r] = "both"
  <2>1. /\ TypeOK /\ CallsFit /\ PairsOwned /\ AddressesOnce /\ BothProgress
        /\ OwnTokensAnswered
    BY DEF IInv
  <2>2. /\ UNCHANGED <<process, kind, tokens, call, answer, pairs, late>>
        /\ phase[r] = "submitted" /\ call[r] = "CreateProgram"
        /\ programs' = programs \cup {r} /\ Move(r, "pausing")
    BY <1>2 DEF ProgramCreated
  <2>3. /\ phase' \in [Req -> Phase] /\ phase'[r] = "pausing"
        /\ \A q \in Req \ {r} : phase'[q] = phase[q]
    BY <2>1, <2>2, MoveTypes DEF Phase
  <2>4. TypeOK'
    BY <2>1, <2>2, <2>3 DEF TypeOK, process
  <2>5. CallsFit'
    BY <1>2, <2>1, <2>2, <2>3 DEF CallsFit
  <2>6. Registered' = Registered /\ Created' = Created
    BY <2>2 DEF Registered, Created
  <2>7. PairsOwned'
    BY <2>1, <2>2, <2>3, <2>6, PairTypes DEF PairsOwned, Before
  <2>8. AddressesOnce'
    BY <2>1, <2>2 DEF AddressesOnce
  <2>9. BothProgress'
    BY <2>1, <2>2, <2>3, <2>6 DEF BothProgress
  <2>10. OwnTokensAnswered'
    BY <2>1, <2>2, <2>3, <2>6 DEF OwnTokensAnswered
  <2> QED BY <2>4, <2>5, <2>7, <2>8, <2>9, <2>10 DEF IInv
<1> QED BY <1>1, <1>2

LEMMA NotCreatedStep == ASSUME IInv, NEW r \in Req, NotCreated(r) PROVE IInv'
<1>1. CASE kind[r] = "both"
  BY <1>1, FailsStep
<1>2. CASE kind[r] # "both"
  <2>1. Answer(r, None) /\ None \in 0 .. N
    BY <1>2 DEF NotCreated, None
  <2>2. kind[r] \notin {"pool", "query"}
    BY DEF NotCreated, IInv, CallsFit
  <2>3. /\ phase[r] = "submitted" /\ UNCHANGED <<programs>>
        /\ UNCHANGED <<process, kind, tokens, call, pairs, late>>
    BY DEF NotCreated, chain
  <2> QED BY <1>2, <2>1, <2>2, <2>3, AnswerStep
<1> QED BY <1>1, <1>2

LEMMA QueryStep ==
    ASSUME IInv, NEW r \in Req, QueryOwn(r) \/ QueryLast(r) \/ QueryRead(r)
    PROVE  IInv'
<1>1. /\ phase[r] = "querying" /\ UNCHANGED <<programs>>
      /\ UNCHANGED <<process, kind, tokens, call, pairs, late>>
  BY DEF QueryOwn, QueryLast, QueryRead, chain
<1>2. \A p \in Registered : p.address \in 0 .. N
  BY PairTypes DEF IInv, Created, Req
<1>3. CASE QueryOwn(r)
  <2>1. CASE Fail(r)
    BY <1>3, <2>1, FailsStep
  <2>2. ASSUME NEW p \in PairsOf(r), Answer(r, p.address) PROVE IInv'
    <3>1. p \in Registered /\ p.joins = tokens[r] /\ p.address \in 0 .. N
      BY <1>2 DEF PairsOf
    <3> QED BY <1>1, <2>2, <3>1, AnswerStep
  <2> QED BY <1>3, <2>1, <2>2 DEF QueryOwn
<1>4. CASE QueryLast(r)
  <2>1. CASE pairs = <<>>
    BY <1>4, <2>1, FailsStep DEF QueryLast
  <2>2. CASE pairs # <<>>
    <3>1. pairs \in Seq(Pair)
      BY DEF IInv, TypeOK
    <3>2. Len(pairs) \in 1 .. Len(pairs)
      BY <2>2, <3>1
    <3>3. LastPair.address \in 0 .. N
      BY <1>2, <3>2 DEF LastPair, Registered
    <3>4. Answer(r, LastPair.address) /\ kind[r] \notin {"pool", "query"}
      BY <1>4, <2>2 DEF QueryLast
    <3> QED BY <1>1, <3>3, <3>4, AnswerStep
  <2> QED BY <2>1, <2>2
<1>5. CASE QueryRead(r)
  <2>1. ASSUME NEW p \in PairsOf(r), Answer(r, p.address) PROVE IInv'
    <3>1. p \in Registered /\ p.joins = tokens[r] /\ p.address \in 0 .. N
      BY <1>2 DEF PairsOf
    <3> QED BY <1>1, <2>1, <3>1, AnswerStep
  <2>2. CASE Answer(r, None)
    BY <1>1, <1>5, <2>2, AnswerStep DEF QueryRead, None
  <2> QED BY <1>5, <2>1, <2>2 DEF QueryRead
<1> QED BY <1>3, <1>4, <1>5

-----------------------------------------------------------------------------
(* The registry. *)

LEMMA Appended ==
    ASSUME TypeOK, NEW p \in Pair, pairs' = Append(pairs, p)
    PROVE  /\ pairs' \in Seq(Pair) /\ Len(pairs) \in Nat /\ Len(pairs') = Len(pairs) + 1
           /\ \A i \in 1 .. Len(pairs) : pairs'[i] = pairs[i]
           /\ pairs'[Len(pairs) + 1] = p
           /\ Registered' = Registered \cup {p}
<1>1. /\ pairs' \in Seq(Pair) /\ Len(pairs) \in Nat /\ Len(pairs') = Len(pairs) + 1
      /\ \A i \in 1 .. Len(pairs) : pairs'[i] = pairs[i]
      /\ pairs'[Len(pairs) + 1] = p
  BY DEF TypeOK
<1>2. \A i \in 1 .. Len(pairs) + 1 : i \in 1 .. Len(pairs) \/ i = Len(pairs) + 1
  BY <1>1
<1>3. Registered' = {pairs'[i] : i \in 1 .. Len(pairs) + 1}
  BY <1>1 DEF Registered
<1>4. \A i \in 1 .. Len(pairs) : i \in 1 .. Len(pairs) + 1
  BY <1>1
<1>5. Len(pairs) + 1 \in 1 .. Len(pairs) + 1
  BY <1>1
<1> QED BY <1>1, <1>2, <1>3, <1>4, <1>5 DEF Registered

(* The factory created the pool of r. *)
LEMMA PoolAdded ==
    ASSUME IInv, NEW r \in Req, AddPool(r), call[r] = "CreatePool",
           phase[r] \in {"submitted", "orphaned"},
           NEW p \in {"querying", "pausing", "cut"}, Move(r, p),
           p = "querying" => kind[r] = "pool",
           UNCHANGED <<process, kind, tokens, call, answer, programs>>
    PROVE  IInv'
<1> DEFINE pair == [joins |-> tokens[r], address |-> r]
<1>1. /\ TypeOK /\ CallsFit /\ PairsOwned /\ AddressesOnce /\ BothProgress
      /\ OwnTokensAnswered
  BY DEF IInv
<1>2. /\ phase' \in [Req -> Phase] /\ phase'[r] = p
      /\ \A q \in Req \ {r} : phase'[q] = phase[q]
  BY <1>1, MoveTypes DEF Phase
<1>3. pair \in Pair /\ pair.address = r /\ pair.joins = tokens[r]
  <2>1. tokens[r] \in SUBSET AnyToken
    BY <1>1 DEF TypeOK
  <2> QED BY <2>1 DEF Pair
<1>4. \/ pairs' = Append(pairs, pair) /\ late' = late
      \/ late' = late \cup {pair} /\ pairs' = pairs
  BY DEF AddPool
<1> HIDE DEF pair
<1>5. /\ pairs' \in Seq(Pair) /\ late' \in SUBSET Pair
      /\ Created' = Created \cup {pair}
      /\ \A q \in Registered : q \in Registered'
  <2>1. CASE pairs' = Append(pairs, pair) /\ late' = late
    BY <1>1, <1>3, <2>1, Appended DEF TypeOK, Created
  <2>2. CASE late' = late \cup {pair} /\ pairs' = pairs
    BY <1>1, <1>3, <2>2 DEF TypeOK, Created, Registered
  <2> QED BY <1>4, <2>1, <2>2
<1>6. TypeOK'
  BY <1>1, <1>2, <1>5 DEF TypeOK, process
<1>7. CallsFit'
  BY <1>1, <1>2 DEF CallsFit
<1>8. \A q \in Created : q.address \in Req \ {r}
  BY <1>1, PairTypes DEF PairsOwned, Before
<1>9. PairsOwned'
  <2>1. \A q \in Created : phase'[q.address] = phase[q.address]
    BY <1>2, <1>8
  <2> QED BY <1>1, <1>2, <1>3, <1>5, <2>1 DEF PairsOwned, Before
<1>10. AddressesOnce'
  <2>1. /\ \A i \in 1 .. Len(pairs) : pairs[i].address # r
        /\ \A q \in late : q.address # r
    BY <1>8 DEF Created, Registered
  <2>2. CASE pairs' = Append(pairs, pair) /\ late' = late
    <3>1. /\ Len(pairs) \in Nat /\ Len(pairs') = Len(pairs) + 1
          /\ \A i \in 1 .. Len(pairs) : pairs'[i] = pairs[i]
          /\ pairs'[Len(pairs) + 1] = pair
      BY <1>1, <1>3, <2>2, Appended
    <3>2. \A i \in 1 .. Len(pairs') : i \in 1 .. Len(pairs) \/ i = Len(pairs) + 1
      BY <3>1
    <3> QED BY <1>1, <1>3, <2>1, <2>2, <3>1, <3>2 DEF AddressesOnce
  <2>3. CASE late' = late \cup {pair} /\ pairs' = pairs
    BY <1>1, <1>3, <2>1, <2>3 DEF AddressesOnce
  <2> QED BY <1>4, <2>2, <2>3
<1>11. BothProgress'
  BY <1>1, <1>2, <1>3, <1>5 DEF BothProgress
<1>12. OwnTokensAnswered'
  BY <1>1, <1>2, <1>5 DEF OwnTokensAnswered
<1> QED BY <1>6, <1>7, <1>9, <1>10, <1>11, <1>12 DEF IInv

LEMMA PoolStep == ASSUME IInv, NEW r \in Req, PoolCreated(r) PROVE IInv'
BY PoolAdded DEF PoolCreated

LEMMA OrphanStep == ASSUME IInv, NEW r \in Req, Orphan(r) PROVE IInv'
<1>1. /\ phase[r] = "orphaned" /\ Move(r, "cut") /\ TypeOK
      /\ UNCHANGED <<process, kind, tokens, call, answer>>
  BY DEF Orphan, IInv
<1>2. CASE call[r] = "CreatePool" /\ AddPool(r) /\ UNCHANGED programs
  BY <1>1, <1>2, PoolAdded
<1>3. CASE UNCHANGED <<pairs, late>> /\ (programs' = programs \/ programs' = programs \cup {r})
  <2>1. /\ phase' \in [Req -> Phase] /\ phase'[r] = "cut"
        /\ \A q \in Req \ {r} : phase'[q] = phase[q]
    BY <1>1, MoveTypes DEF Phase
  <2>2. TypeOK'
    BY <1>1, <1>3, <2>1 DEF TypeOK, process
  <2>3. \A q \in Req : MovesOn(q)
    BY <1>1, <2>1 DEF MovesOn
  <2> QED BY <1>1, <1>3, <2>2, <2>3, PhasesStep
<1> QED BY <1>2, <1>3 DEF Orphan, chain

LEMMA LoseStep == ASSUME IInv, NEW r \in Req, Lose(r) PROVE IInv'
<1>1. /\ UNCHANGED <<process, kind, tokens, call, answer, chain>> /\ TypeOK
      /\ phase[r] = "submitted" /\ Move(r, "lost")
  BY DEF Lose, IInv
<1>2. phase' \in [Req -> Phase] /\ phase'[r] = "lost" /\ \A q \in Req \ {r} : phase'[q] = phase[q]
  BY <1>1, MoveTypes DEF Phase
<1>3. TypeOK'
  BY <1>1, <1>2 DEF TypeOK, chain, process
<1>4. \A q \in Req : MovesOn(q)
  BY <1>1, <1>2 DEF MovesOn
<1> QED BY <1>1, <1>3, <1>4, PhasesStep DEF chain

LEMMA RegisterStep == ASSUME IInv, NEW p \in late, Register(p) PROVE IInv'
<1>1. /\ TypeOK /\ CallsFit /\ PairsOwned /\ AddressesOnce /\ BothProgress
      /\ OwnTokensAnswered
  BY DEF IInv
<1>2. /\ UNCHANGED <<process, kind, tokens, call, phase, answer, programs>>
      /\ pairs' = Append(pairs, p) /\ late' = late \ {p} /\ p \in Pair
  BY <1>1 DEF Register, TypeOK
<1>3. /\ pairs' \in Seq(Pair) /\ Len(pairs) \in Nat /\ Len(pairs') = Len(pairs) + 1
      /\ \A i \in 1 .. Len(pairs) : pairs'[i] = pairs[i]
      /\ pairs'[Len(pairs) + 1] = p
      /\ Registered' = Registered \cup {p}
  BY <1>1, <1>2, Appended
<1>4. Created' = Created
  BY <1>2, <1>3 DEF Created
<1>5. TypeOK'
  BY <1>1, <1>2, <1>3 DEF TypeOK, process
<1>6. CallsFit' /\ PairsOwned'
  BY <1>1, <1>2, <1>4 DEF CallsFit, PairsOwned
<1>7. AddressesOnce'
  <2>1. \A i \in 1 .. Len(pairs') : i \in 1 .. Len(pairs) \/ i = Len(pairs) + 1
    BY <1>3
  <2>2. \A q \in late : q.address = p.address => q = p
    <3> SUFFICES ASSUME NEW q \in late, q.address = p.address PROVE q = p
      OBVIOUS
    <3>1. q \in Pair /\ q.joins = tokens[q.address] /\ p.joins = tokens[p.address]
      BY <1>1 DEF PairsOwned, Created, TypeOK
    <3> QED BY <1>2, <3>1 DEF Pair
  <2> QED BY <1>1, <1>2, <1>3, <2>1, <2>2 DEF AddressesOnce
<1>8. BothProgress' /\ OwnTokensAnswered'
  BY <1>1, <1>2, <1>3, <1>4 DEF BothProgress, OwnTokensAnswered
<1> QED BY <1>5, <1>6, <1>7, <1>8 DEF IInv

-----------------------------------------------------------------------------
(* The timers: the second call of createProgramAndPool, or the query. *)
LEMMA TimerStep == ASSUME IInv, NEW r \in Req, Timer(r) PROVE IInv'
<1>1. /\ TypeOK /\ CallsFit /\ PairsOwned /\ AddressesOnce /\ BothProgress
      /\ OwnTokensAnswered
  BY DEF IInv
<1>2. phase[r] = "pausing" /\ UNCHANGED <<process, kind, answer, programs, pairs, late>>
  BY DEF Timer, chain
<1>3. Registered' = Registered /\ Created' = Created
  BY <1>2 DEF Registered, Created
<1>4. AddressesOnce'
  BY <1>1, <1>2 DEF AddressesOnce
<1>5. CASE call[r] = "CreateProgram"
  <2>1. PICK reg \in Token : tokens' = [tokens EXCEPT ![r] = {r, reg}]
    BY <1>5 DEF Timer, PoolTokens
  <2>2. call' = [call EXCEPT ![r] = "CreatePool"] /\ Move(r, "estimating")
    BY <1>5 DEF Timer
  <2>3. /\ phase' \in [Req -> Phase] /\ phase'[r] = "estimating"
        /\ \A q \in Req \ {r} : phase'[q] = phase[q]
    BY <1>1, <2>2, MoveTypes DEF Phase
  <2>4. /\ tokens' \in [Req -> SUBSET AnyToken] /\ tokens'[r] = {r, reg}
        /\ call' \in [Req -> {"none", "CreateProgram", "CreatePool"}]
        /\ call'[r] = "CreatePool"
        /\ \A q \in Req \ {r} : tokens'[q] = tokens[q] /\ call'[q] = call[q]
    <3>1. {r, reg} \in SUBSET AnyToken
      BY DEF AnyToken
    <3> QED BY <1>1, <2>1, <2>2, <3>1 DEF TypeOK
  <2>5. Cardinality({r, reg}) = 2
    BY TwoTokens DEF Req
  <2>6. kind[r] = "both" /\ r \in programs
    BY <1>1, <1>2, <1>5 DEF CallsFit, BothProgress
  <2>7. TypeOK'
    BY <1>1, <1>2, <2>3, <2>4, <2>5 DEF TypeOK, process
  <2>8. CallsFit'
    BY <1>1, <1>2, <2>3, <2>4, <2>6 DEF CallsFit
  <2>9. \A p \in Created : p.address \in Req \ {r}
    BY <1>1, <1>5, PairTypes DEF PairsOwned
  <2>10. PairsOwned'
    BY <1>1, <1>3, <2>3, <2>4, <2>9 DEF PairsOwned
  <2>11. BothProgress'
    BY <1>1, <1>2, <1>3, <2>3, <2>4, <2>6 DEF BothProgress
  <2>12. OwnTokensAnswered'
    BY <1>1, <1>2, <1>3, <2>3, <2>4 DEF OwnTokensAnswered
  <2> QED BY <1>4, <2>7, <2>8, <2>10, <2>11, <2>12 DEF IInv
<1>6. CASE call[r] # "CreateProgram"
  <2>1. Move(r, "querying") /\ UNCHANGED <<tokens, call>>
    BY <1>6 DEF Timer
  <2>2. /\ phase' \in [Req -> Phase] /\ phase'[r] = "querying"
        /\ \A q \in Req \ {r} : phase'[q] = phase[q]
    BY <1>1, <2>1, MoveTypes DEF Phase
  <2>3. call[r] = "CreatePool"
    BY <1>1, <1>2, <1>6 DEF CallsFit, TypeOK
  <2>4. TypeOK'
    BY <1>1, <1>2, <2>1, <2>2 DEF TypeOK, process
  <2>5. CallsFit'
    BY <1>1, <1>2, <2>1, <2>2 DEF CallsFit
  <2>6. PairsOwned'
    BY <1>1, <1>2, <1>3, <2>1, <2>2, PairTypes DEF PairsOwned, Before
  <2>7. BothProgress'
    BY <1>1, <1>2, <1>3, <2>1, <2>2, <2>3 DEF BothProgress
  <2>8. OwnTokensAnswered'
    BY <1>1, <1>2, <1>3, <2>1, <2>2 DEF OwnTokensAnswered
  <2> QED BY <1>4, <2>4, <2>5, <2>6, <2>7, <2>8 DEF IInv
<1> QED BY <1>5, <1>6

-----------------------------------------------------------------------------
LEMMA IInvInit == Init => IInv
<1> SUFFICES ASSUME Init PROVE IInv
  OBVIOUS
<1>1. pairs \in Seq(Pair) /\ Len(pairs) = 0 /\ late = {}
  BY DEF Init
<1>2. TypeOK
  BY <1>1 DEF Init, TypeOK, Phase, None
<1>3. Created = {}
  BY <1>1 DEF Created, Registered
<1>4. CallsFit
  BY DEF Init, CallsFit
<1>5. PairsOwned /\ AddressesOnce
  BY <1>1, <1>3 DEF PairsOwned, AddressesOnce
<1>6. BothProgress /\ OwnTokensAnswered
  BY DEF Init, BothProgress, OwnTokensAnswered
<1> QED BY <1>2, <1>4, <1>5, <1>6 DEF IInv

LEMMA IInvStep == IInv /\ [Next]_vars => IInv'
<1> SUFFICES ASSUME IInv, [Next]_vars PROVE IInv'
  OBVIOUS
<1>1. CASE UNCHANGED vars
  <2>1. TypeOK'
    BY <1>1 DEF vars, process, IInv, TypeOK
  <2> QED BY <1>1, <2>1, PhasesStep DEF vars, MovesOn
<1>2. ASSUME NEW r \in Req, Step(r) PROVE IInv'
  BY <1>2, FailsStep, ProgramStep, NotCreatedStep, PoolStep, TimerStep, QueryStep DEF Step
<1>3. ASSUME Next PROVE IInv'
  BY <1>2, <1>3, ProcessStep, ArrivalStep, LoseStep, OrphanStep, RegisterStep DEF Next
<1> QED BY <1>1, <1>3

LEMMA Inductive == Spec => []IInv
  BY IInvInit, IInvStep, PTL DEF Spec

-----------------------------------------------------------------------------
(* Requests, calls and pairs keep their types. *)
THEOREM TypeCorrect == Spec => []TypeOK
<1>1. IInv => TypeOK
  BY DEF IInv
<1> QED BY Inductive, <1>1, PTL

(* createPool answers with the pair of the tokens it was asked for         *)
(* (gateway.service.ts:49-85).                                             *)
THEOREM OwnTokens == Spec => []OwnTokensAnswered
<1>1. IInv => OwnTokensAnswered
  BY DEF IInv
<1> QED BY Inductive, <1>1, PTL

(* An answer to createProgramAndPool means a program and a pool of it.     *)
THEOREM BothExist == Spec => []BothMeansBoth
<1>1. IInv => BothMeansBoth
  <2> SUFFICES ASSUME IInv, NEW r \in Req, phase[r] = "ok", kind[r] = "both"
               PROVE  /\ r \in programs
                      /\ \E p \in Created : p.address = r /\ r \in p.joins
    BY DEF BothMeansBoth, Created
  <2>1. r \in programs /\ r \in tokens[r] /\ \E p \in Created : p.address = r
    BY DEF IInv, BothProgress
  <2> QED BY <2>1 DEF IInv, PairsOwned
<1> QED BY Inductive, <1>1, PTL

-----------------------------------------------------------------------------
(* The two methods that take the last pair are answered by that query      *)
(* alone.                                                                  *)
LEMMA OnlyLastAnswers ==
    ASSUME IInv, [Next]_vars, NEW r \in Req, kind[r] \in {"poolRegistered", "both"},
           phase[r] # "ok", phase'[r] = "ok"
    PROVE  pairs # <<>> /\ answer'[r] = LastPair.address
<1>1. TypeOK /\ CallsFit
  BY DEF IInv
<1>2. \A q \in Req : \A p : Move(q, p) => phase'[q] = p /\ (q # r => phase'[r] = phase[r])
  BY <1>1 DEF Move, TypeOK
<1>3. ~UNCHANGED vars
  BY DEF vars
<1>4. ~Process
  BY DEF Process, Listen, Shutdown, Exit
<1>5. ASSUME NEW q \in Req, NEW k \in {"program", "both", "pool", "poolRegistered", "query"},
             NEW first, NEW joined, Start(q, k, first, joined)
      PROVE  FALSE
  BY <1>1, <1>5 DEF Start, TypeOK
<1>6. ASSUME NEW q \in Req, Step(q)
      PROVE  pairs # <<>> /\ answer'[r] = LastPair.address
  <2>1. ~(SignAndSend(q) \/ Throw(q) \/ ErrorReply(q))
    BY <1>2 DEF SignAndSend, Throw, ErrorReply, Fail
  <2>2. ~(ProgramCreated(q) \/ NotCreated(q))
    BY <1>1, <1>2 DEF ProgramCreated, NotCreated, Fail, Answer, CallsFit
  <2>3. ~(PoolCreated(q) \/ Timer(q))
    BY <1>2 DEF PoolCreated, Timer
  <2>4. ~(QueryOwn(q) \/ QueryRead(q))
    BY <1>2 DEF QueryOwn, QueryRead, Fail, Answer
  <2>5. CASE QueryLast(q)
    <3>1. q = r /\ pairs # <<>> /\ Answer(q, LastPair.address)
      BY <1>2, <2>5 DEF QueryLast, Fail, Answer
    <3> QED BY <1>1, <3>1 DEF Answer, TypeOK
  <2> QED BY <1>6, <2>1, <2>2, <2>3, <2>4, <2>5 DEF Step
<1>7. \A q \in Req : ~Lose(q) /\ ~Orphan(q)
  BY <1>2 DEF Lose, Orphan
<1>8. \A p \in late : ~Register(p)
  BY DEF Register
<1> QED BY <1>3, <1>4, <1>5, <1>6, <1>7, <1>8
        DEF Next, CreateProgram, CreateProgramAndPool, CreatePool, PoolWithRegistered, Query

LEMMA NotOlder ==
    ASSUME IInv, [Next]_vars, NEW r \in Req, kind[r] \in {"poolRegistered", "both"},
           phase[r] # "ok", phase'[r] = "ok",
           \E p \in Registered : p.address = r
    PROVE  Position(answer'[r]) >= Position(r)
<1>1. answer'[r] = LastPair.address /\ pairs # <<>>
  BY OnlyLastAnswers
<1>2. Len(pairs) \in Nat /\ Len(pairs) \in 1 .. Len(pairs)
  <2>1. pairs \in Seq(Pair)
    BY DEF IInv, TypeOK
  <2> QED BY <1>1, <2>1
<1>3. Position(answer'[r]) = Len(pairs)
  <2>1. \A i \in 1 .. Len(pairs) : pairs[i].address = answer'[r] <=> i = Len(pairs)
    BY <1>1, <1>2 DEF IInv, AddressesOnce, LastPair
  <2> QED BY <1>2, <2>1 DEF Position
<1>4. Position(r) \in 1 .. Len(pairs)
  <2>1. \E i \in 1 .. Len(pairs) : pairs[i].address = r
    BY DEF Registered
  <2> QED BY <2>1 DEF Position
<1> QED BY <1>2, <1>3, <1>4

(* Whoever is answered with the last pair, and has its own registered, is  *)
(* answered with that one or a later one (gateway.service.ts:72-128,       *)
(* 207-214).                                                               *)
THEOREM LastIsNotOlder == Spec => AnswerNotOlder
<1> DEFINE A == \A r \in Req :
                  (/\ kind[r] \in {"poolRegistered", "both"}
                   /\ phase[r] # "ok" /\ phase'[r] = "ok"
                   /\ \E p \in Registered : p.address = r)
                  => Position(answer'[r]) >= Position(r)
<1>1. IInv /\ [Next]_vars => [A]_vars
  BY NotOlder
<1> QED BY Inductive, <1>1, PTL DEF Spec, AnswerNotOlder
=============================================================================
