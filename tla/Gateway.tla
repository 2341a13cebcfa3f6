------------------------------ MODULE Gateway ------------------------------
(***************************************************************************)
(* infrastructure/gateway: a REST server that creates token programs and   *)
(* liquidity pools through a factory program, signing with one account.    *)
(* It keeps no state of its own; what matters is how the steps of requests *)
(* interleave with each other and with the chain.  An action is what runs  *)
(* between two awaits of a request, or a step of the chain.  A shutdown    *)
(* cuts off the requests under way, but not what they have submitted.      *)
(*                                                                         *)
(* The factory and the pool factory are not part of the repository: a pool *)
(* joins two tokens and there is one per pair of tokens, the registry      *)
(* lists pairs in the order they were added.                               *)
(***************************************************************************)
EXTENDS Integers, Sequences, FiniteSets

CONSTANTS
    N,           \* how many requests arrive
    Token,       \* tokens that exist beforehand
    Kinds,       \* the write endpoints clients use
    Concurrency, \* how many requests clients have under way at a time
    MaxStops,    \* bound on the shutdowns
    Lag          \* may a pool reach the registry after the factory's reply?

ASSUME GatewayAssumption ==
    /\ N \in Nat \ {0}
    /\ Token \cap (1 .. N) = {}
    /\ Kinds \subseteq {"program", "pool", "poolRegistered", "both", "query"}
    /\ MaxStops \in Nat
    /\ Concurrency \in Nat \ {0}
    /\ Lag \in BOOLEAN

VARIABLES
    server,    \* the process: starting, listening or closing
    stops,     \* shutdowns so far
    kind,      \* kind[r]: the endpoint of request r
    tokens,    \* tokens[r]: the two tokens of the pool it asks for
    call,      \* call[r]: the factory method it is calling
    phase,     \* phase[r]: how far that call got
    answer,    \* answer[r]: the pair address in its answer, or None
    programs,  \* requests whose program was created
    pairs,     \* the pool factory's registry
    late       \* pools created and not in the registry yet

process == <<server, stops>>
vars == <<process, kind, tokens, call, phase, answer, programs, pairs, late>>
chain == <<programs, pairs, late>>

-----------------------------------------------------------------------------
Req == 1 .. N
None == 0

(* The program that request r created is the token r. *)
AnyToken == Token \cup Req

(* A pair: what it joins, and the request that created it, as its address. *)
Pair == [joins : SUBSET AnyToken, address : Req]

(* estimating: calculateGas and signAndSend up to the pool; submitted: in  *)
(* the pool, then response(); lost: the node dropped the transaction;      *)
(* pausing: the timer; querying.                                           *)
Phase == {"none", "estimating", "submitted", "lost", "pausing",
          "querying", "ok", "failed", "orphaned", "cut"}
Ended == {"ok", "failed"}
Cut == {"orphaned", "cut"}  \* its process is gone, with its extrinsic or not

TypeOK == /\ server \in {"starting", "listening", "closing"}
          /\ stops \in 0 .. MaxStops
          /\ kind \in [Req -> Kinds \cup {"none"}]
          /\ tokens \in [Req -> SUBSET AnyToken]
          /\ call \in [Req -> {"none", "CreateProgram", "CreatePool"}]
          /\ \A r \in Req : call[r] = "CreatePool" => Cardinality(tokens[r]) = 2
          /\ phase \in [Req -> Phase]
          /\ answer \in [Req -> 0 .. N]
          /\ programs \in SUBSET Req
          /\ pairs \in Seq(Pair)
          /\ late \in SUBSET Pair

Init == /\ server = "starting" /\ stops = 0
        /\ kind = [r \in Req |-> "none"]
        /\ tokens = [r \in Req |-> {}]
        /\ call = [r \in Req |-> "none"]
        /\ phase = [r \in Req |-> "none"]
        /\ answer = [r \in Req |-> None]
        /\ programs = {}
        /\ pairs = <<>>
        /\ late = {}

-----------------------------------------------------------------------------
(* Requests arrive, in the order of their numbers.                         *)

Active == {r \in Req : phase[r] \notin {"none"} \cup Ended \cup Cut}

Arrives(r) == /\ server \in {"listening", "closing"}
              /\ phase[r] = "none"
              /\ \A q \in 1 .. r - 1 : phase[q] # "none"
              /\ Cardinality(Active) < Concurrency

Start(r, k, first, joined) ==
    /\ k \in Kinds
    /\ Arrives(r)
    /\ kind' = [kind EXCEPT ![r] = k]
    /\ tokens' = [tokens EXCEPT ![r] = joined]
    /\ call' = [call EXCEPT ![r] = first]
    /\ phase' = [phase EXCEPT ![r] = IF k = "query" THEN "querying" ELSE "estimating"]
    /\ UNCHANGED <<process, answer, chain>>

CreateProgram(r)        == Start(r, "program", "CreateProgram", {})
CreateProgramAndPool(r) == Start(r, "both", "CreateProgram", {})

(* CreatePool, and CreatePoolWithRegisteredToken: the second token is one  *)
(* the factory has registered.                                             *)
CreatePool(r, a, b)          == Start(r, "pool", "CreatePool", {a, b})
PoolWithRegistered(r, a, reg) == Start(r, "poolRegistered", "CreatePool", {a, reg})

(* The read endpoints.  All answer or fail alike; what one finds matters   *)
(* for pairs only, so each is taken for the one that asks for a pair.      *)
Query(r, a, b) == Start(r, "query", "none", {a, b})

-----------------------------------------------------------------------------
(* One call of the factory.                                                *)

(* shutdown() disconnects first: nothing reaches a request after that. *)
Connected == server = "listening"

Move(r, p) == phase' = [phase EXCEPT ![r] = p]

Answer(r, a) == /\ Move(r, "ok")
                /\ answer' = [answer EXCEPT ![r] = a]

Fail(r) == Move(r, "failed") /\ UNCHANGED answer

SignAndSend(r) == /\ Connected /\ phase[r] = "estimating"
                  /\ Move(r, "submitted")
                  /\ UNCHANGED <<process, kind, tokens, call, answer, chain>>

(* An awaited call rejects: the gas estimate, the submission (the nonce    *)
(* may be that of another request under way) or a query.                   *)
Throw(r) == /\ phase[r] \in {"estimating", "querying"}
            /\ Fail(r)
            /\ UNCHANGED <<process, kind, tokens, call, chain>>

(* The pool drops the transaction, or another request's with the same      *)
(* nonce takes its place: the await of signAndSend or response never       *)
(* settles, and the client waits until the process ends.                   *)
Lose(r) == /\ phase[r] = "submitted"
           /\ Move(r, "lost")
           /\ UNCHANGED <<process, kind, tokens, call, answer, chain>>

(* The factory replies to CreateProgram with the address ... *)
ProgramCreated(r) ==
    /\ Connected /\ phase[r] = "submitted"
    /\ call[r] = "CreateProgram"
    /\ programs' = programs \cup {r}
    /\ IF kind[r] = "both" THEN Move(r, "pausing") /\ UNCHANGED answer
                           ELSE Answer(r, None)
    /\ UNCHANGED <<process, kind, tokens, call, pairs, late>>

(* ... or with another variant, which only createProgramAndPool looks at.  *)
NotCreated(r) ==
    /\ Connected /\ phase[r] = "submitted"
    /\ call[r] = "CreateProgram"
    /\ IF kind[r] = "both" THEN Fail(r) ELSE Answer(r, None)
    /\ UNCHANGED <<process, kind, tokens, call, chain>>

(* Mutants: an error reply does not throw; it leaves the request waiting. *)
ErrorSwallowed(r) == /\ Connected /\ phase[r] = "submitted"
                     /\ Move(r, "pausing")
                     /\ UNCHANGED <<process, kind, tokens, call, answer, chain>>

ErrorUnanswered(r) == /\ phase[r] = "submitted"
                      /\ UNCHANGED vars

(* The extrinsic fails when it is included, or the factory replies with an *)
(* error, to either method.                                                *)
ErrorReply(r) == /\ Connected /\ phase[r] = "submitted"
                 /\ Fail(r)
                 /\ UNCHANGED <<process, kind, tokens, call, chain>>

Registered == {pairs[i] : i \in 1 .. Len(pairs)}

(* The factory has a pool created, unless there is one of these tokens. *)
AddPool(r) ==
    LET pair == [joins |-> tokens[r], address |-> r]
    IN  /\ \A p \in Registered \cup late : p.joins # tokens[r]
        /\ \/ pairs' = Append(pairs, pair) /\ UNCHANGED late
           \/ Lag /\ late' = late \cup {pair} /\ UNCHANGED pairs

(* createPool queries at once, the others pause first. *)
PoolCreated(r) ==
    /\ Connected /\ phase[r] = "submitted"
    /\ call[r] = "CreatePool"
    /\ AddPool(r)
    /\ Move(r, IF kind[r] = "pool" THEN "querying" ELSE "pausing")
    /\ UNCHANGED <<process, kind, tokens, call, answer, programs>>

Register(p) == /\ pairs' = Append(pairs, p)
               /\ late' = late \ {p}
               /\ UNCHANGED <<process, kind, tokens, call, phase, answer, programs>>

-----------------------------------------------------------------------------
PoolTokens(r, reg) == {r, reg}

(* setTimeout fires: after 2 s the second call of createProgramAndPool     *)
(* starts, after 3 s the registry is queried.                              *)
Timer(r) ==
    /\ phase[r] = "pausing"
    /\ IF call[r] = "CreateProgram"
       THEN /\ \E reg \in Token :
                 tokens' = [tokens EXCEPT ![r] = PoolTokens(r, reg)]
            /\ call' = [call EXCEPT ![r] = "CreatePool"]
            /\ Move(r, "estimating")
       ELSE /\ Move(r, "querying")
            /\ UNCHANGED <<tokens, call>>
    /\ UNCHANGED <<process, kind, answer, chain>>

(* Mutant: the query ignores its arguments. *)
PairsOfAnyone(r) == Registered

(* getPairAddress, null when there is no such pair. *)
PairsOf(r) == {p \in Registered : p.joins = tokens[r]}

(* The query of createPool, and that of the other two. *)
QueryOwn(r) ==
    /\ Connected /\ phase[r] = "querying"
    /\ kind[r] = "pool"
    /\ \/ \E p \in PairsOf(r) : Answer(r, p.address)
       \/ PairsOf(r) = {} /\ Fail(r)
    /\ UNCHANGED <<process, kind, tokens, call, chain>>

(* Mutant: the registry is read from the wrong end. *)
FirstPair == pairs[1]

LastPair == pairs[Len(pairs)]

QueryLast(r) ==
    /\ Connected /\ phase[r] = "querying"
    /\ kind[r] \in {"poolRegistered", "both"}
    /\ IF pairs = <<>> THEN Fail(r) ELSE Answer(r, LastPair.address)
    /\ UNCHANGED <<process, kind, tokens, call, chain>>

(* A read answers with the pair it asks for, or null. *)
QueryRead(r) ==
    /\ Connected /\ phase[r] = "querying"
    /\ kind[r] = "query"
    /\ \/ \E p \in PairsOf(r) : Answer(r, p.address)
       \/ PairsOf(r) = {} /\ Answer(r, None)
    /\ UNCHANGED <<process, kind, tokens, call, chain>>

-----------------------------------------------------------------------------
(* The process.                                                            *)

(* start(): the port is opened once the network, the signer and both       *)
(* programs are there; a failure on the way ends the process, and whoever  *)
(* runs it starts it again.                                                *)
Listen == /\ server = "starting"
          /\ server' = "listening"
          /\ UNCHANGED <<stops, kind, tokens, call, phase, answer, chain>>

(* A signal: shutdown() disconnects, if there is a connection, ... *)
Shutdown == /\ server = "listening" /\ stops < MaxStops
            /\ server' = "closing"
            /\ stops' = stops + 1
            /\ UNCHANGED <<kind, tokens, call, phase, answer, chain>>

(* ... and then exits, whatever is under way, and is started again. *)
Exit == /\ server = "closing"
        /\ server' = "starting"
        /\ phase' = [r \in Req |->
                        IF r \notin Active THEN phase[r]
                        ELSE IF phase[r] = "submitted" THEN "orphaned" ELSE "cut"]
        /\ UNCHANGED <<stops, kind, tokens, call, answer, chain>>

(* The chain carries out, or fails, what a process submitted that is gone. *)
Orphan(r) == /\ phase[r] = "orphaned"
             /\ Move(r, "cut")
             /\ \/ UNCHANGED chain
                \/ /\ call[r] = "CreateProgram"
                   /\ programs' = programs \cup {r}
                   /\ UNCHANGED <<pairs, late>>
                \/ /\ call[r] = "CreatePool"
                   /\ AddPool(r)
                   /\ UNCHANGED programs
             /\ UNCHANGED <<process, kind, tokens, call, answer>>

-----------------------------------------------------------------------------
Step(r) == \/ SignAndSend(r) \/ Throw(r)
           \/ ProgramCreated(r) \/ NotCreated(r) \/ ErrorReply(r)
           \/ PoolCreated(r)
           \/ Timer(r)
           \/ QueryOwn(r) \/ QueryLast(r) \/ QueryRead(r)

Process == Listen \/ Shutdown \/ Exit

Next == \/ Process
        \/ \E r \in Req : \/ CreateProgram(r) \/ CreateProgramAndPool(r)
                          \/ \E a, b \in Token : a # b /\ CreatePool(r, a, b)
                          \/ \E a, reg \in Token :
                               a # reg /\ PoolWithRegistered(r, a, reg)
                          \/ \E a, b \in Token : a # b /\ Query(r, a, b)
                          \/ Step(r) \/ Lose(r) \/ Orphan(r)
        \/ \E p \in late : Register(p)

Spec == Init /\ [][Next]_vars

(* The event loop runs, timers fire, the chain includes what stays in its  *)
(* pool and the factory replies to it; a process that is shut down exits.  *)
FairSpec == /\ Spec
            /\ \A r \in Req : WF_vars(Step(r))
            /\ WF_vars(Exit)

-----------------------------------------------------------------------------
(* Properties.                                                             *)

Position(a) == CHOOSE i \in 1 .. Len(pairs) : pairs[i].address = a

(* createPool answers with the pair of the two tokens it was asked for,    *)
(* however requests overlap and however late the registry is.              *)
OwnTokensAnswered ==
    \A r \in Req :
        /\ phase[r] = "ok" /\ kind[r] \in {"pool", "query"}
        /\ kind[r] = "query" => answer[r] # None
        => \E p \in Registered : p.address = answer[r] /\ p.joins = tokens[r]

(* createProgramAndPool: an answer means that both exist, a program of its *)
(* own and a pool of that program.  A program may be left without a pool,  *)
(* but its client is then told of an error.                                *)
BothMeansBoth ==
    \A r \in Req : phase[r] = "ok" /\ kind[r] = "both" =>
        /\ r \in programs
        /\ \E p \in Registered \cup late : p.address = r /\ r \in p.joins

(* The two methods that take the last pair answer with their own pool or   *)
(* one added after it, if the registry has theirs when it is queried.  So  *)
(* requests that come one at a time are answered with their own pool.      *)
AnswerNotOlder ==
    [][\A r \in Req :
         (/\ kind[r] \in {"poolRegistered", "both"}
          /\ phase[r] # "ok" /\ phase'[r] = "ok"
          /\ \E p \in Registered : p.address = r)
         => Position(answer'[r]) >= Position(r)]_vars

(* Every request is answered, whatever else is under way, unless the node  *)
(* drops its transaction or the process exits before.                      *)
AnsweredUnlessLost ==
    \A r \in Req : phase[r] # "none" ~> phase[r] \in Ended \cup Cut \cup {"lost"}
=============================================================================
