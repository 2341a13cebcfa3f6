--------------------------- MODULE GaslessServer ---------------------------
(***************************************************************************)
(* infrastructure/gasless-server: an HTTP server that issues, prolongs and *)
(* revokes vouchers, signing with one issuer account.  Its state is a      *)
(* promise queue that runs the issuer's operations one after the other and *)
(* a map of the voucher requests in flight.                                *)
(*                                                                         *)
(* One action is what runs between two awaits (handlers and operations run *)
(* on one event loop), a step of the node's transaction pool, or a fault.  *)
(* The chain is the sequence of the issuer's included transactions, so its *)
(* length is the account nonce and the vouchers are read off it.           *)
(***************************************************************************)
EXTENDS Integers, Sequences, FiniteSets

CONSTANTS
    N,          \* how many HTTP requests arrive
    Key,        \* the strings clients send as account
    HexKey,     \* those of 66 characters that start with 0x
    Account,    \* accounts on chain
    AccountOf,  \* AccountOf[k]: the account a string denotes
    Kinds,      \* the endpoints clients use
    Faults      \* what may go wrong; see the actions

ASSUME GaslessAssumption ==
    /\ N \in Nat \ {0}
    /\ HexKey \subseteq Key
    /\ AccountOf \in [Key -> Account]
    /\ Kinds \subseteq {"request", "issue", "prolong", "revoke"}
    /\ Faults \subseteq {"throw", "drop", "crash", "retract", "expire"}

VARIABLES
    op,        \* op[r]: what request r asks for
    phase,     \* phase[r]: how far the server got with it
    nonce,     \* nonce[r]: the nonce its operation fetched
    result,    \* result[r]: the voucher its answer names
    queue,     \* submissionQueue: the operations not settled yet, in order
    inFlight,  \* inFlightVoucherIssues: key -> request, or None
    pool,      \* the issuer's transactions known to the node, not included
    chain,     \* the issuer's included transactions, in nonce order
    expired    \* vouchers whose duration has passed

server == <<op, phase, nonce, result, queue, inFlight>>
network == <<pool, chain, expired>>
vars == <<op, phase, nonce, result, queue, inFlight, pool, chain, expired>>

-----------------------------------------------------------------------------
Req  == 1 .. N
None == 0      \* no request, no voucher

(* voucher: what prolong and revoke are about, named by the request that   *)
(* issued it; leader: the request whose promise a joined request shares.   *)
Op == [kind : Kinds \cup {"none"}, key : Key \cup {None},
       voucher : 0 .. N, leader : 0 .. N]
NoOp == [kind |-> "none", key |-> None, voucher |-> None, leader |-> None]

Phase == {"none", "queued", "checked", "signing", "submitted", "joined",
          "ok", "failed", "lost"}
Answered == {"ok", "failed"}

Tx == [req : Req, nonce : Nat]
Included == [req : Req, ok : BOOLEAN]

TypeOK == /\ op \in [Req -> Op]
          /\ phase \in [Req -> Phase]
          /\ nonce \in [Req -> Nat]
          /\ result \in [Req -> 0 .. N]
          /\ queue \in Seq(Req)
          /\ inFlight \in [Key -> 0 .. N]
          /\ pool \in SUBSET Tx
          /\ chain \in Seq(Included)
          /\ expired \in SUBSET Req

Init == /\ op = [r \in Req |-> NoOp]
        /\ phase = [r \in Req |-> "none"]
        /\ nonce = [r \in Req |-> 0]
        /\ result = [r \in Req |-> None]
        /\ queue = <<>>
        /\ inFlight = [k \in Key |-> None]
        /\ pool = {}
        /\ chain = <<>>
        /\ expired = {}

-----------------------------------------------------------------------------
(* The chain (pallet voucher and the issuer's nonce), as the server uses   *)
(* it.  A voucher is the request that issued it.                           *)

Succeeded(c, n, kinds) ==
    {r \in Req : \E i \in 1 .. n : c[i].req = r /\ c[i].ok /\ op[r].kind \in kinds}

Issued(c, n)  == Succeeded(c, n, {"request", "issue"})
Revoked(c, n) == {op[r].voucher : r \in Succeeded(c, n, {"revoke"})}

(* The first n transactions left these vouchers in storage; an expired     *)
(* voucher stays there until it is revoked.                                *)
Stored(c, n) == Issued(c, n) \ Revoked(c, n)
Vouchers == Stored(chain, Len(chain))

Spender(v) == AccountOf[op[v].key]

(* api.voucher.getAllForAccount(account), filtered by the program *)
VouchersOf(a) == {v \in Vouchers : Spender(v) = a}

(* system.accountNextIndex: the nonce after those of the pool's ready txs. *)
IsNextIndex(n) == /\ \A t \in pool : t.nonce # n
                  /\ \A m \in Len(chain) .. n - 1 : \E t \in pool : t.nonce = m

(* Mutant: it starts at the nonce of the last transaction. *)
IndicesFromLast == Len(chain) - 1 .. Len(chain) + N

Indices == Len(chain) .. Len(chain) + N

(* How the transaction of r may end: an issue may fail for want of issuer  *)
(* balance, a revoke succeeds for an expired voucher only.                 *)
Outcomes(r) ==
    {ok \in BOOLEAN :
       /\ op[r].kind = "prolong" => (ok <=> op[r].voucher \in Vouchers)
       /\ op[r].kind = "revoke" => (ok <=> op[r].voucher \in Vouchers \cap expired)}

-----------------------------------------------------------------------------
(* HTTP handlers, up to their first await.                                 *)

(* Requests are numbered in the order they arrive. *)
Arrives(r) == /\ phase[r] = "none"
              /\ \A q \in 1 .. r - 1 : phase[q] # "none"

Enqueue(r, kind, k, v) ==
    /\ op' = [op EXCEPT ![r] = [kind |-> kind, key |-> k,
                                voucher |-> v, leader |-> None]]
    /\ phase' = [phase EXCEPT ![r] = "queued"]
    /\ queue' = Append(queue, r)

(* POST /gasless/voucher/request: share the request in flight, or enqueue. *)
Request(r, k) ==
    /\ "request" \in Kinds
    /\ Arrives(r)
    /\ IF inFlight[k] # None
       THEN /\ op' = [op EXCEPT ![r] = [kind |-> "request", key |-> k,
                          voucher |-> None, leader |-> inFlight[k]]]
            /\ phase' = [phase EXCEPT ![r] = "joined"]
            /\ UNCHANGED <<queue, inFlight>>
       ELSE /\ Enqueue(r, "request", k, None)
            /\ inFlight' = [inFlight EXCEPT ![k] = r]
    /\ UNCHANGED <<nonce, result, network>>

(* POST /issue: hex accounts only, no check for an existing voucher, no    *)
(* sharing.                                                                *)
Issue(r, k) ==
    /\ "issue" \in Kinds
    /\ k \in HexKey
    /\ Arrives(r)
    /\ Enqueue(r, "issue", k, None)
    /\ UNCHANGED <<nonce, result, inFlight, network>>

(* POST /prolong and POST /revoke, for a voucher the client was told of. *)
Update(r, kind, v) ==
    /\ kind \in Kinds \cap {"prolong", "revoke"}
    /\ Arrives(r)
    /\ \E q \in Req : phase[q] = "ok" /\ result[q] = v
    /\ Enqueue(r, kind, op[v].key, v)
    /\ UNCHANGED <<nonce, result, inFlight, network>>

-----------------------------------------------------------------------------
(* The operation at the head of the queue.                                 *)

(* Mutant: submissionQueue does not wait for the operation before. *)
QueuedSomewhere(r) == \E i \in 1 .. Len(queue) : queue[i] = r

Running(r) == queue # <<>> /\ Head(queue) = r

(* Mutant: who shares is not answered. *)
SharersOnlyItself(r) == {r}

Sharers(r) == {r} \cup {q \in Req : phase[q] = "joined" /\ op[q].leader = r}

(* Mutant: no finally, the entry is removed only after a success. *)
InFlightUnlessFailed(r, answer) ==
    [k \in Key |-> IF inFlight[k] = r /\ answer = "ok" THEN None ELSE inFlight[k]]

InFlightAfter(r, answer) ==
    [k \in Key |-> IF inFlight[k] = r THEN None ELSE inFlight[k]]

(* The promise of r settles: the queue moves on, the in-flight entry goes  *)
(* (finally), and everyone who shares the promise is answered.             *)
Settle(r, answer, v) ==
    /\ phase' = [q \in Req |-> IF q \in Sharers(r) THEN answer ELSE phase[q]]
    /\ result' = [q \in Req |-> IF q \in Sharers(r) THEN v ELSE result[q]]
    /\ queue' = Tail(queue)
    /\ inFlight' = InFlightAfter(r, answer)

(* issueIfNeeded looks for a voucher of the account before it issues; the  *)
(* other operations only read balances first.                              *)
FindExisting(r) ==
    /\ Running(r)
    /\ phase[r] = "queued"
    /\ op[r].kind = "request"
    /\ \E v \in VouchersOf(AccountOf[op[r].key]) : Settle(r, "ok", v)
    /\ UNCHANGED <<op, nonce, network>>

(* Mutant: the check is skipped. *)
NothingToFind(r) == TRUE

NoVoucherYet(r) ==
    op[r].kind = "request" => VouchersOf(AccountOf[op[r].key]) = {}

Prepare(r) ==
    /\ Running(r)
    /\ phase[r] = "queued"
    /\ NoVoucherYet(r)
    /\ phase' = [phase EXCEPT ![r] = "checked"]
    /\ UNCHANGED <<op, nonce, result, queue, inFlight, network>>

FetchNonce(r) ==
    /\ Running(r)
    /\ phase[r] = "checked"
    /\ \E n \in Indices : IsNextIndex(n) /\ nonce' = [nonce EXCEPT ![r] = n]
    /\ phase' = [phase EXCEPT ![r] = "signing"]
    /\ UNCHANGED <<op, result, queue, inFlight, network>>

SignAndSend(r) ==
    /\ Running(r)
    /\ phase[r] = "signing"
    /\ pool' = pool \cup {[req |-> r, nonce |-> nonce[r]]}
    /\ phase' = [phase EXCEPT ![r] = "submitted"]
    /\ UNCHANGED <<op, nonce, result, queue, inFlight,
                   chain, expired>>

(* "throw": an awaited call before signAndSend rejects. *)
Throw(r) ==
    /\ "throw" \in Faults
    /\ Running(r)
    /\ phase[r] \in {"queued", "checked"}
    /\ Settle(r, "failed", None)
    /\ UNCHANGED <<op, nonce, network>>

(* The status callback: every status but InBlock is ignored; in a block it *)
(* resolves on the success event and rejects on ExtrinsicFailed.           *)
Outcome(c) == IF ~c.ok THEN <<"failed", None>>
              ELSE IF op[c.req].kind \in {"request", "issue"}
                   THEN <<"ok", c.req>> ELSE <<"ok", None>>

InBlockCallback(r) ==
    /\ phase[r] = "submitted"
    /\ \E i \in 1 .. Len(chain) :
         /\ chain[i].req = r
         /\ Settle(r, Outcome(chain[i])[1], Outcome(chain[i])[2])
    /\ UNCHANGED <<op, nonce, network>>

-----------------------------------------------------------------------------
(* The node.                                                               *)

Include(t) ==
    /\ t.nonce = Len(chain)
    /\ \E ok \in Outcomes(t.req) :
         /\ chain' = Append(chain, [req |-> t.req, ok |-> ok])
         /\ expired' = IF ok /\ op[t.req].kind = "prolong"
                       THEN expired \ {op[t.req].voucher} ELSE expired
    /\ pool' = pool \ {t}
    /\ UNCHANGED server

(* "drop": the pool reports Invalid, Dropped or Usurped. *)
Drop(t) == /\ "drop" \in Faults
           /\ pool' = pool \ {t}
           /\ UNCHANGED <<server, chain, expired>>

(* "retract": the block of the last transaction is reverted. *)
Retract == /\ "retract" \in Faults
           /\ chain # <<>>
           /\ pool' = pool \cup {[req |-> chain[Len(chain)].req,
                                  nonce |-> Len(chain) - 1]}
           /\ chain' = SubSeq(chain, 1, Len(chain) - 1)
           /\ UNCHANGED <<server, expired>>

(* "expire": the duration of a voucher passes. *)
ExpireVoucher(v) == /\ "expire" \in Faults
                    /\ v \in Vouchers \ expired
                    /\ expired' = expired \cup {v}
                    /\ UNCHANGED <<server, pool, chain>>

(* "crash": the process dies and restarts.  The rejection of signAndSend's *)
(* own promise is handled nowhere, so a refused submission ends the same   *)
(* way: Node exits on an unhandled rejection.                              *)
Crash == /\ "crash" \in Faults
         /\ queue # <<>>
         /\ phase' = [r \in Req |-> IF phase[r] \in {"none", "ok", "failed"}
                                    THEN phase[r] ELSE "lost"]
         /\ queue' = <<>>
         /\ inFlight' = [k \in Key |-> None]
         /\ UNCHANGED <<op, nonce, result, network>>

-----------------------------------------------------------------------------
Handlers == \E r \in Req :
               \/ \E k \in Key : Request(r, k) \/ Issue(r, k)
               \/ \E v \in Req, kind \in Kinds : Update(r, kind, v)

Operation(r) == \/ FindExisting(r)
                \/ Prepare(r)
                \/ FetchNonce(r)
                \/ SignAndSend(r)
                \/ InBlockCallback(r)

Next == \/ Handlers
        \/ \E r \in Req : Operation(r) \/ Throw(r)
        \/ \E t \in pool : Include(t) \/ Drop(t)
        \/ Retract
        \/ \E v \in Req : ExpireVoucher(v)
        \/ Crash

Spec == Init /\ [][Next]_vars

(* Node's event loop runs what is ready, and the chain includes what its   *)
(* pool can include.                                                       *)
FairSpec == /\ Spec
            /\ \A r \in Req : WF_vars(Operation(r))
            /\ \A r \in Req :
                 WF_vars(\E t \in pool : t.req = r /\ Include(t))

-----------------------------------------------------------------------------
(* Properties.                                                             *)

(* No two transactions of the issuer compete for a nonce and none carries  *)
(* a used one, however requests, crashes and reverted blocks interleave.   *)
NoncesNeverCollide ==
    \A t \in pool :
        /\ t.nonce >= Len(chain)
        /\ \A u \in pool : u.nonce = t.nonce => u = t

(* The server is a voucher desk: what requests see of each other and of    *)
(* the chain is what they would see if they were served one at a time, an  *)
(* account that holds a voucher being issued none on request.  Needs a     *)
(* process that is not restarted and blocks that are not reverted          *)
(* (lib.ts:49-86, 308-315).                                                *)
Reached(r) == \E i \in 1 .. Len(chain) : chain[i].req = r /\ chain[i].ok

Desk == INSTANCE VoucherDesk WITH
    line <- queue,
    ask <- op,
    answer <- [r \in Req |-> IF phase[r] \in Answered \cup {"none"}
                             THEN phase[r] ELSE "waiting"],
    given <- result,
    stored <- Vouchers,
    done <- queue # <<>> /\ Reached(Head(queue))

ImplementsDesk == Desk!Spec

(* Nobody waits for a promise that has settled: the map of requests in     *)
(* flight names queued operations for that very account string, and an     *)
(* unanswered request is queued or shares one that is.                     *)
WaitersHaveAnOperation ==
    LET queued == {queue[i] : i \in 1 .. Len(queue)}
    IN  /\ \A k \in Key : inFlight[k] # None =>
              inFlight[k] \in queued /\ op[inFlight[k]].key = k
        /\ \A r \in Req :
              /\ phase[r] = "joined" =>
                   op[r].leader \in queued /\ op[op[r].leader].key = op[r].key
              /\ phase[r] \in {"queued", "checked", "signing", "submitted"}
                   <=> r \in queued

(* lib.ts: "Two failure phases exist", before signAndSend and in the       *)
(* callback, and both reject.  So every request is answered.               *)
EveryRequestAnswered ==
    \A r \in Req : phase[r] # "none" ~> phase[r] \in Answered

(* A submitted transaction is neither in the pool nor in the chain. *)
Lost == \E r \in Req : /\ phase[r] = "submitted"
                       /\ \A t \in pool : t.req # r
                       /\ \A i \in 1 .. Len(chain) : chain[i].req # r

(* As long as the node loses no transaction every request is answered,     *)
(* whatever fails and however requests queue and share.                    *)
AnsweredUnlessLost == []~Lost => EveryRequestAnswered
=============================================================================
