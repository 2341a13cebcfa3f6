------------------------ MODULE GaslessServerProofs ------------------------
(***************************************************************************)
(* The queue of the gasless server keeps the issuer's nonces apart and its *)
(* books true, for any number of requests, any accounts and strings, and   *)
(* whatever fails: crashes, dropped transactions and reverted blocks.      *)
(* And without crashes and reverted blocks it is a voucher desk, whose     *)
(* promises it keeps.                                                      *)
(***************************************************************************)
EXTENDS GaslessServer, SequenceTheorems, TLAPS

Queued == {queue[i] : i \in 1 .. Len(queue)}

(* Nobody stands in the queue twice. *)
QueueDistinct == \A i, j \in 1 .. Len(queue) : queue[i] = queue[j] => i = j

(* Only the head of the queue is being worked on. *)
HeadOnly == \A r \in Req :
    phase[r] \in {"checked", "signing", "submitted"} => Running(r)

(* A nonce that was fetched stays free until it is used. *)
NonceIsFree == \A r \in Req : phase[r] = "signing" =>
    nonce[r] >= Len(chain) /\ \A t \in pool : t.nonce # nonce[r]

QueueInv == TypeOK /\ QueueDistinct /\ HeadOnly /\ WaitersHaveAnOperation
IInv == QueueInv /\ NonceIsFree /\ NoncesNeverCollide

USE GaslessAssumption DEF GaslessAssumption

-----------------------------------------------------------------------------
(* The queue as a set: what a request adds and what a settled one removes. *)
LEMMA Lengthens ==
    ASSUME queue \in Seq(Req), QueueDistinct, NEW r \in Req, r \notin Queued,
           queue' = Append(queue, r)
    PROVE  /\ queue' \in Seq(Req)
           /\ Queued' = Queued \cup {r}
           /\ QueueDistinct'
           /\ \A q \in Req : Running(q) => Running(q)'
<1>1. /\ Len(queue) \in Nat /\ Len(queue') = Len(queue) + 1
      /\ queue' \in Seq(Req)
      /\ \A i \in 1 .. Len(queue) : queue'[i] = queue[i]
      /\ queue'[Len(queue) + 1] = r
  OBVIOUS
<1>2. 1 .. Len(queue') = 1 .. Len(queue) \cup {Len(queue) + 1}
  BY <1>1
<1>3. Queued' = Queued \cup {r}
  BY <1>1, <1>2 DEF Queued
<1>4. QueueDistinct'
  BY <1>1, <1>2 DEF Queued, QueueDistinct
<1>5. ASSUME NEW q \in Req, Running(q) PROVE Running(q)'
  BY <1>1, <1>5 DEF Running
<1> QED BY <1>1, <1>3, <1>4, <1>5

LEMMA Shortens ==
    ASSUME queue \in Seq(Req), QueueDistinct, queue # <<>>, queue' = Tail(queue)
    PROVE  /\ queue' \in Seq(Req)
           /\ Head(queue) \in Req
           /\ Queued' = Queued \ {Head(queue)}
           /\ QueueDistinct'
<1>1. /\ Len(queue) \in Nat \ {0} /\ Len(queue') = Len(queue) - 1
      /\ queue' \in Seq(Req) /\ Head(queue) = queue[1] /\ Head(queue) \in Req
  OBVIOUS
<1>2. \A i \in 1 .. Len(queue') : queue'[i] = queue[i + 1] /\ i + 1 \in 1 .. Len(queue)
  BY <1>1
<1>3. QueueDistinct'
  BY <1>1, <1>2 DEF QueueDistinct
<1>4. Queued' \subseteq Queued \ {Head(queue)}
  <2> SUFFICES ASSUME NEW i \in 1 .. Len(queue')
               PROVE  queue'[i] \in Queued /\ queue'[i] # queue[1]
    BY <1>1 DEF Queued
  <2>1. i + 1 # 1 /\ 1 \in 1 .. Len(queue)
    BY <1>1
  <2> QED BY <1>2, <2>1 DEF Queued, QueueDistinct
<1>5. Queued \ {Head(queue)} \subseteq Queued'
  <2> SUFFICES ASSUME NEW i \in 1 .. Len(queue), queue[i] # queue[1]
               PROVE  queue[i] \in Queued'
    BY <1>1 DEF Queued
  <2>1. i - 1 \in 1 .. Len(queue') /\ queue'[i - 1] = queue[i]
    <3>1. i # 1
      OBVIOUS
    <3>2. i - 1 \in 1 .. Len(queue') /\ (i - 1) + 1 = i
      BY <1>1, <3>1
    <3> QED BY <1>2, <3>2
  <2> QED BY <2>1 DEF Queued
<1> QED BY <1>1, <1>3, <1>4, <1>5

(* Who is at the head is in the queue, and is alone there. *)
LEMMA HeadQueued ==
    ASSUME queue \in Seq(Req), NEW r, Running(r)
    PROVE  queue # <<>> /\ r = Head(queue) /\ r \in Queued
<1>1. queue # <<>> /\ Head(queue) = r /\ 1 \in 1 .. Len(queue) /\ Head(queue) = queue[1]
  BY DEF Running
<1> QED BY <1>1 DEF Queued

-----------------------------------------------------------------------------
(* Nothing is queued or fetched at first (lib.ts:41-42). *)
LEMMA IInvInit == Init => IInv
<1> SUFFICES ASSUME Init PROVE IInv
  OBVIOUS
<1>1. TypeOK
  <2>1. NoOp \in Op
    BY DEF NoOp, Op, None
  <2> QED BY <2>1 DEF Init, TypeOK, Phase, None
<1>2. QueueDistinct /\ HeadOnly
  BY DEF Init, QueueDistinct, HeadOnly
<1>3. WaitersHaveAnOperation
  BY DEF Init, WaitersHaveAnOperation, None
<1>4. NonceIsFree /\ NoncesNeverCollide
  BY DEF Init, NonceIsFree, NoncesNeverCollide
<1> QED BY <1>1, <1>2, <1>3, <1>4 DEF IInv, QueueInv

-----------------------------------------------------------------------------
(* Requests that arrive (lib.ts:58-60, 308-315).                           *)

LEMMA JoinStep ==
    ASSUME QueueInv, NEW r \in Req, NEW k \in Key, Arrives(r), inFlight[k] # None,
           op' = [op EXCEPT ![r] = [kind |-> "request", key |-> k,
                                    voucher |-> None, leader |-> inFlight[k]]],
           phase' = [phase EXCEPT ![r] = "joined"],
           UNCHANGED <<nonce, result, queue, inFlight, network>>, "request" \in Kinds
    PROVE  QueueInv'
<1>1. TypeOK /\ QueueDistinct /\ HeadOnly /\ WaitersHaveAnOperation
  BY DEF QueueInv
<1>2. phase[r] = "none" /\ r \notin Queued
  BY <1>1 DEF Arrives, WaitersHaveAnOperation, Queued
<1>3. /\ op'[r] = [kind |-> "request", key |-> k, voucher |-> None, leader |-> inFlight[k]]
      /\ phase'[r] = "joined"
      /\ \A q \in Req : q # r => op'[q] = op[q] /\ phase'[q] = phase[q]
  BY <1>1 DEF TypeOK
<1>4. TypeOK'
  <2>1. op'[r] \in Op
    BY <1>1, <1>3 DEF Op, TypeOK, None
  <2>2. op' \in [Req -> Op] /\ phase' \in [Req -> Phase]
    BY <1>1, <2>1, <1>3 DEF TypeOK, Phase
  <2> QED BY <1>1, <2>2 DEF TypeOK, network
<1>5. QueueDistinct'
  BY <1>1 DEF QueueDistinct
<1>6. HeadOnly'
  BY <1>1, <1>3 DEF HeadOnly, Running
<1>7. WaitersHaveAnOperation'
  <2>1. inFlight[k] \in Queued /\ op[inFlight[k]].key = k /\ Queued \subseteq Req
    BY <1>1 DEF WaitersHaveAnOperation, Queued, TypeOK
  <2>2. Queued' = Queued
    BY DEF Queued
  <2>3. \A j \in Key : inFlight'[j] # None =>
           inFlight'[j] \in Queued' /\ op'[inFlight'[j]].key = j
    BY <1>1, <1>2, <1>3, <2>1, <2>2 DEF WaitersHaveAnOperation, Queued
  <2>4. \A q \in Req : phase'[q] = "joined" =>
           op'[q].leader \in Queued' /\ op'[op'[q].leader].key = op'[q].key
    BY <1>1, <1>2, <1>3, <2>1, <2>2 DEF WaitersHaveAnOperation, Queued
  <2>5. \A q \in Req : phase'[q] \in {"queued", "checked", "signing", "submitted"}
                         <=> q \in Queued'
    BY <1>1, <1>2, <1>3, <2>2 DEF WaitersHaveAnOperation, Queued
  <2> QED BY <2>3, <2>4, <2>5 DEF WaitersHaveAnOperation, Queued
<1> QED BY <1>4, <1>5, <1>6, <1>7 DEF QueueInv

LEMMA EnqueueStep ==
    ASSUME QueueInv, NEW r \in Req, NEW kind \in Kinds, NEW k \in Key \cup {None},
           NEW v \in 0 .. N, Arrives(r), Enqueue(r, kind, k, v),
           \/ inFlight' = inFlight
           \/ k \in Key /\ inFlight' = [inFlight EXCEPT ![k] = r],
           UNCHANGED <<nonce, result, network>>
    PROVE  QueueInv'
<1>1. TypeOK /\ QueueDistinct /\ HeadOnly /\ WaitersHaveAnOperation
  BY DEF QueueInv
<1>2. phase[r] = "none" /\ r \notin Queued
  BY <1>1 DEF Arrives, WaitersHaveAnOperation, Queued
<1>3. /\ op'[r] = [kind |-> kind, key |-> k, voucher |-> v, leader |-> None]
      /\ phase'[r] = "queued"
      /\ \A q \in Req : q # r => op'[q] = op[q] /\ phase'[q] = phase[q]
  BY <1>1 DEF TypeOK, Enqueue
<1>4. /\ queue' \in Seq(Req) /\ Queued' = Queued \cup {r} /\ QueueDistinct'
      /\ \A q \in Req : Running(q) => Running(q)'
  BY <1>1, <1>2, Lengthens DEF TypeOK, Enqueue
<1>5. TypeOK'
  <2>1. op'[r] \in Op
    BY <1>1, <1>3 DEF Op, None
  <2>2. op' \in [Req -> Op] /\ phase' \in [Req -> Phase]
    BY <1>1, <2>1, <1>3 DEF TypeOK, Phase, Enqueue
  <2>3. inFlight' \in [Key -> 0 .. N]
    <3>1. r \in 0 .. N /\ inFlight \in [Key -> 0 .. N]
      BY <1>1 DEF TypeOK, Req
    <3> QED BY <3>1
  <2> QED BY <1>1, <1>4, <2>2, <2>3 DEF TypeOK, network
<1>6. HeadOnly'
  BY <1>1, <1>3, <1>4 DEF HeadOnly
<1>8. Queued \subseteq Req
  BY <1>1 DEF Queued, TypeOK
<1>7. WaitersHaveAnOperation'
  <2>1. \A j \in Key : inFlight'[j] # None =>
           inFlight'[j] \in Queued' /\ op'[inFlight'[j]].key = j
    <3> SUFFICES ASSUME NEW j \in Key, inFlight'[j] # None
                 PROVE  inFlight'[j] \in Queued' /\ op'[inFlight'[j]].key = j
      OBVIOUS
    <3>1. CASE inFlight'[j] = inFlight[j]
      <4>1. inFlight[j] \in Queued /\ op[inFlight[j]].key = j /\ inFlight[j] \in Req
        BY <1>1, <1>8, <3>1 DEF WaitersHaveAnOperation, Queued
      <4> QED BY <1>2, <1>3, <1>4, <3>1, <4>1
    <3>2. CASE inFlight'[j] # inFlight[j]
      <4>1. j = k /\ inFlight'[j] = r
        BY <1>1, <3>2 DEF TypeOK
      <4> QED BY <1>3, <1>4, <4>1
    <3> QED BY <3>1, <3>2
  <2>2. \A q \in Req : phase'[q] = "joined" =>
           op'[q].leader \in Queued' /\ op'[op'[q].leader].key = op'[q].key
    <3> SUFFICES ASSUME NEW q \in Req, phase'[q] = "joined"
                 PROVE  op'[q].leader \in Queued' /\ op'[op'[q].leader].key = op'[q].key
      OBVIOUS
    <3>1. q # r /\ phase[q] = "joined"
      BY <1>3
    <3>2. op[q].leader \in Queued /\ op[op[q].leader].key = op[q].key /\ op[q].leader \in Req
      BY <1>1, <1>8, <3>1 DEF WaitersHaveAnOperation, Queued
    <3> QED BY <1>2, <1>3, <1>4, <3>1, <3>2
  <2>3. \A q \in Req : phase'[q] \in {"queued", "checked", "signing", "submitted"}
                         <=> q \in Queued'
    BY <1>1, <1>2, <1>3, <1>4 DEF WaitersHaveAnOperation, Queued
  <2> QED BY <2>1, <2>2, <2>3 DEF WaitersHaveAnOperation, Queued
<1> QED BY <1>4, <1>5, <1>6, <1>7 DEF QueueInv

(* The end of an operation (lib.ts:79-86, 308-315): its queue entry, its   *)
(* entry in the map and all who share it go together.                      *)
LEMMA SettleStep ==
    ASSUME QueueInv, NEW r \in Req, Running(r), NEW answer \in {"ok", "failed"},
           NEW v \in 0 .. N, Settle(r, answer, v),
           UNCHANGED <<op, nonce, network>>
    PROVE  QueueInv' /\ \A q \in Req : phase'[q] # "signing"
<1>1. TypeOK /\ QueueDistinct /\ HeadOnly /\ WaitersHaveAnOperation
  BY DEF QueueInv
<1>2. r = Head(queue) /\ queue # <<>> /\ r \in Queued
  BY <1>1, HeadQueued DEF TypeOK
<1>3. queue' \in Seq(Req) /\ Queued' = Queued \ {r} /\ QueueDistinct'
  BY <1>1, <1>2, Shortens DEF TypeOK, Settle
<1>4. \A q \in Req : phase'[q] = IF q \in Sharers(r) THEN answer ELSE phase[q]
  BY DEF Settle
<1>5. \A q \in Req : q \in Sharers(r) <=>
         q = r \/ (phase[q] = "joined" /\ op[q].leader = r)
  BY DEF Sharers
<1>6. TypeOK'
  <2>1. phase' \in [Req -> Phase]
    BY <1>1, <1>4 DEF TypeOK, Phase, Settle
  <2>2. result' \in [Req -> 0 .. N]
    BY <1>1 DEF TypeOK, Settle
  <2>3. inFlight' \in [Key -> 0 .. N]
    BY <1>1 DEF TypeOK, Settle, InFlightAfter, None
  <2> QED BY <1>1, <1>3, <2>1, <2>2, <2>3 DEF TypeOK, network
<1>7. \A q \in Req : phase'[q] \notin {"checked", "signing", "submitted"}
  <2> SUFFICES ASSUME NEW q \in Req, phase'[q] \in {"checked", "signing", "submitted"}
               PROVE  FALSE
    OBVIOUS
  <2>1. q # r /\ phase[q] = phase'[q]
    BY <1>4, <1>5
  <2>2. Running(q)
    BY <1>1, <2>1 DEF HeadOnly
  <2> QED BY <1>2, <2>1, <2>2 DEF Running
<1>8. HeadOnly'
  BY <1>7 DEF HeadOnly
<1>9. WaitersHaveAnOperation'
  <2>1. \A j \in Key : inFlight'[j] # None =>
           inFlight'[j] \in Queued' /\ op'[inFlight'[j]].key = j
    BY <1>1, <1>3 DEF WaitersHaveAnOperation, Queued, Settle, InFlightAfter
  <2>2. \A q \in Req : phase'[q] = "joined" =>
           op'[q].leader \in Queued' /\ op'[op'[q].leader].key = op'[q].key
    BY <1>1, <1>3, <1>4, <1>5 DEF WaitersHaveAnOperation, Queued
  <2>3. \A q \in Req : phase'[q] \in {"queued", "checked", "signing", "submitted"}
                         <=> q \in Queued'
    <3> SUFFICES ASSUME NEW q \in Req
                 PROVE  phase'[q] \in {"queued", "checked", "signing", "submitted"}
                          <=> q \in Queued \ {r}
      BY <1>3
    <3>1. CASE q = r
      BY <1>4, <1>5, <3>1
    <3>2. CASE q # r /\ phase[q] = "joined"
      BY <1>1, <1>4, <3>2 DEF WaitersHaveAnOperation, Queued
    <3>3. CASE q # r /\ phase[q] # "joined"
      BY <1>1, <1>4, <1>5, <3>3 DEF WaitersHaveAnOperation, Queued
    <3> QED BY <3>1, <3>2, <3>3
  <2> QED BY <2>1, <2>2, <2>3 DEF WaitersHaveAnOperation, Queued
<1> QED BY <1>3, <1>6, <1>7, <1>8, <1>9 DEF QueueInv

(* The head goes to its next await. *)
LEMMA AdvanceStep ==
    ASSUME QueueInv, NEW r \in Req, Running(r),
           phase[r] \in {"queued", "checked", "signing"},
           NEW p \in {"checked", "signing", "submitted"},
           phase' = [phase EXCEPT ![r] = p],
           nonce' \in [Req -> Nat], pool' \in SUBSET Tx,
           UNCHANGED <<op, result, queue, inFlight, chain, expired>>
    PROVE  QueueInv'
<1>1. TypeOK /\ QueueDistinct /\ HeadOnly /\ WaitersHaveAnOperation
  BY DEF QueueInv
<1>2. phase'[r] = p /\ \A q \in Req : q # r => phase'[q] = phase[q]
  BY <1>1 DEF TypeOK
<1>3. TypeOK'
  <2>1. phase' \in [Req -> Phase]
    BY <1>1 DEF TypeOK, Phase
  <2> QED BY <1>1, <2>1 DEF TypeOK
<1>4. QueueDistinct' /\ HeadOnly'
  BY <1>1, <1>2 DEF QueueDistinct, HeadOnly, Running
<1>5. WaitersHaveAnOperation'
  BY <1>1, <1>2 DEF WaitersHaveAnOperation
<1> QED BY <1>3, <1>4, <1>5 DEF QueueInv

(* What happens on chain leaves the server's books alone. *)
LEMMA NetworkStep ==
    ASSUME QueueInv, UNCHANGED server,
           pool' \in SUBSET Tx, chain' \in Seq(Included), expired' \in SUBSET Req
    PROVE  QueueInv'
BY DEF QueueInv, server, TypeOK, QueueDistinct, HeadOnly, Running, WaitersHaveAnOperation

LEMMA CrashStep == ASSUME QueueInv, Crash PROVE QueueInv'
<1>1. TypeOK /\ WaitersHaveAnOperation
  BY DEF QueueInv
<1>2. /\ queue' = <<>> /\ inFlight' = [k \in Key |-> None]
      /\ \A r \in Req : phase'[r] \in {"none", "ok", "failed", "lost"}
      /\ UNCHANGED <<op, nonce, result, pool, chain, expired>>
  BY DEF Crash, network
<1>3. TypeOK'
  <2>1. phase' \in [Req -> Phase]
    BY <1>1 DEF Crash, TypeOK, Phase
  <2>2. inFlight' \in [Key -> 0 .. N]
    BY <1>2 DEF None
  <2>3. queue' \in Seq(Req)
    BY <1>2
  <2> QED BY <1>1, <1>2, <2>1, <2>2, <2>3 DEF TypeOK
<1>4. QueueDistinct' /\ HeadOnly'
  BY <1>2 DEF QueueDistinct, HeadOnly
<1>5. WaitersHaveAnOperation'
  BY <1>2 DEF WaitersHaveAnOperation
<1> QED BY <1>3, <1>4, <1>5 DEF QueueInv

(* Every step keeps the queue's invariant (lib.ts:52-86, 185-344). *)
LEMMA QueueInvStep == QueueInv /\ [Next]_vars => QueueInv'
<1> SUFFICES ASSUME QueueInv, [Next]_vars PROVE QueueInv'
  OBVIOUS
<1> USE DEF network
<1>0. TypeOK /\ HeadOnly
  BY DEF QueueInv
<1>1. ASSUME NEW r \in Req, NEW k \in Key, Request(r, k) PROVE QueueInv'
  <2>1. CASE inFlight[k] # None
    BY <1>1, <2>1, JoinStep DEF Request
  <2>2. CASE inFlight[k] = None
    <3>1. "request" \in Kinds /\ None \in 0 .. N
      BY <1>1 DEF Request, None
    <3> QED BY <1>1, <2>2, <3>1, EnqueueStep DEF Request
  <2> QED BY <2>1, <2>2
<1>2. ASSUME NEW r \in Req, NEW k \in Key, Issue(r, k) PROVE QueueInv'
  <2>1. "issue" \in Kinds /\ None \in 0 .. N
    BY <1>2 DEF Issue, None
  <2> QED BY <1>2, <2>1, EnqueueStep DEF Issue
<1>3. ASSUME NEW r \in Req, NEW v \in Req, NEW kind \in Kinds, Update(r, kind, v)
      PROVE  QueueInv'
  <2>1. v \in 0 .. N /\ op[v].key \in Key \cup {None}
    BY <1>0 DEF TypeOK, Op, Req
  <2> QED BY <1>3, <2>1, EnqueueStep DEF Update
<1>4. ASSUME NEW r \in Req, FindExisting(r) PROVE QueueInv'
  <2>1. PICK v \in VouchersOf(AccountOf[op[r].key]) : Settle(r, "ok", v)
    BY <1>4 DEF FindExisting
  <2>2. v \in 0 .. N
    BY DEF VouchersOf, Vouchers, Stored, Issued, Succeeded, Req
  <2> QED BY <1>4, <2>1, <2>2, SettleStep DEF FindExisting
<1>5. ASSUME NEW r \in Req, Prepare(r) PROVE QueueInv'
  BY <1>0, <1>5, AdvanceStep DEF Prepare, TypeOK
<1>6. ASSUME NEW r \in Req, FetchNonce(r) PROVE QueueInv'
  <2>1. nonce' \in [Req -> Nat]
    BY <1>0, <1>6 DEF FetchNonce, Indices, TypeOK
  <2> QED BY <1>0, <1>6, <2>1, AdvanceStep DEF FetchNonce, TypeOK
<1>7. ASSUME NEW r \in Req, SignAndSend(r) PROVE QueueInv'
  <2>1. pool' \in SUBSET Tx /\ nonce' \in [Req -> Nat]
    BY <1>0, <1>7 DEF SignAndSend, Tx, TypeOK
  <2> QED BY <1>0, <1>7, <2>1, AdvanceStep DEF SignAndSend
<1>8. ASSUME NEW r \in Req, InBlockCallback(r) PROVE QueueInv'
  <2>1. PICK i \in 1 .. Len(chain) :
          chain[i].req = r /\ Settle(r, Outcome(chain[i])[1], Outcome(chain[i])[2])
    BY <1>8 DEF InBlockCallback
  <2>2. Outcome(chain[i])[1] \in {"ok", "failed"} /\ Outcome(chain[i])[2] \in 0 .. N
    BY <2>1 DEF Outcome, None, Req
  <2>3. Running(r)
    BY <1>0, <1>8 DEF HeadOnly, InBlockCallback
  <2> QED BY <1>8, <2>1, <2>2, <2>3, SettleStep DEF InBlockCallback
<1>9. ASSUME NEW r \in Req, Throw(r) PROVE QueueInv'
  <2>1. None \in 0 .. N
    BY DEF None
  <2> QED BY <1>9, <2>1, SettleStep DEF Throw
<1>10. ASSUME NEW t \in pool, Include(t) PROVE QueueInv'
  <2>1. t.req \in Req
    BY <1>0 DEF TypeOK, Tx
  <2>2. PICK ok \in Outcomes(t.req) :
          /\ chain' = Append(chain, [req |-> t.req, ok |-> ok])
          /\ expired' = IF ok /\ op[t.req].kind = "prolong"
                        THEN expired \ {op[t.req].voucher} ELSE expired
    BY <1>10 DEF Include
  <2>3. ok \in BOOLEAN
    BY <2>2 DEF Outcomes
  <2>4. [req |-> t.req, ok |-> ok] \in Included
    BY <2>1, <2>3 DEF Included
  <2>5. chain' \in Seq(Included)
    BY <1>0, <2>2, <2>4 DEF TypeOK
  <2>6. expired' \in SUBSET Req
    BY <1>0, <2>2, <2>3 DEF TypeOK
  <2> QED BY <1>0, <1>10, <2>5, <2>6, NetworkStep DEF Include, TypeOK
<1>11. ASSUME NEW t \in pool, Drop(t) PROVE QueueInv'
  BY <1>0, <1>11, NetworkStep DEF Drop, TypeOK
<1>12. CASE Retract
  <2>1. Len(chain) \in Nat \ {0} /\ chain[Len(chain)] \in Included
    BY <1>0, <1>12 DEF Retract, TypeOK
  <2>2. [req |-> chain[Len(chain)].req, nonce |-> Len(chain) - 1] \in Tx
    BY <2>1 DEF Included, Tx
  <2>3. SubSeq(chain, 1, Len(chain) - 1) \in Seq(Included)
    BY <1>0, <2>1 DEF TypeOK
  <2> QED BY <1>0, <1>12, <2>2, <2>3, NetworkStep DEF Retract, TypeOK
<1>13. ASSUME NEW v \in Req, ExpireVoucher(v) PROVE QueueInv'
  BY <1>0, <1>13, NetworkStep DEF ExpireVoucher, TypeOK
<1>14. CASE UNCHANGED vars
  BY <1>0, <1>14, NetworkStep DEF vars, server, TypeOK
<1> QED BY <1>1, <1>2, <1>3, <1>4, <1>5, <1>6, <1>7, <1>8, <1>9, <1>10, <1>11,
           <1>12, <1>13, <1>14, CrashStep DEF Next, Handlers, Operation

-----------------------------------------------------------------------------
(* Steps that touch neither pool nor chain and let nobody sign. *)
LEMMA NobodySigns ==
    ASSUME NonceIsFree, NoncesNeverCollide, UNCHANGED <<pool, chain>>,
           \A q \in Req : phase'[q] = "signing" =>
               phase[q] = "signing" /\ nonce'[q] = nonce[q]
    PROVE  NonceIsFree' /\ NoncesNeverCollide'
BY DEF NonceIsFree, NoncesNeverCollide

(* The nonce a request fetches is above the chain and used by nobody in    *)
(* the pool (lib.ts:241, 300).                                             *)
LEMMA FetchStep ==
    ASSUME TypeOK, NonceIsFree, NoncesNeverCollide, NEW r \in Req, FetchNonce(r)
    PROVE  NonceIsFree' /\ NoncesNeverCollide'
<1>1. PICK n \in Indices : IsNextIndex(n) /\ nonce' = [nonce EXCEPT ![r] = n]
  BY DEF FetchNonce
<1>2. /\ nonce'[r] = n /\ \A q \in Req : q # r => nonce'[q] = nonce[q]
      /\ \A q \in Req : q # r => phase'[q] = phase[q]
      /\ UNCHANGED <<pool, chain>>
  BY <1>1 DEF FetchNonce, TypeOK, network
<1>3. n >= Len(chain) /\ \A t \in pool : t.nonce # n
  BY <1>1 DEF Indices, IsNextIndex, TypeOK
<1> QED BY <1>2, <1>3 DEF NonceIsFree, NoncesNeverCollide

(* The one request that signs takes its nonce into the pool, where it is   *)
(* still free, and nobody else holds a fetched one.                        *)
LEMMA SignStep ==
    ASSUME TypeOK, HeadOnly, NonceIsFree, NoncesNeverCollide,
           NEW r \in Req, SignAndSend(r)
    PROVE  NonceIsFree' /\ NoncesNeverCollide'
<1>1. /\ pool' = pool \cup {[req |-> r, nonce |-> nonce[r]]}
      /\ UNCHANGED <<nonce, chain>> /\ phase'[r] = "submitted"
      /\ \A q \in Req : q # r => phase'[q] = phase[q]
  BY DEF SignAndSend, TypeOK
<1>2. \A q \in Req : phase'[q] # "signing"
  <2> SUFFICES ASSUME NEW q \in Req, phase'[q] = "signing" PROVE FALSE
    OBVIOUS
  <2>1. q # r /\ Running(q) /\ Running(r)
    BY <1>1 DEF HeadOnly, SignAndSend
  <2> QED BY <2>1 DEF Running
<1>3. nonce[r] >= Len(chain) /\ \A t \in pool : t.nonce # nonce[r]
  BY DEF NonceIsFree, SignAndSend
<1> QED BY <1>1, <1>2, <1>3 DEF NonceIsFree, NoncesNeverCollide

(* A block takes the lowest nonce of the pool. *)
LEMMA IncludeStep ==
    ASSUME TypeOK, NonceIsFree, NoncesNeverCollide, NEW t \in pool, Include(t)
    PROVE  NonceIsFree' /\ NoncesNeverCollide'
<1>1. /\ t.nonce = Len(chain) /\ pool' = pool \ {t}
      /\ UNCHANGED <<phase, nonce>>
  BY DEF Include, server
<1>2. Len(chain) \in Nat /\ Len(chain') = Len(chain) + 1
  BY DEF Include, TypeOK
<1>3. /\ \A u \in pool : u.nonce \in Nat
      /\ \A q \in Req : nonce[q] \in Nat
  BY DEF TypeOK, Tx
<1>4. NoncesNeverCollide'
  <2> SUFFICES ASSUME NEW u \in pool, u # t
               PROVE  /\ u.nonce >= Len(chain')
                      /\ \A w \in pool : w.nonce = u.nonce => w = u
    BY <1>1 DEF NoncesNeverCollide
  <2>1. u.nonce # Len(chain) /\ u.nonce >= Len(chain)
    BY <1>1 DEF NoncesNeverCollide
  <2> QED BY <1>2, <1>3, <2>1 DEF NoncesNeverCollide
<1>5. NonceIsFree'
  BY <1>1, <1>2, <1>3 DEF NonceIsFree
<1> QED BY <1>4, <1>5

(* A reverted block puts back a nonce that is below all the others. *)
LEMMA RetractStep ==
    ASSUME TypeOK, NonceIsFree, NoncesNeverCollide, Retract
    PROVE  NonceIsFree' /\ NoncesNeverCollide'
<1> DEFINE old == [req |-> chain[Len(chain)].req, nonce |-> Len(chain) - 1]
<1>1. /\ pool' = pool \cup {old} /\ chain' = SubSeq(chain, 1, Len(chain) - 1)
      /\ UNCHANGED <<phase, nonce>>
  BY DEF Retract, server
<1>2. Len(chain) \in Nat \ {0} /\ Len(chain') = Len(chain) - 1
  <2>1. Len(chain) \in Nat \ {0} /\ chain \in Seq(Included)
    BY DEF Retract, TypeOK
  <2>2. 1 \in Int /\ Len(chain) - 1 \in Int
        /\ \A i \in 1 .. Len(chain) - 1 : chain[i] \in Included
    BY <2>1
  <2>3. Len(chain') = IF 1 <= Len(chain) - 1 THEN (Len(chain) - 1) - 1 + 1 ELSE 0
    BY <1>1, <2>2, SubSeqProperties
  <2>4. ASSUME NEW n \in Nat \ {0}
        PROVE  (IF 1 <= n - 1 THEN (n - 1) - 1 + 1 ELSE 0) = n - 1
    OBVIOUS
  <2> HIDE DEF old
  <2>5. Len(chain') = Len(chain) - 1
    BY <2>1, <2>3, <2>4, Zenon
  <2> QED BY <2>1, <2>5
<1>3. /\ \A u \in pool : u.nonce \in Nat
      /\ \A q \in Req : nonce[q] \in Nat
  BY DEF TypeOK, Tx
<1>4. \A u \in pool : u.nonce >= Len(chain) /\ u.nonce # old.nonce
  BY <1>2, <1>3 DEF NoncesNeverCollide
<1>5. old.nonce = Len(chain')
  BY <1>2
<1> HIDE DEF old
<1>6. NoncesNeverCollide'
  BY <1>1, <1>2, <1>3, <1>4, <1>5 DEF NoncesNeverCollide
<1>7. NonceIsFree'
  BY <1>1, <1>2, <1>3, <1>5 DEF NonceIsFree
<1> QED BY <1>6, <1>7

(* Every step keeps the nonces apart. *)
LEMMA NoncesStep ==
    QueueInv /\ NonceIsFree /\ NoncesNeverCollide /\ [Next]_vars
        => NonceIsFree' /\ NoncesNeverCollide'
<1> SUFFICES ASSUME QueueInv, NonceIsFree, NoncesNeverCollide, [Next]_vars
             PROVE  NonceIsFree' /\ NoncesNeverCollide'
  OBVIOUS
<1>0. TypeOK /\ HeadOnly
  BY DEF QueueInv
<1>1. CASE Handlers
  <2>1. \A q \in Req : phase'[q] = "signing" => phase[q] = "signing"
    BY <1>0, <1>1 DEF Handlers, Request, Issue, Update, Enqueue, TypeOK
  <2>2. UNCHANGED <<nonce, pool, chain>>
    BY <1>1 DEF Handlers, Request, Issue, Update, network
  <2> QED BY <2>1, <2>2, NobodySigns
<1>2. ASSUME NEW r \in Req, FindExisting(r) \/ Throw(r) \/ InBlockCallback(r)
      PROVE  NonceIsFree' /\ NoncesNeverCollide'
  <2>1. UNCHANGED <<nonce, pool, chain>>
    BY <1>2 DEF FindExisting, Throw, InBlockCallback, network
  <2>2. PICK answer \in {"ok", "failed"} :
          \A q \in Req : phase'[q] = answer \/ phase'[q] = phase[q]
    BY <1>2 DEF FindExisting, Throw, InBlockCallback, Outcome, Settle
  <2> QED BY <2>1, <2>2, NobodySigns
<1>3. ASSUME NEW r \in Req, Prepare(r)
      PROVE  NonceIsFree' /\ NoncesNeverCollide'
  <2>1. \A q \in Req : phase'[q] = "signing" => phase[q] = "signing"
    BY <1>0, <1>3 DEF Prepare, TypeOK
  <2> QED BY <1>3, <2>1, NobodySigns DEF Prepare, network
<1>4. ASSUME NEW t \in pool, Drop(t)
      PROVE  NonceIsFree' /\ NoncesNeverCollide'
  BY <1>4 DEF Drop, server, NonceIsFree, NoncesNeverCollide
<1>5. ASSUME NEW v \in Req, ExpireVoucher(v)
      PROVE  NonceIsFree' /\ NoncesNeverCollide'
  BY <1>5, NobodySigns DEF ExpireVoucher, server
<1>6. CASE Crash
  BY <1>6, NobodySigns DEF Crash, network
<1>7. CASE UNCHANGED vars
  BY <1>7, NobodySigns DEF vars
<1> QED BY <1>0, <1>1, <1>2, <1>3, <1>4, <1>5, <1>6, <1>7, FetchStep, SignStep,
           IncludeStep, RetractStep DEF Next, Operation

LEMMA Inductive == Spec => []IInv
<1>1. IInv /\ [Next]_vars => IInv'
  BY QueueInvStep, NoncesStep DEF IInv
<1> QED BY IInvInit, <1>1, PTL DEF Spec

-----------------------------------------------------------------------------
(* The server's and the node's state keep their types: what is queued is   *)
(* a request and what a request is given is a voucher.                     *)
THEOREM TypeCorrect == Spec => []TypeOK
<1>1. IInv => TypeOK
  BY DEF IInv, QueueInv
<1> QED BY Inductive, <1>1, PTL

(* Nobody waits for a promise that has settled, crashes included: who      *)
(* waits is queued or shares a queued operation for the same string        *)
(* (lib.ts:58-86).                                                         *)
THEOREM WaitersServed == Spec => []WaitersHaveAnOperation
<1>1. IInv => WaitersHaveAnOperation
  BY DEF IInv, QueueInv
<1> QED BY Inductive, <1>1, PTL

(* The issuer never has two transactions with one nonce or one with a used *)
(* nonce, whatever crashes, is dropped or reverted (lib.ts:41, 241, 300).  *)
THEOREM NoncesApart == Spec => []NoncesNeverCollide
<1>1. IInv => NoncesNeverCollide
  BY DEF IInv
<1> QED BY Inductive, <1>1, PTL

-----------------------------------------------------------------------------
(* The server as a voucher desk, in a process that is not restarted and on *)
(* a chain that reverts no blocks: crash and retract are the faults that   *)
(* the desk does not know.                                                 *)
Steady == Faults \cap {"crash", "retract"} = {}

(* What the issuer's included transactions did, without their order. *)
Effects == {chain[i] : i \in 1 .. Len(chain)}
OnChain(r) == \E e \in Effects : e.req = r

(* Who was heard of asked for something, with a string; and no process was *)
(* restarted under it.                                                     *)
Heard == \A r \in Req :
    /\ phase[r] # "lost"
    /\ phase[r] # "none" => op[r].kind \in Kinds /\ op[r].key \in Key
    /\ result[r] # None => phase[result[r]] # "none"

(* Only who joined has a leader, and the map of requests in flight holds   *)
(* the queued voucher requests and nothing else.                           *)
MapIsQueue ==
    /\ \A r \in Req : phase[r] \in {"queued", "checked", "signing", "submitted"} =>
           /\ op[r].leader = None
           /\ op[r].kind = "request" => inFlight[op[r].key] = r
    /\ \A k \in Key : inFlight[k] # None => op[inFlight[k]].kind = "request"

(* A request signs at most once: its one transaction is in the pool or on  *)
(* chain, and on chain at the latest when it is answered.                  *)
SignsOnce ==
    /\ \A t \in pool : phase[t.req] = "submitted" /\ ~OnChain(t.req)
    /\ \A t, u \in pool : t.req = u.req => t = u
    /\ \A e \in Effects : phase[e.req] \in {"submitted", "ok", "failed"}
    /\ \A e, f \in Effects : e.req = f.req => e = f

(* What issueIfNeeded found when it looked still holds when it issues.     *)
StillNone == \A r \in Req :
    phase[r] \in {"checked", "signing", "submitted"} /\ op[r].kind = "request"
    /\ ~OnChain(r) => VouchersOf(AccountOf[op[r].key]) = {}

RevokedWereIssued == Revoked(chain, Len(chain)) \subseteq Issued(chain, Len(chain))

DeskInv == QueueInv /\ Heard /\ MapIsQueue /\ SignsOnce /\ StillNone /\ RevokedWereIssued

IssuedNow == Issued(chain, Len(chain))
RevokedNow == Revoked(chain, Len(chain))

LEMMA VouchersAre ==
    /\ \A v : v \in IssuedNow <=>
          /\ v \in Req /\ op[v].kind \in {"request", "issue"}
          /\ \E e \in Effects : e.req = v /\ e.ok
    /\ \A v : v \in RevokedNow <=>
          \E r \in Req : /\ v = op[r].voucher /\ op[r].kind = "revoke"
                         /\ \E e \in Effects : e.req = r /\ e.ok
    /\ Vouchers = IssuedNow \ RevokedNow
BY DEF IssuedNow, RevokedNow, Issued, Revoked, Succeeded, Effects, Vouchers, Stored

LEMMA VouchersAreNext ==
    /\ \A v : v \in IssuedNow' <=>
          /\ v \in Req /\ op'[v].kind \in {"request", "issue"}
          /\ \E e \in Effects' : e.req = v /\ e.ok
    /\ \A v : v \in RevokedNow' <=>
          \E r \in Req : /\ v = op'[r].voucher /\ op'[r].kind = "revoke"
                         /\ \E e \in Effects' : e.req = r /\ e.ok
    /\ Vouchers' = IssuedNow' \ RevokedNow'
BY DEF IssuedNow, RevokedNow, Issued, Revoked, Succeeded, Effects, Vouchers, Stored

LEMMA EffectsTyped == ASSUME TypeOK PROVE Effects \subseteq Included
BY DEF TypeOK, Effects

(* The vouchers are those of the chain: what else happens leaves them.     *)
LEMMA VouchersStay ==
    ASSUME TypeOK, UNCHANGED chain, \A e \in Effects : op'[e.req] = op[e.req]
    PROVE  /\ Effects' = Effects /\ \A r : OnChain(r)' <=> OnChain(r)
           /\ IssuedNow' = IssuedNow /\ RevokedNow' = RevokedNow
           /\ Vouchers' = Vouchers
           /\ \A a : VouchersOf(a)' = VouchersOf(a)
<1>1. Effects' = Effects
  BY Zenon DEF Effects
<1>2. \A r : OnChain(r)' <=> OnChain(r)
  BY <1>1, Zenon DEF OnChain
<1>3. \A e \in Effects : e.req \in Req
  BY EffectsTyped DEF Included
<1>a. \A r : (\E e \in Effects : e.req = r /\ e.ok) => op'[r] = op[r]
  BY Zenon
<1>4. ASSUME NEW v PROVE v \in IssuedNow' <=> v \in IssuedNow
  <2>1. v \in IssuedNow' <=> /\ v \in Req /\ op'[v].kind \in {"request", "issue"}
                            /\ \E e \in Effects : e.req = v /\ e.ok
    BY <1>1, VouchersAreNext, Zenon
  <2>2. v \in IssuedNow <=> /\ v \in Req /\ op[v].kind \in {"request", "issue"}
                           /\ \E e \in Effects : e.req = v /\ e.ok
    BY VouchersAre, Zenon
  <2> QED BY <1>a, <2>1, <2>2, Zenon
<1>5. ASSUME NEW v PROVE v \in RevokedNow' <=> v \in RevokedNow
  <2>1. v \in RevokedNow' <=>
          \E r \in Req : /\ v = op'[r].voucher /\ op'[r].kind = "revoke"
                         /\ \E e \in Effects : e.req = r /\ e.ok
    BY <1>1, VouchersAreNext
  <2>2. v \in RevokedNow <=>
          \E r \in Req : /\ v = op[r].voucher /\ op[r].kind = "revoke"
                         /\ \E e \in Effects : e.req = r /\ e.ok
    BY VouchersAre
  <2> QED BY <1>a, <2>1, <2>2, Zenon
<1>6. IssuedNow' = IssuedNow /\ RevokedNow' = RevokedNow
  <2>1. IssuedNow' = IssuedNow
    <3> SUFFICES \A v : v \in IssuedNow' <=> v \in IssuedNow
      OBVIOUS
    <3> QED BY <1>4, Zenon
  <2>2. RevokedNow' = RevokedNow
    <3> SUFFICES \A v : v \in RevokedNow' <=> v \in RevokedNow
      OBVIOUS
    <3> QED BY <1>5, Zenon
  <2> QED BY <2>1, <2>2, Zenon
<1>7. Vouchers' = Vouchers
  <2>1. Vouchers' = IssuedNow' \ RevokedNow'
    BY VouchersAreNext, Zenon
  <2>2. Vouchers = IssuedNow \ RevokedNow
    BY VouchersAre, Zenon
  <2> QED BY <1>6, <2>1, <2>2, Zenon
<1>8. \A v \in Vouchers : op'[v] = op[v]
  <2> SUFFICES ASSUME NEW v \in Vouchers PROVE op'[v] = op[v]
    OBVIOUS
  <2>1. v \in IssuedNow
    BY VouchersAre, Zenon
  <2>2. \E e \in Effects : e.req = v /\ e.ok
    BY <2>1, VouchersAre, Zenon
  <2> QED BY <1>a, <2>2, Zenon
<1>9. ASSUME NEW a PROVE VouchersOf(a)' = VouchersOf(a)
  <2>1. VouchersOf(a)' = {v \in Vouchers' : AccountOf[op'[v].key] = a}
    BY Zenon DEF VouchersOf, Spender
  <2>2. VouchersOf(a) = {v \in Vouchers : AccountOf[op[v].key] = a}
    BY Zenon DEF VouchersOf, Spender
  <2> QED BY <1>7, <1>8, <2>1, <2>2, Zenon
<1> QED BY <1>1, <1>2, <1>6, <1>7, <1>9, Zenon

LEMMA DeskInvInit == Init => DeskInv
<1> SUFFICES ASSUME Init PROVE DeskInv
  OBVIOUS
<1>1. QueueInv
  BY IInvInit, Zenon DEF IInv
<1>2. /\ \A r \in Req : phase[r] = "none" /\ result[r] = None
      /\ \A k \in Key : inFlight[k] = None
      /\ chain = <<>> /\ pool = {}
  BY Zenon DEF Init
<1>3. Effects = {}
  <2>1. 1 .. Len(<<>>) = {}
    OBVIOUS
  <2> QED BY <1>2, <2>1, Zenon DEF Effects
<1>4. Heard
  BY <1>2 DEF Heard
<1>5. MapIsQueue
  BY <1>2 DEF MapIsQueue
<1>6. SignsOnce
  BY <1>2, <1>3, Zenon DEF SignsOnce
<1>7. StillNone
  BY <1>2 DEF StillNone
<1>8. RevokedWereIssued
  <2>1. RevokedNow \subseteq IssuedNow
    BY <1>3, VouchersAre, Zenon
  <2> QED BY <2>1, Zenon DEF RevokedWereIssued, RevokedNow, IssuedNow
<1> QED BY <1>1, <1>4, <1>5, <1>6, <1>7, <1>8, Zenon DEF DeskInv

-----------------------------------------------------------------------------
(* A request that arrives was not on chain before.                         *)
LEMMA ArrivalKeeps ==
    ASSUME DeskInv, NEW r \in Req, phase[r] = "none",
           NEW o, o.kind \in Kinds, o.key \in Key,
           op' = [op EXCEPT ![r] = o],
           NEW p \in {"queued", "joined"}, phase' = [phase EXCEPT ![r] = p],
           p = "queued" => o.leader = None,
           \/ inFlight' = inFlight /\ (p = "queued" => o.kind # "request")
           \/ /\ inFlight[o.key] = None /\ o.kind = "request"
              /\ inFlight' = [inFlight EXCEPT ![o.key] = r],
           UNCHANGED <<result, pool, chain>>
    PROVE  /\ Heard' /\ MapIsQueue' /\ SignsOnce' /\ StillNone' /\ RevokedWereIssued'
           /\ Vouchers' = Vouchers /\ ~OnChain(r)
<1>0. /\ TypeOK /\ Heard /\ MapIsQueue /\ SignsOnce /\ StillNone /\ RevokedWereIssued
      /\ WaitersHaveAnOperation
  BY Zenon DEF DeskInv, QueueInv
<1>1. /\ op'[r] = o /\ phase'[r] = p
      /\ \A q \in Req \ {r} : op'[q] = op[q] /\ phase'[q] = phase[q]
  BY <1>0 DEF TypeOK
<1>2. \A e \in Effects : e.req \in Req \ {r}
  <2>1. \A e \in Effects : e.req \in Req
    BY <1>0, EffectsTyped DEF Included
  <2>2. "none" \notin {"submitted", "ok", "failed"}
    OBVIOUS
  <2> QED BY <1>0, <2>1, <2>2, Zenon DEF SignsOnce
<1>3. ~OnChain(r)
  BY <1>2, Zenon DEF OnChain
<1>4. \A e \in Effects : op'[e.req] = op[e.req]
  BY <1>1, <1>2, Zenon
<1>5. /\ Effects' = Effects /\ \A q : OnChain(q)' <=> OnChain(q)
      /\ IssuedNow' = IssuedNow /\ RevokedNow' = RevokedNow
      /\ Vouchers' = Vouchers
      /\ \A a : VouchersOf(a)' = VouchersOf(a)
  BY <1>0, <1>4, VouchersStay, Zenon
<1>6. Heard'
  <2> SUFFICES ASSUME NEW q \in Req
               PROVE  /\ phase'[q] # "lost"
                      /\ phase'[q] # "none" => op'[q].kind \in Kinds /\ op'[q].key \in Key
                      /\ result[q] # None => phase'[result[q]] # "none"
    BY Zenon DEF Heard
  <2>1. phase'[q] # "lost"
    BY <1>0, <1>1 DEF Heard
  <2>2. phase'[q] # "none" => op'[q].kind \in Kinds /\ op'[q].key \in Key
    BY <1>0, <1>1, Zenon DEF Heard
  <2>3. ASSUME result[q] # None PROVE phase'[result[q]] # "none"
    <3>1. result[q] \in Req
      BY <1>0, <2>3 DEF TypeOK, Req, None
    <3>2. phase[result[q]] # "none" /\ p # "none"
      BY <1>0, <2>3 DEF Heard
    <3> QED BY <1>1, <3>1, <3>2, Zenon
  <2> QED BY <2>1, <2>2, <2>3, Zenon
<1>q. \A k \in Key : inFlight[k] # None => inFlight[k] \in Req \ {r}
  <2> SUFFICES ASSUME NEW k \in Key, inFlight[k] # None PROVE inFlight[k] \in Req \ {r}
    OBVIOUS
  <2>1. inFlight[k] \in Queued
    BY <1>0, Zenon DEF WaitersHaveAnOperation, Queued
  <2>2. Queued \subseteq Req
    BY <1>0 DEF Queued, TypeOK
  <2>3. r \notin Queued
    <3>1. "none" \notin {"queued", "checked", "signing", "submitted"}
      OBVIOUS
    <3> QED BY <1>0, <3>1, Zenon DEF WaitersHaveAnOperation, Queued
  <2> QED BY <2>1, <2>2, <2>3, Zenon
<1>7. MapIsQueue'
  <2>1. ASSUME NEW q \in Req, phase'[q] \in {"queued", "checked", "signing", "submitted"}
        PROVE  /\ op'[q].leader = None
               /\ op'[q].kind = "request" => inFlight'[op'[q].key] = q
    <3>1. CASE q = r
      <4>1. p = "queued"
        BY <1>1, <2>1, <3>1
      <4>2. inFlight \in [Key -> 0 .. N]
        BY <1>0, Zenon DEF TypeOK
      <4> QED BY <1>1, <3>1, <4>1, <4>2
    <3>2. CASE q # r
      <4>1. /\ op[q].leader = None
            /\ op[q].kind = "request" => inFlight[op[q].key] = q
        BY <1>0, <1>1, <2>1, <3>2, Zenon DEF MapIsQueue
      <4>2. op[q].kind = "request" => op[q].key \in Key /\ inFlight'[op[q].key] = inFlight[op[q].key]
        <5>1. phase[q] # "none"
          BY <1>1, <2>1, <3>2
        <5>2. op[q].key \in Key /\ inFlight \in [Key -> 0 .. N]
          BY <1>0, <5>1, Zenon DEF Heard, TypeOK
        <5>3. q # None
          BY DEF Req, None
        <5>4. ASSUME op[q].kind = "request", op[q].key = o.key, inFlight[o.key] = None
              PROVE  FALSE
          BY <4>1, <5>3, <5>4, Zenon
        <5> QED BY <5>2, <5>4
      <4> QED BY <1>1, <3>2, <4>1, <4>2, Zenon
    <3> QED BY <3>1, <3>2, Zenon
  <2>2. ASSUME NEW k \in Key, inFlight'[k] # None
        PROVE  op'[inFlight'[k]].kind = "request"
    <3>1. CASE inFlight'[k] = inFlight[k]
      <4>1. inFlight[k] # None /\ inFlight[k] \in Req \ {r}
        BY <1>q, <2>2, <3>1, Zenon
      <4>2. op[inFlight[k]].kind = "request"
        BY <1>0, <4>1, Zenon DEF MapIsQueue
      <4>3. op'[inFlight[k]] = op[inFlight[k]]
        BY <1>1, <4>1, Zenon
      <4> QED BY <3>1, <4>2, <4>3, Zenon
    <3>2. CASE inFlight'[k] # inFlight[k]
      <4>1. inFlight \in [Key -> 0 .. N]
        BY <1>0, Zenon DEF TypeOK
      <4>2. inFlight'[k] = r /\ o.kind = "request"
        BY <3>2, <4>1
      <4> QED BY <1>1, <4>2, Zenon
    <3> QED BY <3>1, <3>2, Zenon
  <2> QED BY <2>1, <2>2, Zenon DEF MapIsQueue
<1>8. SignsOnce'
  <2>1. \A t \in pool : t.req \in Req \ {r}
    <3>1. \A t \in pool : t.req \in Req
      BY <1>0 DEF TypeOK, Tx
    <3>2. "none" # "submitted"
      OBVIOUS
    <3> QED BY <1>0, <3>1, <3>2, Zenon DEF SignsOnce
  <2>2. \A t \in pool : phase'[t.req] = "submitted" /\ ~OnChain(t.req)'
    BY <1>0, <1>1, <1>5, <2>1, Zenon DEF SignsOnce
  <2>3. \A e \in Effects : phase'[e.req] = phase[e.req]
    BY <1>1, <1>2, Zenon
  <2> QED BY <1>0, <1>5, <2>2, <2>3, Zenon DEF SignsOnce
<1>9. StillNone'
  <2> SUFFICES ASSUME NEW q \in Req, phase'[q] \in {"checked", "signing", "submitted"},
                      op'[q].kind = "request", ~OnChain(q)'
               PROVE  VouchersOf(AccountOf[op[q].key])' = {}
    BY Zenon DEF StillNone
  <2>1. q # r
    BY <1>1
  <2>2. VouchersOf(AccountOf[op[q].key]) = {}
    BY <1>0, <1>1, <1>5, <2>1, Zenon DEF StillNone
  <2>3. op'[q] = op[q]
    BY <1>1, <2>1, Zenon
  <2> QED BY <1>5, <2>2, <2>3, Zenon
<1>10. RevokedWereIssued'
  BY <1>0, <1>5, Zenon DEF RevokedWereIssued, RevokedNow, IssuedNow
<1> QED BY <1>3, <1>5, <1>6, <1>7, <1>8, <1>9, <1>10, Zenon

(* An operation that ends has either not signed or is on chain.            *)
LEMMA SettleKeeps ==
    ASSUME DeskInv, NEW r \in Req, Running(r), NEW answer \in {"ok", "failed"},
           NEW v \in 0 .. N, v # None => phase[v] # "none",
           phase[r] = "submitted" => OnChain(r),
           Settle(r, answer, v), UNCHANGED <<op, network>>
    PROVE  /\ Heard' /\ MapIsQueue' /\ SignsOnce' /\ StillNone' /\ RevokedWereIssued'
           /\ Vouchers' = Vouchers
<1>0. /\ TypeOK /\ Heard /\ MapIsQueue /\ SignsOnce /\ StillNone /\ RevokedWereIssued
  BY Zenon DEF DeskInv, QueueInv
<1>1. /\ \A q \in Req : phase'[q] = IF q \in Sharers(r) THEN answer ELSE phase[q]
      /\ \A q \in Req : result'[q] = IF q \in Sharers(r) THEN v ELSE result[q]
      /\ \A k \in Key : inFlight'[k] = IF inFlight[k] = r THEN None ELSE inFlight[k]
      /\ UNCHANGED <<op, pool, chain>>
  BY Zenon DEF Settle, InFlightAfter, network
<1>2. \A q : q \in Sharers(r) <=> q = r \/ (q \in Req /\ phase[q] = "joined" /\ op[q].leader = r)
  BY Zenon DEF Sharers
<1>3. \A q \in Req : phase'[q] \in {"queued", "checked", "signing", "submitted"}
                       => phase'[q] = phase[q] /\ q # r
  BY <1>1, <1>2
<1>5. /\ Effects' = Effects /\ \A q : OnChain(q)' <=> OnChain(q)
      /\ IssuedNow' = IssuedNow /\ RevokedNow' = RevokedNow
      /\ Vouchers' = Vouchers
      /\ \A a : VouchersOf(a)' = VouchersOf(a)
  BY <1>0, <1>1, VouchersStay, Zenon
<1>6. Heard'
  <2>1. "ok" \notin {"lost", "none"} /\ "failed" \notin {"lost", "none"} /\ "joined" # "none"
    OBVIOUS
  <2>2. \A q \in Req : phase[q] # "none" => phase'[q] # "none"
    BY <1>1, <2>1, Zenon
  <2>3. phase[r] # "none"
    <3>1. r \in Queued
      BY <1>0, HeadQueued DEF TypeOK
    <3>2. phase[r] \in {"queued", "checked", "signing", "submitted"}
      BY <3>1, Zenon DEF DeskInv, QueueInv, WaitersHaveAnOperation, Queued
    <3> QED BY <3>2
  <2>4. \A q \in Req : phase'[q] # "none" => phase[q] # "none"
    BY <1>1, <1>2, <2>1, <2>3, Zenon
  <2>5. \A w \in 0 .. N : w # None => w \in Req
    BY DEF Req, None
  <2>6. \A q \in Req : result'[q] # None => phase'[result'[q]] # "none"
    <3> SUFFICES ASSUME NEW q \in Req, result'[q] # None
                 PROVE  phase'[result'[q]] # "none"
      OBVIOUS
    <3>1. result'[q] \in 0 .. N
      BY <1>0, <1>1 DEF TypeOK
    <3>2. phase[result'[q]] # "none"
      BY <1>0, <1>1, Zenon DEF Heard
    <3> QED BY <2>2, <2>5, <3>1, <3>2, Zenon
  <2>7. \A q \in Req : phase'[q] # "lost"
    BY <1>0, <1>1, <2>1, Zenon DEF Heard
  <2> QED BY <1>0, <1>1, <2>4, <2>6, <2>7, Zenon DEF Heard
<1>7. MapIsQueue'
  <2>1. ASSUME NEW q \in Req, phase'[q] \in {"queued", "checked", "signing", "submitted"}
        PROVE  /\ op[q].leader = None
               /\ op[q].kind = "request" => inFlight'[op[q].key] = q
    <3>1. phase'[q] = phase[q] /\ q # r
      BY <1>3, <2>1, Zenon
    <3>2. /\ op[q].leader = None
          /\ op[q].kind = "request" => inFlight[op[q].key] = q
      BY <1>0, <2>1, <3>1, Zenon DEF MapIsQueue
    <3>3. op[q].key \in Key
      <4>1. phase[q] # "none"
        BY <2>1, <3>1
      <4> QED BY <1>0, <4>1, Zenon DEF Heard
    <3> QED BY <1>1, <3>1, <3>2, <3>3, Zenon
  <2>2. ASSUME NEW k \in Key, inFlight'[k] # None
        PROVE  op[inFlight'[k]].kind = "request"
    BY <1>0, <1>1, <2>2, Zenon DEF MapIsQueue
  <2> QED BY <1>1, <2>1, <2>2, Zenon DEF MapIsQueue
<1>8. SignsOnce'
  <2>1. \A t \in pool : phase'[t.req] = "submitted" /\ ~OnChain(t.req)'
    <3> SUFFICES ASSUME NEW t \in pool
                 PROVE  phase'[t.req] = "submitted" /\ ~OnChain(t.req)'
      OBVIOUS
    <3>1. t.req \in Req
      BY <1>0 DEF TypeOK, Tx
    <3>2. phase[t.req] = "submitted" /\ ~OnChain(t.req)
      BY <1>0, Zenon DEF SignsOnce
    <3>3. t.req # r
      BY <3>2, Zenon
    <3>4. "submitted" # "joined"
      OBVIOUS
    <3> QED BY <1>1, <1>2, <1>5, <3>1, <3>2, <3>3, <3>4, Zenon
  <2>2. \A e \in Effects : phase'[e.req] \in {"submitted", "ok", "failed"}
    <3>1. \A e \in Effects : e.req \in Req
      BY <1>0, EffectsTyped DEF Included
    <3> QED BY <1>0, <1>1, <3>1, Zenon DEF SignsOnce
  <2> QED BY <1>0, <1>1, <1>5, <2>1, <2>2, Zenon DEF SignsOnce
<1>9. StillNone'
  <2> SUFFICES ASSUME NEW q \in Req, phase'[q] \in {"checked", "signing", "submitted"},
                      op[q].kind = "request", ~OnChain(q)'
               PROVE  VouchersOf(AccountOf[op[q].key])' = {}
    BY <1>1, Zenon DEF StillNone
  <2>1. phase'[q] = phase[q]
    BY <1>3, Zenon
  <2> QED BY <1>0, <1>1, <1>5, <2>1, Zenon DEF StillNone
<1>10. RevokedWereIssued'
  BY <1>0, <1>5, Zenon DEF RevokedWereIssued, RevokedNow, IssuedNow
<1> QED BY <1>5, <1>6, <1>7, <1>8, <1>9, <1>10, Zenon

(* The head goes on: it looked before it is checked, and signs once.       *)
LEMMA AdvanceKeeps ==
    ASSUME DeskInv, NEW r \in Req, phase[r] \in {"queued", "checked", "signing"},
           NEW p \in {"checked", "signing", "submitted"},
           phase' = [phase EXCEPT ![r] = p],
           phase[r] = "queued" => NoVoucherYet(r),
           \/ pool' = pool
           \/ p = "submitted" /\ \E n : pool' = pool \cup {[req |-> r, nonce |-> n]},
           UNCHANGED <<op, result, inFlight, chain>>
    PROVE  /\ Heard' /\ MapIsQueue' /\ SignsOnce' /\ StillNone' /\ RevokedWereIssued'
           /\ Vouchers' = Vouchers
<1>0. /\ TypeOK /\ Heard /\ MapIsQueue /\ SignsOnce /\ StillNone /\ RevokedWereIssued
  BY Zenon DEF DeskInv, QueueInv
<1>1. phase'[r] = p /\ \A q \in Req \ {r} : phase'[q] = phase[q]
  BY <1>0 DEF TypeOK
<1>2. ~OnChain(r)
  <2>1. phase[r] \notin {"submitted", "ok", "failed"}
    OBVIOUS
  <2> QED BY <1>0, <2>1, Zenon DEF SignsOnce, OnChain
<1>5. /\ Effects' = Effects /\ \A q : OnChain(q)' <=> OnChain(q)
      /\ IssuedNow' = IssuedNow /\ RevokedNow' = RevokedNow
      /\ Vouchers' = Vouchers
      /\ \A a : VouchersOf(a)' = VouchersOf(a)
  BY <1>0, VouchersStay, Zenon
<1>6. Heard'
  <2>1. p # "lost" /\ p # "none" /\ phase[r] # "none"
    OBVIOUS
  <2>2. \A q \in Req : phase[q] # "none" <=> phase'[q] # "none"
    BY <1>1, <2>1, Zenon
  <2>3. \A q \in Req : result[q] # None => result[q] \in Req
    BY <1>0 DEF TypeOK, Req, None
  <2>4. \A q \in Req : phase'[q] # "lost"
    BY <1>0, <1>1, <2>1, Zenon DEF Heard
  <2> QED BY <1>0, <2>2, <2>3, <2>4, Zenon DEF Heard
<1>7. MapIsQueue'
  <2>1. \A q \in Req : phase'[q] \in {"queued", "checked", "signing", "submitted"}
           => phase[q] \in {"queued", "checked", "signing", "submitted"}
    BY <1>1
  <2> QED BY <1>0, <2>1, Zenon DEF MapIsQueue
<1>8. SignsOnce'
  <2>1. \A t \in pool : t.req \in Req \ {r}
    <3>1. \A t \in pool : t.req \in Req
      BY <1>0 DEF TypeOK, Tx
    <3>2. phase[r] # "submitted"
      OBVIOUS
    <3> QED BY <1>0, <3>1, <3>2, Zenon DEF SignsOnce
  <2>2. \A t \in pool : phase'[t.req] = "submitted" /\ ~OnChain(t.req)'
    BY <1>0, <1>1, <1>5, <2>1, Zenon DEF SignsOnce
  <2>3. \A e \in Effects : phase'[e.req] \in {"submitted", "ok", "failed"}
    <3>1. \A e \in Effects : e.req \in Req
      BY <1>0, EffectsTyped DEF Included
    <3> QED BY <1>0, <1>1, <1>2, <3>1, Zenon DEF SignsOnce, OnChain
  <2>4. CASE pool' = pool
    BY <1>0, <1>5, <2>2, <2>3, <2>4, Zenon DEF SignsOnce
  <2>5. ASSUME NEW n, p = "submitted", pool' = pool \cup {[req |-> r, nonce |-> n]}
        PROVE  SignsOnce'
    <3> DEFINE new == [req |-> r, nonce |-> n]
    <3>1. new.req = r
      OBVIOUS
    <3> HIDE DEF new
    <3>2. pool' = pool \cup {new}
      BY <2>5, Zenon DEF new
    <3>3. phase'[new.req] = "submitted" /\ ~OnChain(new.req)'
      BY <1>1, <1>2, <1>5, <2>5, <3>1, Zenon
    <3>4. \A t, u \in pool' : t.req = u.req => t = u
      BY <1>0, <2>1, <3>1, <3>2, Zenon DEF SignsOnce
    <3> QED BY <1>0, <1>5, <2>2, <2>3, <3>2, <3>3, <3>4, Zenon DEF SignsOnce
  <2> QED BY <2>4, <2>5, Zenon
<1>9. StillNone'
  <2> SUFFICES ASSUME NEW q \in Req, phase'[q] \in {"checked", "signing", "submitted"},
                      op[q].kind = "request", ~OnChain(q)'
               PROVE  VouchersOf(AccountOf[op[q].key])' = {}
    BY Zenon DEF StillNone
  <2>1. CASE phase[q] \in {"checked", "signing", "submitted"}
    BY <1>0, <1>5, <2>1, Zenon DEF StillNone
  <2>2. CASE phase[q] \notin {"checked", "signing", "submitted"}
    <3>1. q = r /\ phase[r] = "queued"
      BY <1>1, <2>2
    <3> QED BY <1>5, <3>1, Zenon DEF NoVoucherYet
  <2> QED BY <2>1, <2>2, Zenon
<1>10. RevokedWereIssued'
  BY <1>0, <1>5, Zenon DEF RevokedWereIssued, RevokedNow, IssuedNow
<1> QED BY <1>5, <1>6, <1>7, <1>8, <1>9, <1>10, Zenon

-----------------------------------------------------------------------------
LEMMA EffectsGrow ==
    ASSUME TypeOK, NEW new \in Included, chain' = Append(chain, new)
    PROVE  Effects' = Effects \cup {new}
<1>1. /\ Len(chain) \in Nat /\ Len(chain') = Len(chain) + 1
      /\ \A i \in 1 .. Len(chain) : chain'[i] = chain[i]
      /\ chain'[Len(chain) + 1] = new
  BY DEF TypeOK
<1>2. 1 .. Len(chain') = 1 .. Len(chain) \cup {Len(chain) + 1}
  BY <1>1
<1> QED BY <1>1, <1>2 DEF Effects

LEMMA ReachedIs ==
    /\ \A r : Reached(r) <=> \E e \in Effects : e.req = r /\ e.ok
    /\ \A r : Reached(r)' <=> \E e \in Effects' : e.req = r /\ e.ok
BY DEF Reached, Effects

(* A block takes the transaction of the head of the queue, which then has  *)
(* the effect it was queued for, or fails.                                 *)
LEMMA IncludeKeeps ==
    ASSUME DeskInv, NEW t \in pool, NEW ok \in Outcomes(t.req),
           chain' = Append(chain, [req |-> t.req, ok |-> ok]),
           pool' = pool \ {t}, UNCHANGED server,
           NEW r, r = t.req
    PROVE  /\ Heard' /\ MapIsQueue' /\ SignsOnce' /\ StillNone' /\ RevokedWereIssued'
           /\ r \in Req /\ Running(r) /\ ~Reached(r) /\ op[r].kind \in Kinds
           /\ op[r].kind = "request" => VouchersOf(AccountOf[op[r].key]) = {}
           /\ ~ok => Vouchers' = Vouchers /\ ~Reached(r)'
           /\ ok => /\ Reached(r)'
                    /\ op[r].kind \in {"request", "issue"} => Vouchers' = Vouchers \cup {r}
                    /\ op[r].kind = "prolong" =>
                         op[r].voucher \in Vouchers /\ Vouchers' = Vouchers
                    /\ op[r].kind = "revoke" =>
                         /\ op[r].voucher \in Vouchers
                         /\ Vouchers' = Vouchers \ {op[r].voucher}
<1> DEFINE new == [req |-> t.req, ok |-> ok]
<1>0. /\ TypeOK /\ Heard /\ MapIsQueue /\ SignsOnce /\ StillNone /\ RevokedWereIssued
      /\ HeadOnly
  BY Zenon DEF DeskInv, QueueInv
<1>1. r \in Req /\ ok \in BOOLEAN
  BY <1>0 DEF TypeOK, Tx, Outcomes
<1>2. new \in Included /\ new.req = r /\ new.ok = ok
  BY <1>1 DEF Included
<1> HIDE DEF new
<1>3. chain' = Append(chain, new)
  BY Zenon DEF new
<1>4. Effects' = Effects \cup {new}
  BY <1>0, <1>2, <1>3, EffectsGrow, Zenon
<1>5. phase[r] = "submitted" /\ ~OnChain(r)
  BY <1>0, Zenon DEF SignsOnce
<1>6. Running(r)
  BY <1>0, <1>1, <1>5 DEF HeadOnly
<1>7. op' = op /\ phase' = phase /\ result' = result /\ inFlight' = inFlight /\ queue' = queue
  BY Zenon DEF server
<1>8. op[r].kind \in Kinds
  <2>1. phase[r] # "none"
    BY <1>5
  <2> QED BY <1>0, <1>1, <2>1, Zenon DEF Heard
<1>9. op[r].kind = "request" => VouchersOf(AccountOf[op[r].key]) = {}
  BY <1>0, <1>1, <1>5, Zenon DEF StillNone
<1>10. /\ \A e \in Effects : e.req # r
       /\ ~Reached(r)
  BY <1>5, ReachedIs, Zenon DEF OnChain
<1>11. Reached(r)' <=> ok
  <2>1. Reached(r)' <=> \E e \in Effects' : e.req = r /\ e.ok
    BY ReachedIs, Zenon
  <2> QED BY <1>2, <1>4, <1>10, <2>1, Zenon
(* What the transaction adds to the vouchers issued and revoked. *)
<1>12. ASSUME NEW v
       PROVE  v \in IssuedNow' <=>
                v \in IssuedNow \/ (v = r /\ ok /\ op[r].kind \in {"request", "issue"})
  <2>1. v \in IssuedNow' <=> /\ v \in Req /\ op[v].kind \in {"request", "issue"}
                             /\ \E e \in Effects' : e.req = v /\ e.ok
    BY <1>7, VouchersAreNext
  <2>2. v \in IssuedNow <=> /\ v \in Req /\ op[v].kind \in {"request", "issue"}
                            /\ \E e \in Effects : e.req = v /\ e.ok
    BY VouchersAre, Zenon
  <2>3. (\E e \in Effects' : e.req = v /\ e.ok)
          <=> (\E e \in Effects : e.req = v /\ e.ok) \/ (v = r /\ ok)
    BY <1>2, <1>4, Zenon
  <2> QED BY <1>1, <2>1, <2>2, <2>3, Zenon
<1>13. ASSUME NEW v
       PROVE  v \in RevokedNow' <=>
                v \in RevokedNow \/ (v = op[r].voucher /\ ok /\ op[r].kind = "revoke")
  <2>1. v \in RevokedNow' <=>
          \E q \in Req : /\ v = op[q].voucher /\ op[q].kind = "revoke"
                         /\ \E e \in Effects' : e.req = q /\ e.ok
    BY <1>7, VouchersAreNext
  <2>2. v \in RevokedNow <=>
          \E q \in Req : /\ v = op[q].voucher /\ op[q].kind = "revoke"
                         /\ \E e \in Effects : e.req = q /\ e.ok
    BY VouchersAre
  <2>3. \A q : (\E e \in Effects' : e.req = q /\ e.ok)
          <=> (\E e \in Effects : e.req = q /\ e.ok) \/ (q = r /\ ok)
    BY <1>2, <1>4, Zenon
  <2>4. v \in RevokedNow' => v \in RevokedNow \/ (v = op[r].voucher /\ ok /\ op[r].kind = "revoke")
    BY <2>1, <2>2, <2>3, Zenon
  <2>5. v \in RevokedNow => v \in RevokedNow'
    BY <2>1, <2>2, <2>3, Zenon
  <2>6. ASSUME v = op[r].voucher, ok, op[r].kind = "revoke" PROVE v \in RevokedNow'
    <3>1. \E e \in Effects' : e.req = r /\ e.ok
      BY <2>3, <2>6, Zenon
    <3> QED BY <1>1, <2>1, <2>6, <3>1
  <2> QED BY <2>4, <2>5, <2>6, Zenon
<1>14. Vouchers = IssuedNow \ RevokedNow /\ Vouchers' = IssuedNow' \ RevokedNow'
  BY VouchersAre, VouchersAreNext, Zenon
<1>15. RevokedNow \subseteq IssuedNow
  BY <1>0, Zenon DEF RevokedWereIssued, RevokedNow, IssuedNow
<1>16. r \notin IssuedNow
  BY <1>10, VouchersAre, Zenon
<1>17. ok /\ op[r].kind \in {"prolong", "revoke"} => op[r].voucher \in Vouchers
  BY DEF Outcomes
<1>18. ~ok => Vouchers' = Vouchers
  <2> SUFFICES ASSUME ~ok PROVE \A v : v \in Vouchers' <=> v \in Vouchers
    BY Zenon
  <2> QED BY <1>12, <1>13, <1>14, Zenon
<1>19. ok /\ op[r].kind \in {"request", "issue"} => Vouchers' = Vouchers \cup {r}
  <2> SUFFICES ASSUME ok, op[r].kind \in {"request", "issue"}
               PROVE  \A v : v \in Vouchers' <=> v \in Vouchers \/ v = r
    BY Zenon
  <2>1. op[r].kind # "revoke"
    OBVIOUS
  <2>2. r \notin RevokedNow
    BY <1>15, <1>16, Zenon
  <2> QED BY <1>12, <1>13, <1>14, <2>1, <2>2, Zenon
<1>20. ok /\ op[r].kind = "prolong" => Vouchers' = Vouchers
  <2> SUFFICES ASSUME ok, op[r].kind = "prolong" PROVE \A v : v \in Vouchers' <=> v \in Vouchers
    BY Zenon
  <2>1. op[r].kind \notin {"request", "issue", "revoke"}
    OBVIOUS
  <2> QED BY <1>12, <1>13, <1>14, <2>1, Zenon
<1>21. ok /\ op[r].kind = "revoke" => Vouchers' = Vouchers \ {op[r].voucher}
  <2> SUFFICES ASSUME ok, op[r].kind = "revoke"
               PROVE  \A v : v \in Vouchers' <=> v \in Vouchers /\ v # op[r].voucher
    BY Zenon
  <2>1. op[r].kind \notin {"request", "issue"}
    OBVIOUS
  <2> QED BY <1>12, <1>13, <1>14, <2>1, Zenon
<1>22. Heard' /\ MapIsQueue'
  BY <1>0, <1>7, Zenon DEF Heard, MapIsQueue
<1>23. SignsOnce'
  <2>1. \A u \in pool \ {t} : u.req # r
    BY <1>0, Zenon DEF SignsOnce
  <2>2. \A u \in pool \ {t} : phase[u.req] = "submitted" /\ ~OnChain(u.req)'
    BY <1>0, <1>2, <1>4, <2>1, Zenon DEF SignsOnce, OnChain
  <2>3. \A e \in Effects' : phase[e.req] \in {"submitted", "ok", "failed"}
    <3>1. phase[new.req] \in {"submitted", "ok", "failed"}
      BY <1>2, <1>5, Zenon
    <3> QED BY <1>0, <1>4, <3>1, Zenon DEF SignsOnce
  <2>4. \A e, f \in Effects' : e.req = f.req => e = f
    BY <1>0, <1>2, <1>4, <1>10, Zenon DEF SignsOnce
  <2> QED BY <1>0, <1>7, <2>2, <2>3, <2>4, Zenon DEF SignsOnce
<1>24. StillNone'
  <2> SUFFICES ASSUME NEW q \in Req, phase[q] \in {"checked", "signing", "submitted"},
                      ~OnChain(q)'
               PROVE  FALSE
    BY <1>7, Zenon DEF StillNone
  <2>1. Running(q)
    BY <1>0, Zenon DEF HeadOnly
  <2>2. q = r
    BY <1>6, <2>1, Zenon DEF Running
  <2> QED BY <1>2, <1>4, <2>2, Zenon DEF OnChain
<1>25. RevokedWereIssued'
  <2>1. \A v : v \in RevokedNow' => v \in IssuedNow'
    BY <1>12, <1>13, <1>14, <1>15, <1>17, Zenon
  <2> QED BY <2>1, Zenon DEF RevokedWereIssued, RevokedNow, IssuedNow
<1> QED BY <1>1, <1>6, <1>8, <1>9, <1>10, <1>11, <1>17, <1>18, <1>19, <1>20, <1>21,
           <1>22, <1>23, <1>24, <1>25, Zenon

-----------------------------------------------------------------------------
(* The steps of the desk.                                                  *)

Answer == [r \in Req |-> IF phase[r] \in Answered \cup {"none"}
                         THEN phase[r] ELSE "waiting"]
Served == queue # <<>> /\ Reached(Head(queue))

(* Everything between two answers is waiting to the desk. *)
LEMMA Stutters ==
    ASSUME UNCHANGED <<queue, op, result>>, Answer' = Answer,
           Vouchers' = Vouchers, Served' = Served
    PROVE  UNCHANGED Desk!vars
BY Zenon DEF Desk!vars, Answer, Served

LEMMA SomeoneAnswered ==
    ASSUME TypeOK, NEW r \in Req
    PROVE  /\ Answer[r] = "none" <=> phase[r] = "none"
           /\ Answer[r] = "ok" <=> phase[r] = "ok"
           /\ Answer[r] = "waiting" <=> phase[r] \notin {"none", "ok", "failed"}
BY DEF Answer, Answered, TypeOK, Phase

(* A request that arrives starts to wait. *)
LEMMA StartsToWait ==
    ASSUME TypeOK, NEW r \in Req, NEW p \in {"queued", "joined"},
           phase' = [phase EXCEPT ![r] = p]
    PROVE  Answer' = [Answer EXCEPT ![r] = "waiting"]
<1>1. /\ DOMAIN phase = Req /\ phase'[r] = p
      /\ \A q \in Req \ {r} : phase'[q] = phase[q]
  BY DEF TypeOK
<1>2. p \notin Answered \cup {"none"}
  BY DEF Answered
<1> QED BY <1>1, <1>2 DEF Answer

(* The head of the queue stays the head when one more queues up. *)
LEMMA ServedStays ==
    ASSUME TypeOK, NEW r \in Req, queue' = Append(queue, r), ~Reached(r),
           UNCHANGED chain
    PROVE  Served' = Served
<1>1. \A q : Reached(q)' <=> Reached(q)
  BY Zenon DEF Reached
<1>2. CASE queue = <<>>
  <2>1. queue' # <<>> /\ Head(queue') = r
    BY <1>2
  <2> QED BY <1>1, <1>2, <2>1, Zenon DEF Served
<1>3. CASE queue # <<>>
  <2>1. \A s \in Seq(Req) : s # <<>> =>
           Append(s, r) # <<>> /\ Head(Append(s, r)) = Head(s)
    <3> SUFFICES ASSUME NEW s \in Seq(Req), s # <<>>
                 PROVE  Append(s, r) # <<>> /\ Head(Append(s, r)) = Head(s)
      OBVIOUS
    <3>1. Len(s) \in Nat \ {0} /\ Len(Append(s, r)) = Len(s) + 1 /\ Append(s, r)[1] = s[1]
      OBVIOUS
    <3> QED BY <3>1
  <2>2. queue \in Seq(Req)
    BY Zenon DEF TypeOK
  <2>3. queue' # <<>> /\ Head(queue') = Head(queue)
    BY <1>3, <2>1, <2>2, Zenon
  <2> QED BY <1>1, <1>3, <2>3, Zenon DEF Served
<1> QED BY <1>2, <1>3, Zenon

(* A request for a voucher that is in flight joins it (lib.ts:58-60).      *)
LEMMA JoinIsJoin ==
    ASSUME DeskInv, NEW r \in Req, NEW k \in Key, "request" \in Kinds, Arrives(r),
           inFlight[k] # None,
           op' = [op EXCEPT ![r] = [kind |-> "request", key |-> k,
                                    voucher |-> None, leader |-> inFlight[k]]],
           phase' = [phase EXCEPT ![r] = "joined"],
           UNCHANGED <<queue, inFlight, nonce, result, network>>
    PROVE  DeskInv' /\ Desk!Join(r, k)
<1> DEFINE q == inFlight[k]
           o == [kind |-> "request", key |-> k, voucher |-> None, leader |-> q]
<1>0. TypeOK /\ WaitersHaveAnOperation /\ MapIsQueue /\ QueueInv
  BY Zenon DEF DeskInv, QueueInv
<1>1. phase[r] = "none"
  BY Zenon DEF Arrives
<1>2. QueueInv'
  BY <1>0, JoinStep, Zenon
<1>3. /\ Heard' /\ MapIsQueue' /\ SignsOnce' /\ StillNone' /\ RevokedWereIssued'
      /\ Vouchers' = Vouchers /\ ~OnChain(r)
  <2>1. o.kind \in Kinds /\ o.key \in Key /\ "joined" # "queued"
    OBVIOUS
  <2>2. op' = [op EXCEPT ![r] = o]
    BY Zenon
  <2> HIDE DEF o
  <2>3. UNCHANGED <<result, pool, chain>>
    BY Zenon DEF network
  <2> QED BY <1>1, <2>1, <2>2, <2>3, ArrivalKeeps, Zenon
<1>4. q \in Desk!Asking(k)
  <2>1. q \in Queued /\ op[q].key = k
    BY <1>0, Zenon DEF WaitersHaveAnOperation, Queued
  <2>2. op[q].kind = "request"
    BY <1>0, Zenon DEF MapIsQueue
  <2>3. q \in Req /\ \E i \in 1 .. Len(queue) : queue[i] = q
    <3>1. Queued \subseteq Req
      BY <1>0 DEF Queued, TypeOK
    <3> QED BY <2>1, <3>1, Zenon DEF Queued
  <2> HIDE DEF q
  <2> QED BY <2>1, <2>2, <2>3, Zenon DEF Desk!Asking
<1>5. Answer' = [Answer EXCEPT ![r] = "waiting"]
  BY <1>0, StartsToWait, Zenon
<1>6. Answer[r] = "none"
  BY <1>0, <1>1, SomeoneAnswered, Zenon
<1>7. Served' = Served
  <2>1. queue' = queue /\ chain' = chain
    BY Zenon DEF network
  <2> QED BY <2>1, Zenon DEF Served, Reached
<1>8. PICK x : x = q
  OBVIOUS
<1>a. Desk!Asks(r, "request", k, None, x)
  BY <1>3, <1>5, <1>6, <1>7, <1>8, Zenon DEF Desk!Asks, Answer, Served
<1>9. Desk!Join(r, k)
  <2>1. queue' = queue
    BY Zenon
  <2>2. x \in Desk!Asking(k)
    BY <1>4, <1>8, Zenon
  <2> QED BY <1>a, <2>1, <2>2, Zenon DEF Desk!Join
<1> QED BY <1>2, <1>3, <1>9, Zenon DEF DeskInv

(* Any other request goes to the end of the line.                          *)
LEMMA EnqueueIsLineUp ==
    ASSUME DeskInv, NEW r \in Req, NEW kind \in Kinds, NEW k \in Key,
           NEW v \in Req \cup {None}, Arrives(r), Enqueue(r, kind, k, v),
           \/ kind # "request" /\ inFlight' = inFlight
           \/ /\ kind = "request" /\ inFlight[k] = None
              /\ inFlight' = [inFlight EXCEPT ![k] = r],
           IF kind \in {"request", "issue"}
           THEN v = None ELSE \E q \in Req : phase[q] = "ok" /\ result[q] = v,
           UNCHANGED <<nonce, result, network>>
    PROVE  DeskInv' /\ Desk!LineUp(r, kind, k, v)
<1> DEFINE o == [kind |-> kind, key |-> k, voucher |-> v, leader |-> None]
<1>0. TypeOK /\ WaitersHaveAnOperation /\ MapIsQueue /\ QueueInv
  BY Zenon DEF DeskInv, QueueInv
<1>1. /\ phase[r] = "none"
      /\ op' = [op EXCEPT ![r] = o]
      /\ phase' = [phase EXCEPT ![r] = "queued"]
      /\ queue' = Append(queue, r)
      /\ UNCHANGED <<result, pool, chain>>
  BY Zenon DEF Arrives, Enqueue, network
<1>2. QueueInv'
  <2>1. v \in 0 .. N /\ k \in Key \cup {None}
    BY DEF Req, None
  <2> QED BY <1>0, <2>1, EnqueueStep, Zenon
<1>3. /\ Heard' /\ MapIsQueue' /\ SignsOnce' /\ StillNone' /\ RevokedWereIssued'
      /\ Vouchers' = Vouchers /\ ~OnChain(r)
  <2>1. o.kind = kind /\ o.key = k /\ o.leader = None
    OBVIOUS
  <2> HIDE DEF o
  <2> QED BY <1>1, <2>1, ArrivalKeeps, Zenon
<1>4. kind = "request" => Desk!Asking(k) = {}
  <2> SUFFICES ASSUME kind = "request", NEW q \in Desk!Asking(k) PROVE FALSE
    BY Zenon
  <2>1. /\ q \in Req /\ \E i \in 1 .. Len(queue) : queue[i] = q
        /\ op[q].kind = "request" /\ op[q].key = k
    BY Zenon DEF Desk!Asking
  <2>2. phase[q] \in {"queued", "checked", "signing", "submitted"}
    <3>1. q \in {queue[i] : i \in 1 .. Len(queue)}
      BY <2>1
    <3> QED BY <1>0, <2>1, <3>1, Zenon DEF WaitersHaveAnOperation
  <2>3. inFlight[k] = q
    BY <1>0, <2>1, <2>2, Zenon DEF MapIsQueue
  <2>4. q # None
    BY <2>1 DEF Req, None
  <2> QED BY <2>3, <2>4, Zenon
<1>5. Answer' = [Answer EXCEPT ![r] = "waiting"]
  <2>1. "queued" \in {"queued", "joined"}
    OBVIOUS
  <2> QED BY <1>0, <1>1, <2>1, StartsToWait, Zenon
<1>6. Answer[r] = "none"
  BY <1>0, <1>1, SomeoneAnswered, Zenon
<1>7. Served' = Served
  <2>1. ~Reached(r)
    BY <1>3, ReachedIs, Zenon DEF OnChain
  <2> QED BY <1>0, <1>1, <2>1, ServedStays, Zenon
<1>8. Desk!Asks(r, kind, k, v, None)
  BY <1>1, <1>3, <1>5, <1>6, <1>7, Zenon DEF Desk!Asks, Answer, Served
<1>9. IF kind \in {"request", "issue"}
      THEN v = None ELSE \E q \in Req : Answer[q] = "ok" /\ result[q] = v
  BY <1>0, SomeoneAnswered, Zenon
<1>10. Desk!LineUp(r, kind, k, v)
  <2> HIDE DEF o
  <2> QED BY <1>1, <1>4, <1>8, <1>9, Zenon DEF Desk!LineUp, Answer
<1> QED BY <1>2, <1>3, <1>10, Zenon DEF DeskInv

(* The operation at the head ends: the desk answers it and who stands with *)
(* it, and the next one has had no effect yet (lib.ts:79-86, 308-315).     *)
LEMMA SettleIsReply ==
    ASSUME DeskInv, NEW r \in Req, Running(r), NEW answer \in {"ok", "failed"},
           NEW v \in 0 .. N, v # None => phase[v] # "none",
           phase[r] = "submitted" => OnChain(r),
           Settle(r, answer, v), UNCHANGED <<op, nonce, network>>,
           <<answer, v>> \in Desk!Told(r)
    PROVE  DeskInv' /\ Desk!Reply(r)
<1> DEFINE group == {r} \cup {q \in Req : Answer[q] = "waiting" /\ op[q].leader = r}
<1>0. TypeOK /\ WaitersHaveAnOperation /\ MapIsQueue /\ QueueInv /\ Heard /\ SignsOnce
      /\ HeadOnly /\ QueueDistinct
  BY Zenon DEF DeskInv, QueueInv
<1>1. QueueInv'
  BY <1>0, SettleStep, Zenon
<1>2. /\ Heard' /\ MapIsQueue' /\ SignsOnce' /\ StillNone' /\ RevokedWereIssued'
      /\ Vouchers' = Vouchers
  BY SettleKeeps, Zenon
<1>3. queue # <<>> /\ r = Head(queue) /\ queue' = Tail(queue)
  BY Zenon DEF Running, Settle
<1>4. group = Sharers(r)
  <2>1. \A q \in Req : Answer[q] = "waiting" /\ op[q].leader = r
                         <=> phase[q] = "joined" /\ op[q].leader = r
    <3> SUFFICES ASSUME NEW q \in Req, op[q].leader = r
                 PROVE  Answer[q] = "waiting" <=> phase[q] = "joined"
      BY Zenon
    <3>1. phase[q] \notin {"queued", "checked", "signing", "submitted"}
      <4>1. r # None
        BY DEF Req, None
      <4> QED BY <1>0, <4>1, Zenon DEF MapIsQueue
    <3>2. phase[q] # "lost"
      BY <1>0, Zenon DEF Heard
    <3>3. phase[q] \in Phase
      BY <1>0 DEF TypeOK
    <3>4. phase[q] = "joined" <=> phase[q] \notin {"none", "ok", "failed"}
      BY <3>1, <3>2, <3>3 DEF Phase
    <3> QED BY <1>0, <3>4, SomeoneAnswered, Zenon
  <2> QED BY <2>1, Zenon DEF Sharers
<1>5. Answer' = [q \in Req |-> IF q \in group THEN answer ELSE Answer[q]]
  <2>1. \A q \in Req : phase'[q] = IF q \in group THEN answer ELSE phase[q]
    BY <1>4, Zenon DEF Settle
  <2>2. answer \in Answered \cup {"none"}
    BY DEF Answered
  <2>3. Answer' = [q \in Req |-> IF phase'[q] \in Answered \cup {"none"}
                                 THEN phase'[q] ELSE "waiting"]
    BY Zenon DEF Answer
  <2>4. \A q \in Req : (IF phase'[q] \in Answered \cup {"none"} THEN phase'[q] ELSE "waiting")
                         = (IF q \in group THEN answer ELSE Answer[q])
    <3> SUFFICES ASSUME NEW q \in Req
                 PROVE  (IF phase'[q] \in Answered \cup {"none"} THEN phase'[q] ELSE "waiting")
                         = (IF q \in group THEN answer ELSE Answer[q])
      BY Zenon
    <3> HIDE DEF group
    <3>1. CASE q \in group
      BY <2>1, <2>2, <3>1, Zenon
    <3>2. CASE q \notin group
      BY <2>1, <3>2, Zenon DEF Answer
    <3> QED BY <3>1, <3>2, Zenon
  <2> HIDE DEF group
  <2> QED BY <2>3, <2>4, Zenon
<1>6. result' = [q \in Req |-> IF q \in group THEN v ELSE result[q]]
  BY <1>4, Zenon DEF Settle
<1>7. Served' = FALSE
  <2>0. Served' => /\ queue' # <<>>
                   /\ \E e \in Effects' : e.req = Head(queue') /\ e.ok
    BY DEF Served, Reached, Effects
  <2> SUFFICES ASSUME queue' # <<>>, NEW h, h = Head(queue'),
                      \E e \in Effects' : e.req = h /\ e.ok
               PROVE  FALSE
    <3>1. Served' \in BOOLEAN
      BY Zenon DEF Served
    <3>2. ~Served'
      BY <2>0, Zenon
    <3> QED BY <3>1, <3>2
  <2>1. h \in Queued' /\ h \in Req
    <3>1. queue' \in Seq(Req)
      BY <1>1, Zenon DEF QueueInv, TypeOK
    <3>2. \A s \in Seq(Req) : s # <<>> =>
             Head(s) \in Req /\ \E i \in 1 .. Len(s) : s[i] = Head(s)
      <4> SUFFICES ASSUME NEW s \in Seq(Req), s # <<>>
                   PROVE  Head(s) \in Req /\ \E i \in 1 .. Len(s) : s[i] = Head(s)
        OBVIOUS
      <4>1. 1 \in 1 .. Len(s) /\ s[1] = Head(s) /\ Head(s) \in Req
        OBVIOUS
      <4> QED BY <4>1
    <3> QED BY <3>1, <3>2, Zenon DEF Queued
  <2>2. h # r /\ h \in Queued
    <3>1. Queued' = Queued \ {Head(queue)}
      BY <1>0, <1>3, Shortens, Zenon DEF TypeOK
    <3> QED BY <1>3, <2>1, <3>1, Zenon
  <2>3. phase[h] \in {"queued", "checked", "signing", "submitted"}
    BY <1>0, <2>1, <2>2, Zenon DEF WaitersHaveAnOperation, Queued
  <2>4. ~Running(h)
    BY <2>2, Zenon DEF Running
  <2>5. phase[h] \notin {"submitted", "ok", "failed"}
    <3>1. phase[h] \notin {"checked", "signing", "submitted"}
      BY <1>0, <2>1, <2>4, Zenon DEF HeadOnly
    <3> QED BY <2>3, <3>1
  <2>6. ~OnChain(h)
    BY <1>0, <2>5, Zenon DEF SignsOnce, OnChain
  <2>7. Effects' = Effects
    BY Zenon DEF Effects, network
  <2> QED BY <2>6, <2>7, Zenon DEF OnChain
<1>8. Desk!Reply(r)
  <2> DEFINE told == <<answer, v>>
  <2>1. told[1] = answer /\ told[2] = v /\ told \in Desk!Told(r)
    OBVIOUS
  <2> HIDE DEF told
  <2>2. /\ Answer' = [q \in Req |-> IF q \in group THEN told[1] ELSE Answer[q]]
        /\ result' = [q \in Req |-> IF q \in group THEN told[2] ELSE result[q]]
    BY <1>5, <1>6, <2>1, Zenon
  <2> QED BY <1>2, <1>3, <1>7, <2>1, <2>2, Zenon DEF Desk!Reply, Answer, Served
<1> QED BY <1>1, <1>2, <1>8, Zenon DEF DeskInv

(* What happens between two awaits of the head is not seen at the desk.    *)
LEMMA AdvanceStutters ==
    ASSUME DeskInv, QueueInv', NEW r \in Req, phase[r] \in {"queued", "checked", "signing"},
           NEW p \in {"checked", "signing", "submitted"},
           phase' = [phase EXCEPT ![r] = p],
           phase[r] = "queued" => NoVoucherYet(r),
           \/ pool' = pool
           \/ p = "submitted" /\ \E n : pool' = pool \cup {[req |-> r, nonce |-> n]},
           UNCHANGED <<op, result, queue, inFlight, chain>>
    PROVE  DeskInv' /\ UNCHANGED Desk!vars
<1>0. TypeOK
  BY Zenon DEF DeskInv, QueueInv
<1>1. /\ Heard' /\ MapIsQueue' /\ SignsOnce' /\ StillNone' /\ RevokedWereIssued'
      /\ Vouchers' = Vouchers
  BY AdvanceKeeps, Zenon
<1>2. Answer' = Answer
  <2>1. /\ DOMAIN phase = Req /\ phase'[r] = p
        /\ \A q \in Req \ {r} : phase'[q] = phase[q]
    BY <1>0 DEF TypeOK
  <2>2. p \notin Answered \cup {"none"} /\ phase[r] \notin Answered \cup {"none"}
    BY DEF Answered
  <2>3. \A q \in Req : (IF phase'[q] \in Answered \cup {"none"} THEN phase'[q] ELSE "waiting")
                         = (IF phase[q] \in Answered \cup {"none"} THEN phase[q] ELSE "waiting")
    BY <2>1, <2>2, Zenon
  <2> QED BY <2>3, Zenon DEF Answer
<1>3. Served' = Served
  BY Zenon DEF Served, Reached
<1> QED BY <1>1, <1>2, <1>3, Stutters, Zenon DEF DeskInv

(* Neither are steps of the node that include nothing.                     *)
LEMMA NodeStutters ==
    ASSUME DeskInv, QueueInv', UNCHANGED <<op, phase, result, queue, inFlight, chain>>,
           pool' \subseteq pool
    PROVE  DeskInv' /\ UNCHANGED Desk!vars
<1>0. TypeOK /\ Heard /\ MapIsQueue /\ SignsOnce /\ StillNone /\ RevokedWereIssued
  BY Zenon DEF DeskInv, QueueInv
<1>1. /\ Effects' = Effects /\ \A q : OnChain(q)' <=> OnChain(q)
      /\ IssuedNow' = IssuedNow /\ RevokedNow' = RevokedNow
      /\ Vouchers' = Vouchers
      /\ \A a : VouchersOf(a)' = VouchersOf(a)
  BY <1>0, VouchersStay, Zenon
<1>2. Heard' /\ MapIsQueue'
  BY <1>0, Zenon DEF Heard, MapIsQueue
<1>3. SignsOnce'
  BY <1>0, <1>1, Zenon DEF SignsOnce
<1>4. StillNone'
  BY <1>0, <1>1, Zenon DEF StillNone
<1>5. RevokedWereIssued'
  BY <1>0, <1>1, Zenon DEF RevokedWereIssued, RevokedNow, IssuedNow
<1>6. Answer' = Answer /\ Served' = Served
  BY Zenon DEF Answer, Served, Reached
<1> QED BY <1>1, <1>2, <1>3, <1>4, <1>5, <1>6, Stutters, Zenon DEF DeskInv

(* A block serves the head of the line, or its transaction fails.          *)
LEMMA IncludeIsServe ==
    ASSUME DeskInv, QueueInv', NEW t \in pool, Include(t)
    PROVE  DeskInv' /\ \E r \in Req : Desk!Serve(r) \/ UNCHANGED Desk!vars
<1> DEFINE r == t.req
<1>1. PICK ok \in Outcomes(t.req) : chain' = Append(chain, [req |-> t.req, ok |-> ok])
  BY Zenon DEF Include
<1>2. pool' = pool \ {t} /\ UNCHANGED server
  BY Zenon DEF Include
<1>3. UNCHANGED <<op, phase, result, queue>>
  BY <1>2, Zenon DEF server
<1>4. /\ Heard' /\ MapIsQueue' /\ SignsOnce' /\ StillNone' /\ RevokedWereIssued'
      /\ r \in Req /\ Running(r) /\ ~Reached(r) /\ op[r].kind \in Kinds
      /\ op[r].kind = "request" => VouchersOf(AccountOf[op[r].key]) = {}
      /\ ~ok => Vouchers' = Vouchers /\ ~Reached(r)'
      /\ ok => /\ Reached(r)'
               /\ op[r].kind \in {"request", "issue"} => Vouchers' = Vouchers \cup {r}
               /\ op[r].kind = "prolong" =>
                    op[r].voucher \in Vouchers /\ Vouchers' = Vouchers
               /\ op[r].kind = "revoke" =>
                    /\ op[r].voucher \in Vouchers
                    /\ Vouchers' = Vouchers \ {op[r].voucher}
  BY <1>1, <1>2, IncludeKeeps, Zenon
<1> HIDE DEF r
<1>5. queue # <<>> /\ Head(queue) = r /\ Answer' = Answer
  BY <1>3, <1>4, Zenon DEF Running, Answer
<1>6. CASE ~ok
  <2>1. Served' = Served
    BY <1>3, <1>4, <1>5, <1>6, Zenon DEF Served
  <2> QED BY <1>3, <1>4, <1>5, <1>6, <2>1, Stutters, Zenon DEF DeskInv
<1>7. CASE ok
  <2>1. ~Served /\ Served' = TRUE
    BY <1>3, <1>4, <1>5, <1>7, Zenon DEF Served
  <2>2. op[r].kind \in {"request", "issue", "prolong", "revoke"}
    BY <1>4, Zenon
  <2>3. op[r].kind = "request" => Desk!HeldBy(Desk!Holder(r)) = {}
    <3>1. Desk!HeldBy(Desk!Holder(r)) = VouchersOf(AccountOf[op[r].key])
      BY Zenon DEF Desk!HeldBy, Desk!Holder, VouchersOf, Spender
    <3> QED BY <1>4, <3>1, Zenon
  <2>4. \/ /\ Desk!MayIssue(r)
           /\ op[r].kind \in {"request", "issue"} /\ Vouchers' = Vouchers \cup {r}
        \/ op[r].kind = "prolong" /\ op[r].voucher \in Vouchers /\ Vouchers' = Vouchers
        \/ /\ op[r].kind = "revoke" /\ op[r].voucher \in Vouchers
           /\ Vouchers' = Vouchers \ {op[r].voucher}
    <3>1. Desk!MayIssue(r)
      BY <2>3, Zenon DEF Desk!MayIssue
    <3> QED BY <1>4, <1>7, <2>2, <3>1, Zenon
  <2>5. Desk!Serve(r)
    BY <1>3, <1>5, <2>1, <2>4, Zenon DEF Desk!Serve, Answer, Served
  <2> QED BY <1>4, <2>5, Zenon DEF DeskInv
<1> QED BY <1>6, <1>7, Zenon

-----------------------------------------------------------------------------
(* Every step of the server is one of the desk, or none.                   *)
LEMMA DeskStep ==
    ASSUME Steady, DeskInv, [Next]_vars PROVE DeskInv' /\ [Desk!Next]_(Desk!vars)
<1>0. /\ TypeOK /\ HeadOnly /\ WaitersHaveAnOperation /\ SignsOnce /\ Heard /\ QueueInv
  BY Zenon DEF DeskInv, QueueInv
<1>q. QueueInv'
  BY <1>0, QueueInvStep, Zenon
<1>n. None \in 0 .. N /\ None \in Req \cup {None} /\ \A v \in Req : v \in 0 .. N /\ v # None
  BY DEF None, Req
<1>1. ASSUME NEW r \in Req, NEW k \in Key, Request(r, k)
      PROVE  DeskInv' /\ [Desk!Next]_(Desk!vars)
  <2>1. CASE inFlight[k] # None
    <3>1. DeskInv' /\ Desk!Join(r, k)
      BY <1>1, <2>1, JoinIsJoin, Zenon DEF Request
    <3> QED BY <3>1, Zenon DEF Desk!Next
  <2>2. CASE inFlight[k] = None
    <3>1. /\ "request" \in Kinds /\ Arrives(r) /\ Enqueue(r, "request", k, None)
          /\ inFlight' = [inFlight EXCEPT ![k] = r]
          /\ UNCHANGED <<nonce, result, network>>
      BY <1>1, <2>2, Zenon DEF Request
    <3>2. DeskInv' /\ Desk!LineUp(r, "request", k, None)
      BY <1>n, <2>2, <3>1, EnqueueIsLineUp, Zenon
    <3> QED BY <1>n, <3>1, <3>2, Zenon DEF Desk!Next
  <2> QED BY <2>1, <2>2, Zenon
<1>2. ASSUME NEW r \in Req, NEW k \in Key, Issue(r, k)
      PROVE  DeskInv' /\ [Desk!Next]_(Desk!vars)
  <2>1. /\ "issue" \in Kinds /\ Arrives(r) /\ Enqueue(r, "issue", k, None)
        /\ UNCHANGED <<nonce, result, inFlight, network>>
    BY <1>2, Zenon DEF Issue
  <2>2. "issue" # "request"
    OBVIOUS
  <2>3. DeskInv' /\ Desk!LineUp(r, "issue", k, None)
    BY <1>n, <2>1, <2>2, EnqueueIsLineUp, Zenon
  <2> QED BY <1>n, <2>1, <2>3, Zenon DEF Desk!Next
<1>3. ASSUME NEW r \in Req, NEW v \in Req, NEW kind \in Kinds, Update(r, kind, v)
      PROVE  DeskInv' /\ [Desk!Next]_(Desk!vars)
  <2>1. /\ kind \in {"prolong", "revoke"} /\ Arrives(r)
        /\ \E q \in Req : phase[q] = "ok" /\ result[q] = v
        /\ Enqueue(r, kind, op[v].key, v)
        /\ UNCHANGED <<nonce, result, inFlight, network>>
    BY <1>3, Zenon DEF Update
  <2>2. op[v].key \in Key
    BY <1>0, <1>n, <2>1, Zenon DEF Heard
  <2>3. kind \notin {"request", "issue"}
    BY <2>1
  <2>4. v \in Req \cup {None}
    OBVIOUS
  <2>5. DeskInv' /\ Desk!LineUp(r, kind, op[v].key, v)
    BY <2>1, <2>2, <2>3, <2>4, EnqueueIsLineUp, Zenon
  <2> QED BY <2>2, <2>4, <2>5, Zenon DEF Desk!Next
<1>4. ASSUME NEW r \in Req, FindExisting(r) PROVE DeskInv' /\ [Desk!Next]_(Desk!vars)
  <2>1. PICK v \in VouchersOf(AccountOf[op[r].key]) : Settle(r, "ok", v)
    BY <1>4, Zenon DEF FindExisting
  <2>2. /\ Running(r) /\ phase[r] = "queued" /\ op[r].kind = "request"
        /\ UNCHANGED <<op, nonce, network>>
    BY <1>4, Zenon DEF FindExisting
  <2>3. v \in Vouchers /\ Spender(v) = AccountOf[op[r].key]
    BY <2>1, Zenon DEF VouchersOf
  <2>4. v \in Req /\ OnChain(v)
    <3>1. v \in IssuedNow
      BY <2>3, VouchersAre, Zenon
    <3> QED BY <3>1, VouchersAre, Zenon DEF OnChain
  <2>5. phase[v] # "none" /\ phase[r] # "submitted"
    <3>1. phase[v] \in {"submitted", "ok", "failed"}
      BY <1>0, <2>4, Zenon DEF SignsOnce, OnChain
    <3> QED BY <2>2, <3>1
  <2>6. ~Served
    <3>1. Head(queue) = r
      BY <2>2, Zenon DEF Running
    <3>2. ~OnChain(r)
      <4>1. phase[r] \notin {"submitted", "ok", "failed"}
        BY <2>2
      <4> QED BY <1>0, <4>1, Zenon DEF SignsOnce, OnChain
    <3> QED BY <3>1, <3>2, ReachedIs, Zenon DEF Served, OnChain
  <2>7. <<"ok", v>> \in Desk!Told(r)
    <3>1. v \in {w \in Desk!HeldBy(Desk!Holder(r)) : op[r].kind = "request"}
      BY <2>2, <2>3, Zenon DEF Desk!HeldBy, Desk!Holder, Spender
    <3> QED BY <2>6, <3>1, Zenon DEF Desk!Told, Served
  <2>8. "ok" \in {"ok", "failed"} /\ v \in 0 .. N
    BY <1>n, <2>4, Zenon
  <2>9. DeskInv' /\ Desk!Reply(r)
    BY <2>1, <2>2, <2>5, <2>7, <2>8, SettleIsReply, Zenon
  <2> QED BY <2>9, Zenon DEF Desk!Next
<1>5. ASSUME NEW r \in Req, Prepare(r) PROVE DeskInv' /\ [Desk!Next]_(Desk!vars)
  <2>1. /\ phase[r] = "queued" /\ NoVoucherYet(r)
        /\ phase' = [phase EXCEPT ![r] = "checked"]
        /\ pool' = pool /\ UNCHANGED <<op, result, queue, inFlight, chain>>
    BY <1>5, Zenon DEF Prepare, network
  <2>2. DeskInv' /\ UNCHANGED Desk!vars
    BY <1>q, <2>1, AdvanceStutters, Zenon
  <2> QED BY <2>2, Zenon
<1>6. ASSUME NEW r \in Req, FetchNonce(r) PROVE DeskInv' /\ [Desk!Next]_(Desk!vars)
  <2>1. /\ phase[r] = "checked" /\ phase' = [phase EXCEPT ![r] = "signing"]
        /\ pool' = pool /\ UNCHANGED <<op, result, queue, inFlight, chain>>
    BY <1>6, Zenon DEF FetchNonce, network
  <2>2. "checked" # "queued"
    OBVIOUS
  <2>3. DeskInv' /\ UNCHANGED Desk!vars
    BY <1>q, <2>1, <2>2, AdvanceStutters, Zenon
  <2> QED BY <2>3, Zenon
<1>7. ASSUME NEW r \in Req, SignAndSend(r) PROVE DeskInv' /\ [Desk!Next]_(Desk!vars)
  <2>1. /\ phase[r] = "signing" /\ phase' = [phase EXCEPT ![r] = "submitted"]
        /\ \E n : pool' = pool \cup {[req |-> r, nonce |-> n]}
        /\ UNCHANGED <<op, result, queue, inFlight, chain>>
    BY <1>7, Zenon DEF SignAndSend
  <2>2. "signing" # "queued"
    OBVIOUS
  <2>3. DeskInv' /\ UNCHANGED Desk!vars
    BY <1>q, <2>1, <2>2, AdvanceStutters, Zenon
  <2> QED BY <2>3, Zenon
<1>8. ASSUME NEW r \in Req, InBlockCallback(r) PROVE DeskInv' /\ [Desk!Next]_(Desk!vars)
  <2>1. PICK i \in 1 .. Len(chain) :
          chain[i].req = r /\ Settle(r, Outcome(chain[i])[1], Outcome(chain[i])[2])
    BY <1>8, Zenon DEF InBlockCallback
  <2>2. phase[r] = "submitted" /\ UNCHANGED <<op, nonce, network>>
    BY <1>8, Zenon DEF InBlockCallback
  <2> DEFINE e == chain[i]
  <2>3. e \in Effects /\ e.req = r
    BY <2>1, Zenon DEF Effects
  <2>4. OnChain(r)
    BY <2>3, Zenon DEF OnChain
  <2> HIDE DEF e
  <2>5. Settle(r, Outcome(e)[1], Outcome(e)[2])
    BY <2>1, Zenon DEF e
  <2>6. Running(r)
    BY <1>0, <2>2 DEF HeadOnly
  <2>7. Served <=> e.ok
    <3>1. queue # <<>> /\ Head(queue) = r
      BY <2>6, Zenon DEF Running
    <3>2. Reached(r) <=> e.ok
      <4>1. Reached(r) <=> \E f \in Effects : f.req = r /\ f.ok
        BY ReachedIs, Zenon
      <4> QED BY <1>0, <2>3, <4>1, Zenon DEF SignsOnce
    <3> QED BY <3>1, <3>2, Zenon DEF Served
  <2>8. PICK answer \in {"ok", "failed"}, v \in 0 .. N :
          /\ Outcome(e)[1] = answer /\ Outcome(e)[2] = v
          /\ v # None => v = r
          /\ <<answer, v>> \in Desk!Told(r)
    <3>1. CASE ~e.ok
      <4>1. Outcome(e)[1] = "failed" /\ Outcome(e)[2] = None
        BY <3>1 DEF Outcome
      <4>2. <<"failed", None>> \in Desk!Told(r)
        BY <2>7, <3>1, Zenon DEF Desk!Told, Served
      <4> QED BY <1>n, <4>1, <4>2, Zenon
    <3>2. CASE e.ok /\ op[r].kind \in {"request", "issue"}
      <4>1. Outcome(e)[1] = "ok" /\ Outcome(e)[2] = r
        BY <2>3, <3>2 DEF Outcome
      <4>2. <<"ok", r>> \in Desk!Told(r)
        BY <2>7, <3>2, Zenon DEF Desk!Told, Served
      <4> QED BY <1>n, <4>1, <4>2, Zenon
    <3>3. CASE e.ok /\ op[r].kind \notin {"request", "issue"}
      <4>1. Outcome(e)[1] = "ok" /\ Outcome(e)[2] = None
        BY <2>3, <3>3 DEF Outcome
      <4>2. <<"ok", None>> \in Desk!Told(r)
        BY <2>7, <3>3, Zenon DEF Desk!Told, Served
      <4> QED BY <1>n, <4>1, <4>2, Zenon
    <3> QED BY <3>1, <3>2, <3>3, Zenon
  <2>9. v # None => phase[v] # "none"
    <3>1. "submitted" # "none"
      OBVIOUS
    <3> QED BY <2>2, <2>8, <3>1, Zenon
  <2>10. Settle(r, answer, v)
    BY <2>5, <2>8, Zenon
  <2>11. DeskInv' /\ Desk!Reply(r)
    BY <2>2, <2>4, <2>6, <2>8, <2>9, <2>10, SettleIsReply, Zenon
  <2> QED BY <2>11, Zenon DEF Desk!Next
<1>9. ASSUME NEW r \in Req, Throw(r) PROVE DeskInv' /\ [Desk!Next]_(Desk!vars)
  <2>1. /\ Running(r) /\ phase[r] \in {"queued", "checked"}
        /\ Settle(r, "failed", None) /\ UNCHANGED <<op, nonce, network>>
    BY <1>9, Zenon DEF Throw
  <2>2. phase[r] # "submitted" /\ ~OnChain(r)
    <3>1. phase[r] \notin {"submitted", "ok", "failed"}
      BY <2>1
    <3> QED BY <1>0, <3>1, Zenon DEF SignsOnce, OnChain
  <2>3. ~Served
    <3>1. Head(queue) = r
      BY <2>1, Zenon DEF Running
    <3> QED BY <2>2, <3>1, ReachedIs, Zenon DEF Served, OnChain
  <2>4. <<"failed", None>> \in Desk!Told(r)
    BY <2>3, Zenon DEF Desk!Told, Served
  <2>5. "failed" \in {"ok", "failed"}
    OBVIOUS
  <2>6. DeskInv' /\ Desk!Reply(r)
    BY <1>n, <2>1, <2>2, <2>4, <2>5, SettleIsReply, Zenon
  <2> QED BY <2>6, Zenon DEF Desk!Next
<1>10. ASSUME NEW t \in pool, Include(t) PROVE DeskInv' /\ [Desk!Next]_(Desk!vars)
  <2>1. DeskInv' /\ \E r \in Req : Desk!Serve(r) \/ UNCHANGED Desk!vars
    BY <1>q, <1>10, IncludeIsServe, Zenon
  <2> QED BY <2>1, Zenon DEF Desk!Next
<1>11. ASSUME NEW t \in pool, Drop(t) PROVE DeskInv' /\ [Desk!Next]_(Desk!vars)
  <2>1. UNCHANGED <<op, phase, result, queue, inFlight, chain>> /\ pool' \subseteq pool
    BY <1>11, Zenon DEF Drop, server
  <2> QED BY <1>q, <2>1, NodeStutters, Zenon
<1>12. ASSUME NEW v \in Req, ExpireVoucher(v) PROVE DeskInv' /\ [Desk!Next]_(Desk!vars)
  <2>1. UNCHANGED <<op, phase, result, queue, inFlight, chain>> /\ pool' \subseteq pool
    BY <1>12, Zenon DEF ExpireVoucher, server
  <2> QED BY <1>q, <2>1, NodeStutters, Zenon
<1>13. CASE UNCHANGED vars
  <2>1. UNCHANGED <<op, phase, result, queue, inFlight, chain>> /\ pool' \subseteq pool
    BY <1>13, Zenon DEF vars
  <2> QED BY <1>q, <2>1, NodeStutters, Zenon
<1>14. ~Retract /\ ~Crash
  BY Zenon DEF Steady, Retract, Crash
<1> QED BY <1>1, <1>2, <1>3, <1>4, <1>5, <1>6, <1>7, <1>8, <1>9, <1>10, <1>11, <1>12,
           <1>13, <1>14, Zenon DEF Next, Handlers, Operation

(* An empty server is an empty desk.                                       *)
LEMMA DeskInit == Init => Desk!Init
<1> SUFFICES ASSUME Init PROVE Desk!Init
  OBVIOUS
<1>1. Vouchers = {}
  <2>1. chain = <<>>
    BY Zenon DEF Init
  <2>2. Effects = {}
    <3>1. 1 .. Len(<<>>) = {}
      OBVIOUS
    <3> QED BY <2>1, <3>1, Zenon DEF Effects
  <2>3. \A v : v \notin IssuedNow
    BY <2>2, VouchersAre, Zenon
  <2> QED BY <2>3, VouchersAre, Zenon
<1>2. Answer = [r \in Req |-> "none"]
  BY DEF Answer, Init, Answered
<1>3. Served = FALSE
  BY Zenon DEF Served, Init
<1>4. op = [r \in Req |-> Desk!NoAsk]
  BY Zenon DEF Init, NoOp, Desk!NoAsk
<1> QED BY <1>1, <1>2, <1>3, <1>4, Zenon DEF Init, Desk!Init, Answer, Served

(* As long as the process is not restarted and no block is reverted, the   *)
(* server's clients see a voucher desk: whatever is thrown, dropped or     *)
(* expires, and however awaits of the server interleave with new requests  *)
(* (lib.ts:49-86, 185-255, 308-344).                                       *)
THEOREM ServerIsDesk == Steady => (Spec => ImplementsDesk)
<1> SUFFICES ASSUME Steady PROVE Spec => ImplementsDesk
  OBVIOUS
<1>1. DeskInv /\ [Next]_vars => DeskInv' /\ [Desk!Next]_(Desk!vars)
  BY DeskStep
<1> QED BY <1>1, DeskInvInit, DeskInit, PTL DEF Spec, ImplementsDesk, Desk!Spec

(* The desk again, with what is proved about it. *)
Promises == INSTANCE VoucherDeskProofs WITH
    line <- queue, ask <- op, answer <- Answer, given <- result,
    stored <- Vouchers, done <- Served

(* So the desk's promises are the server's, and its clients can count on   *)
(* them: one voucher for an account on request, and answers that name a    *)
(* voucher of the account that asked (lib.ts:49-60).                       *)
THEOREM KeepsThePromises ==
    Steady => (Spec => [](Promises!OneVoucherPerAccount /\ Promises!AnswersAreTrue))
<1> SUFFICES ASSUME Steady
             PROVE  Spec => [](Promises!OneVoucherPerAccount /\ Promises!AnswersAreTrue)
  OBVIOUS
<1>1. Promises!DeskAssumption
  BY DEF Promises!DeskAssumption, Req, None
<1>2. DeskInv /\ [Next]_vars => DeskInv' /\ [Promises!Next]_(Promises!vars)
  <2>1. [Promises!Next]_(Promises!vars) <=> [Desk!Next]_(Desk!vars)
    BY Zenon DEF Answer, Served,
         Promises!Next, Desk!Next, Promises!Join, Desk!Join, Promises!LineUp,
         Desk!LineUp, Promises!Serve, Desk!Serve, Promises!Reply, Desk!Reply,
         Promises!Asking, Desk!Asking, Promises!Asks, Desk!Asks,
         Promises!MayIssue, Desk!MayIssue, Promises!Told, Desk!Told,
         Promises!Holder, Desk!Holder, Promises!HeldBy, Desk!HeldBy,
         Promises!vars, Desk!vars
  <2> QED BY <2>1, DeskStep, Zenon
<1>3. Init => Promises!Init
  <2>1. Promises!Init <=> Desk!Init
    BY Zenon DEF Answer, Served, Promises!Init, Desk!Init, Promises!NoAsk, Desk!NoAsk
  <2> QED BY <2>1, DeskInit, Zenon
<1>4. Spec => Promises!Spec
  BY <1>2, <1>3, DeskInvInit, PTL DEF Spec, Promises!Spec
<1>5. Promises!Spec => []Promises!OneVoucherPerAccount
  BY <1>1, Promises!OneVoucher
<1>6. Promises!Spec => []Promises!AnswersAreTrue
  BY <1>1, Promises!TrueAnswers
<1> QED BY <1>4, <1>5, <1>6, PTL
=============================================================================
