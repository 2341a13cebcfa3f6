--------------------- MODULE VerifiedSignAndSendProofs ---------------------
(***************************************************************************)
(* A mutation settles on what really happened, for any programs, any set   *)
(* of registered ones and any number of reverted blocks.                   *)
(***************************************************************************)
EXTENDS VerifiedSignAndSend, TLAPS

(* Whoever waits for finality speaks of the finalized block. *)
Awaited(b) == resolveOn = "finalized" => status = "finalized" /\ b = Last

(* The extrinsic is in its last block while it is in one. *)
BlocksCounted == /\ Last <= MaxBlocks
                 /\ status \in {"inBlock", "finalized"} => Last >= 1

(* A status on its way to the callback tells of a block that was there,    *)
(* and finality of the last one.                                           *)
DeliveriesTrue ==
    \A i \in 1 .. Len(deliveries) :
        /\ deliveries[i].block <= Last
        /\ deliveries[i].kind = "finalized" =>
             status = "finalized" /\ deliveries[i].block = Last

(* Replies are awaited only of blocks in which the extrinsic succeeded. *)
ChecksAwaited ==
    \A b \in checks : b <= Last /\ ~blocks[b].failed /\ Awaited(b)

IInv == /\ TypeOK /\ BlocksCounted /\ DeliveriesTrue /\ ChecksAwaited
        /\ ResolvedMeansVerified /\ RejectedHasCause

USE VerifiedAssumption DEF VerifiedAssumption

-----------------------------------------------------------------------------
LEMMA IInvInit == Init => IInv
<1> SUFFICES ASSUME Init PROVE IInv
  OBVIOUS
<1>1. /\ status = "unsent" /\ outcome = "pending" /\ subscribed = FALSE /\ checks = {}
      /\ resolveOn \in {"inBlock", "finalized"}
      /\ blocks \in Seq(Block) /\ Len(blocks) = 0
      /\ deliveries \in Seq(Delivery) /\ Len(deliveries) = 0
  BY DEF Init
<1>2. TypeOK /\ BlocksCounted
  <2>1. TypeOK
    <3>1. checks \in SUBSET (1 .. MaxBlocks)
      BY <1>1
    <3> QED BY <1>1, <3>1 DEF TypeOK
  <2>2. BlocksCounted
    BY <1>1 DEF BlocksCounted, Last
  <2> QED BY <2>1, <2>2
<1>3. DeliveriesTrue /\ ChecksAwaited
  BY <1>1 DEF DeliveriesTrue, ChecksAwaited
<1>4. ResolvedMeansVerified /\ RejectedHasCause
  BY <1>1 DEF ResolvedMeansVerified, RejectedHasCause
<1> QED BY <1>2, <1>3, <1>4 DEF IInv

(* What was verified or failed in some block stays so: blocks are added    *)
(* only, and none after the finalized one.                                 *)
LEMMA VerdictsKept ==
    ASSUME IInv, UNCHANGED <<resolveOn, outcome>>, Len(blocks') \in Nat,
           Len(blocks') >= Len(blocks),
           \A b \in 1 .. Last : blocks'[b] = blocks[b],
           status = "finalized" => status' = "finalized" /\ blocks' = blocks,
           outcome = "rejected" /\ status = "unsent" => status' = "unsent"
    PROVE  ResolvedMeansVerified' /\ RejectedHasCause'
<1>1. TypeOK /\ ResolvedMeansVerified /\ RejectedHasCause
  BY DEF IInv
<1>2. Len(blocks) \in Nat
  BY <1>1 DEF TypeOK
<1>3. \A b \in 1 .. Len(blocks) : b \in 1 .. Len(blocks')
  BY <1>2
<1>4. ResolvedMeansVerified'
  BY <1>1, <1>3 DEF ResolvedMeansVerified, Last, FreeOfErrors
<1>5. RejectedHasCause'
  BY <1>1, <1>3 DEF RejectedHasCause, Last, FreeOfErrors
<1> QED BY <1>4, <1>5

(* Notify adds a status about a block that is there. *)
LEMMA NotifyKept ==
    ASSUME TypeOK, NEW kind \in {"inBlock", "finalized"}, NEW b \in 1 .. MaxBlocks,
           Notify(kind, b)
    PROVE  /\ deliveries' \in Seq(Delivery)
           /\ \A i \in 1 .. Len(deliveries') :
                 \/ i \in 1 .. Len(deliveries) /\ deliveries'[i] = deliveries[i]
                 \/ deliveries'[i] = [kind |-> kind, block |-> b]
<1>1. [kind |-> kind, block |-> b] \in Delivery
  BY DEF Delivery
<1>2. deliveries \in Seq(Delivery)
  BY DEF TypeOK
<1> QED BY <1>1, <1>2 DEF Notify

-----------------------------------------------------------------------------
(* The network's steps. *)

LEMMA IncludeStep ==
    ASSUME IInv, NEW block \in Block, Include(block)
    PROVE  IInv'
<1>1. TypeOK /\ BlocksCounted /\ DeliveriesTrue /\ ChecksAwaited
  BY DEF IInv
<1>2. /\ status = "pool" /\ status' = "inBlock" /\ Last < MaxBlocks
      /\ UNCHANGED <<resolveOn, checks, outcome, subscribed>>
      /\ Last \in Nat /\ Last' = Last + 1 /\ Last + 1 \in 1 .. MaxBlocks
      /\ blocks' \in Seq(Block)
      /\ \A b \in 1 .. Last : blocks'[b] = blocks[b]
  BY <1>1 DEF Include, TypeOK, Last
<1>3. /\ deliveries' \in Seq(Delivery)
      /\ \A i \in 1 .. Len(deliveries') :
            \/ i \in 1 .. Len(deliveries) /\ deliveries'[i] = deliveries[i]
            \/ deliveries'[i] = [kind |-> "inBlock", block |-> Last + 1]
  BY <1>1, <1>2, NotifyKept DEF Include
<1>4. TypeOK' /\ BlocksCounted'
  BY <1>1, <1>2, <1>3 DEF TypeOK, BlocksCounted
<1>5. DeliveriesTrue'
  <2>1. \A i \in 1 .. Len(deliveries) :
           deliveries[i].block \in 1 .. MaxBlocks /\ deliveries[i].kind = "inBlock"
    <3>1. \A i \in 1 .. Len(deliveries) : deliveries[i] \in Delivery
      BY <1>1 DEF TypeOK
    <3>2. \A i \in 1 .. Len(deliveries) : deliveries[i].kind # "finalized"
      BY <1>1, <1>2 DEF DeliveriesTrue
    <3> QED BY <3>1, <3>2 DEF Delivery
  <2> QED BY <1>1, <1>2, <1>3, <2>1 DEF DeliveriesTrue
<1>6. ChecksAwaited'
  BY <1>1, <1>2 DEF TypeOK, ChecksAwaited, Awaited
<1>7. ResolvedMeansVerified' /\ RejectedHasCause'
  BY <1>2, VerdictsKept DEF Last
<1> QED BY <1>4, <1>5, <1>6, <1>7 DEF IInv

LEMMA FinalizeStep == ASSUME IInv, Finalize PROVE IInv'
<1>1. TypeOK /\ BlocksCounted /\ DeliveriesTrue /\ ChecksAwaited
  BY DEF IInv
<1>2. /\ status = "inBlock" /\ status' = "finalized"
      /\ UNCHANGED <<resolveOn, blocks, checks, outcome, subscribed>>
      /\ Last \in 1 .. MaxBlocks /\ Last' = Last
  BY <1>1 DEF Finalize, TypeOK, BlocksCounted, Last
<1>3. /\ deliveries' \in Seq(Delivery)
      /\ \A i \in 1 .. Len(deliveries') :
            \/ i \in 1 .. Len(deliveries) /\ deliveries'[i] = deliveries[i]
            \/ deliveries'[i] = [kind |-> "finalized", block |-> Last]
  BY <1>1, <1>2, NotifyKept DEF Finalize
<1>4. TypeOK' /\ BlocksCounted'
  BY <1>1, <1>2, <1>3 DEF TypeOK, BlocksCounted
<1>5. DeliveriesTrue'
  BY <1>1, <1>2, <1>3 DEF DeliveriesTrue
<1>6. ChecksAwaited'
  BY <1>1, <1>2 DEF ChecksAwaited, Awaited
<1>7. ResolvedMeansVerified' /\ RejectedHasCause'
  <2>1. Len(blocks) \in Nat
    BY <1>1 DEF TypeOK
  <2> QED BY <1>2, <2>1, VerdictsKept
<1> QED BY <1>4, <1>5, <1>6, <1>7 DEF IInv

(* The extrinsic enters the pool, goes back to it or leaves it. *)
LEMMA PoolStep == ASSUME IInv, Submit \/ Retract \/ Vanish PROVE IInv'
<1>1. TypeOK /\ BlocksCounted /\ DeliveriesTrue /\ ChecksAwaited
  BY DEF IInv
<1>2. /\ status # "finalized" /\ status' \in {"pool", "gone"}
      /\ outcome = "rejected" => status # "unsent"
      /\ subscribed' \in BOOLEAN
      /\ UNCHANGED <<resolveOn, blocks, deliveries, checks, outcome>>
  BY <1>1 DEF Submit, Retract, Vanish, TypeOK
<1>3. TypeOK' /\ BlocksCounted'
  BY <1>1, <1>2 DEF TypeOK, BlocksCounted, Last
<1>4. DeliveriesTrue' /\ ChecksAwaited'
  BY <1>1, <1>2 DEF DeliveriesTrue, ChecksAwaited, Awaited, Last
<1>5. ResolvedMeansVerified' /\ RejectedHasCause'
  <2>1. Len(blocks) \in Nat
    BY <1>1 DEF TypeOK
  <2> QED BY <1>2, <2>1, VerdictsKept
<1> QED BY <1>3, <1>4, <1>5 DEF IInv

-----------------------------------------------------------------------------
(* The hook's steps. *)

(* Settling on a verdict some block supports. *)
LEMMA SettleStep ==
    ASSUME IInv, NEW b \in 1 .. Last, Awaited(b), NEW result,
           \/ result = "resolved" /\ FreeOfErrors(blocks[b], Registered)
           \/ result = "rejected" /\ ~FreeOfErrors(blocks[b], Registered),
           SettleOnce(result), checks' \subseteq checks,
           UNCHANGED <<resolveOn, status, blocks>>
    PROVE  IInv'
<1>1. TypeOK /\ BlocksCounted /\ DeliveriesTrue /\ ChecksAwaited
      /\ ResolvedMeansVerified /\ RejectedHasCause
  BY DEF IInv
<1>2. \/ UNCHANGED <<outcome, subscribed, deliveries>>
      \/ outcome' = result /\ subscribed' = FALSE /\ deliveries' = <<>>
  BY DEF SettleOnce
<1>3. TypeOK' /\ BlocksCounted'
  <2>1. outcome' \in {"pending", "resolved", "rejected"} /\ subscribed' \in BOOLEAN
    BY <1>1, <1>2 DEF TypeOK
  <2>2. checks' \in SUBSET (1 .. MaxBlocks)
    BY <1>1 DEF TypeOK
  <2>3. deliveries' \in Seq(Delivery)
    <3>1. deliveries' = deliveries \/ deliveries' = <<>>
      BY <1>2
    <3>2. deliveries \in Seq(Delivery) /\ <<>> \in Seq(Delivery)
      BY <1>1 DEF TypeOK
    <3> QED BY <3>1, <3>2
  <2> QED BY <1>1, <2>1, <2>2, <2>3 DEF TypeOK, BlocksCounted, Last
<1>4. DeliveriesTrue' /\ ChecksAwaited'
  BY <1>1, <1>2 DEF DeliveriesTrue, ChecksAwaited, Awaited, Last
<1>5. ResolvedMeansVerified' /\ RejectedHasCause'
  BY <1>1, <1>2 DEF ResolvedMeansVerified, RejectedHasCause, Awaited, FreeOfErrors, Last
<1> QED BY <1>3, <1>4, <1>5 DEF IInv

(* The wallet or the node refuses: nothing was sent. *)
LEMMA ThrowStep == ASSUME IInv, SubmitThrows PROVE IInv'
<1>1. TypeOK /\ BlocksCounted /\ DeliveriesTrue /\ ChecksAwaited
  BY DEF IInv
<1>2. /\ status = "unsent" /\ outcome' = "rejected" /\ subscribed' = FALSE
      /\ deliveries' \in Seq(Delivery) /\ Len(deliveries') = 0
      /\ UNCHANGED <<resolveOn, status, blocks, checks>>
  BY DEF SubmitThrows, SettleOnce
<1>3. TypeOK' /\ BlocksCounted'
  BY <1>1, <1>2 DEF TypeOK, BlocksCounted, Last
<1>4. DeliveriesTrue' /\ ChecksAwaited'
  BY <1>1, <1>2 DEF DeliveriesTrue, ChecksAwaited, Awaited, Last
<1>5. ResolvedMeansVerified' /\ RejectedHasCause'
  BY <1>2 DEF ResolvedMeansVerified, RejectedHasCause
<1> QED BY <1>3, <1>4, <1>5 DEF IInv

LEMMA CallbackStep == ASSUME IInv, StatusCallback PROVE IInv'
<1> DEFINE d == Head(deliveries)
<1>1. TypeOK /\ BlocksCounted /\ DeliveriesTrue /\ ChecksAwaited
  BY DEF IInv
<1>2. /\ deliveries # <<>> /\ d \in Delivery /\ d = deliveries[1]
      /\ Len(deliveries) \in Nat \ {0}
      /\ Tail(deliveries) \in Seq(Delivery)
      /\ Len(Tail(deliveries)) = Len(deliveries) - 1
      /\ \A i \in 1 .. Len(Tail(deliveries)) :
            Tail(deliveries)[i] = deliveries[i + 1] /\ i + 1 \in 1 .. Len(deliveries)
      /\ UNCHANGED <<resolveOn, status, blocks>>
  BY <1>1 DEF StatusCallback, TypeOK
<1>3. /\ Len(blocks) \in Nat
      /\ d.block \in 1 .. Last
      /\ d.kind = "finalized" => status = "finalized" /\ d.block = Last
  BY <1>1, <1>2 DEF TypeOK, Delivery, DeliveriesTrue, Last
<1> HIDE DEF d
<1>4. ASSUME deliveries' = Tail(deliveries), UNCHANGED <<outcome, subscribed>>,
             checks' \subseteq checks \cup {d.block},
             d.block \in checks' => /\ d.block \in checks \/ ShouldResolve(d.kind)
                                    /\ d.block \in checks \/ ~blocks[d.block].failed
      PROVE  IInv'
  <2>1. TypeOK' /\ BlocksCounted'
    BY <1>1, <1>2, <1>3, <1>4 DEF TypeOK, BlocksCounted, Delivery, Last
  <2>2. DeliveriesTrue'
    BY <1>1, <1>2, <1>4 DEF DeliveriesTrue, Last
  <2>3. ChecksAwaited'
    BY <1>1, <1>2, <1>3, <1>4 DEF ChecksAwaited, Awaited, ShouldResolve, Last
  <2>4. ResolvedMeansVerified' /\ RejectedHasCause'
    BY <1>2, <1>3, <1>4, VerdictsKept
  <2> QED BY <2>1, <2>2, <2>3, <2>4 DEF IInv
<1>5. CASE ~ShouldResolve(d.kind)
  BY <1>4, <1>5 DEF StatusCallback, d
<1>6. CASE ShouldResolve(d.kind) /\ blocks[d.block].failed
  <2>1. SettleOnce("rejected") /\ UNCHANGED checks
    BY <1>6 DEF StatusCallback, d
  <2>2. Awaited(d.block)
    BY <1>3, <1>6 DEF Awaited, ShouldResolve
  <2>3. ~FreeOfErrors(blocks[d.block], Registered)
    BY <1>6 DEF FreeOfErrors
  <2> QED BY <1>2, <1>3, <2>1, <2>2, <2>3, SettleStep
<1>7. CASE ShouldResolve(d.kind) /\ ~blocks[d.block].failed
  BY <1>4, <1>7 DEF StatusCallback, d
<1> QED BY <1>5, <1>6, <1>7

LEMMA CheckStep ==
    ASSUME IInv, NEW b \in 1 .. MaxBlocks, CheckResolves(b) \/ CheckRejects(b)
    PROVE  IInv'
<1>1. b \in checks /\ checks' \subseteq checks /\ UNCHANGED <<resolveOn, status, blocks>>
  BY DEF CheckResolves, CheckRejects
<1>2. b \in 1 .. Last /\ ~blocks[b].failed /\ Awaited(b)
  <2>1. b <= Last /\ ~blocks[b].failed /\ Awaited(b)
    BY <1>1 DEF IInv, ChecksAwaited
  <2>2. Last \in Nat
    BY DEF IInv, TypeOK, Last
  <2> QED BY <2>1, <2>2
<1>3. CASE CheckResolves(b)
  <2>1. FreeOfErrors(blocks[b], Registered)
    <3>1. blocks[b] \in Block
      BY <1>2 DEF IInv, TypeOK, Last
    <3>2. \A p \in Registered : blocks[b].replies[p] \in Reply
      BY <3>1 DEF Block
    <3>3. \A p \in Registered : blocks[b].replies[p] \notin {"error", "unreadable"}
      BY <1>3 DEF CheckResolves, Decoded, Thrown
    <3>4. \A p \in Registered : blocks[b].replies[p] \in {"none", "ok"}
      BY <3>2, <3>3 DEF Reply
    <3> QED BY <1>2, <3>4 DEF FreeOfErrors
  <2> QED BY <1>1, <1>2, <1>3, <2>1, SettleStep DEF CheckResolves
<1>4. CASE CheckRejects(b)
  <2>1. ~FreeOfErrors(blocks[b], Registered)
    BY <1>4 DEF CheckRejects, Decoded, Thrown, FreeOfErrors
  <2> QED BY <1>1, <1>2, <1>4, <2>1, SettleStep DEF CheckRejects
<1> QED BY <1>3, <1>4

LEMMA IInvStep == IInv /\ [Next]_vars => IInv'
<1> SUFFICES ASSUME IInv, [Next]_vars PROVE IInv'
  OBVIOUS
<1>1. CASE UNCHANGED vars
  BY <1>1 DEF vars, IInv, TypeOK, BlocksCounted, DeliveriesTrue, ChecksAwaited,
              Awaited, ResolvedMeansVerified, RejectedHasCause, Last
<1> QED BY <1>1, PoolStep, ThrowStep, IncludeStep, FinalizeStep, CallbackStep,
           CheckStep DEF Next

LEMMA Inductive == Spec => []IInv
  BY IInvInit, IInvStep, PTL DEF Spec

-----------------------------------------------------------------------------
(* Deliveries and checks name blocks there are. *)
THEOREM TypeCorrect == Spec => []TypeOK
<1>1. IInv => TypeOK
  BY DEF IInv
<1> QED BY Inductive, <1>1, PTL

(* A mutation that resolves was verified in the block it waited for,       *)
(* however many blocks were reverted and whichever check came back first   *)
(* (useVerifiedSignAndSend.ts:86-160).                                     *)
THEOREM ResolvedVerified == Spec => []ResolvedMeansVerified
<1>1. IInv => ResolvedMeansVerified
  BY DEF IInv
<1> QED BY Inductive, <1>1, PTL

(* A mutation that rejects after it was sent has a cause in the block it   *)
(* waited for: a failed extrinsic, an error reply, or a reply that could   *)
(* not be read (useVerifiedSignAndSend.ts:86-160).                         *)
THEOREM RejectedForCause == Spec => []RejectedHasCause
<1>1. IInv => RejectedHasCause
  BY DEF IInv
<1> QED BY Inductive, <1>1, PTL
=============================================================================
