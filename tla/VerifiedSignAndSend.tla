------------------------ MODULE VerifiedSignAndSend ------------------------
(***************************************************************************)
(* The React hook useVerifiedSignAndSend: one mutation signs and sends an  *)
(* extrinsic, follows its statuses, and settles once the replies of the    *)
(* programs it called are known.  A block that included the extrinsic may  *)
(* be reverted and the extrinsic included again, with another outcome;     *)
(* every inclusion starts a check of its own.  Statuses reach the callback *)
(* later than they happen, in order.                                       *)
(***************************************************************************)
EXTENDS Integers, Sequences

CONSTANTS
    Program,     \* programs the extrinsic may send messages to
    Registered,  \* those in the hook's `programs` option
    MaxBlocks,   \* bound on the inclusions
    MayVanish    \* may the pool report Invalid, Dropped or Usurped?

ASSUME VerifiedAssumption == /\ Registered \subseteq Program
                             /\ MaxBlocks \in Nat \ {0}
                             /\ MayVanish \in BOOLEAN

VARIABLES
    resolveOn,   \* the option: "inBlock" or "finalized"
    status,      \* where the extrinsic is
    blocks,      \* what happened to it in each block that included it
    deliveries,  \* statuses the callback has not seen yet
    checks,      \* blocks whose checkErrorReplies is under way
    outcome,     \* of the mutation's promise
    subscribed   \* is the status subscription open?

vars == <<resolveOn, status, blocks, deliveries, checks, outcome, subscribed>>

-----------------------------------------------------------------------------
(* How checkErrorReplies finds the reply: none when the program was sent   *)
(* no message, unreadable when getReplyEvent rejects (no event, no         *)
(* connection) or the payload cannot be decoded.                           *)
Reply == {"none", "ok", "error", "unreadable"}
Block == [failed : BOOLEAN, replies : [Program -> Reply]]
Delivery == [kind : {"inBlock", "finalized"}, block : 1 .. MaxBlocks]

TypeOK == /\ resolveOn \in {"inBlock", "finalized"}
          /\ status \in {"unsent", "pool", "inBlock", "finalized", "gone"}
          /\ blocks \in Seq(Block)
          /\ deliveries \in Seq(Delivery)
          /\ checks \in SUBSET (1 .. MaxBlocks)
          /\ outcome \in {"pending", "resolved", "rejected"}
          /\ subscribed \in BOOLEAN

Init == /\ resolveOn \in {"inBlock", "finalized"}
        /\ status = "unsent"
        /\ blocks = <<>>
        /\ deliveries = <<>>
        /\ checks = {}
        /\ outcome = "pending"
        /\ subscribed = FALSE

(* The block that includes the extrinsic while it is included. *)
Last == Len(blocks)

-----------------------------------------------------------------------------
(* Settling.  submit() has wrapped resolve and reject by the time a status *)
(* arrives, so settling also closes the subscription.                      *)

SettleOnce(result) ==
    IF outcome = "pending"
    THEN outcome' = result /\ subscribed' = FALSE /\ deliveries' = <<>>
    ELSE UNCHANGED <<outcome, subscribed, deliveries>>

Submit == /\ status = "unsent" /\ outcome = "pending"
          /\ status' = "pool"
          /\ subscribed' = TRUE
          /\ UNCHANGED <<resolveOn, blocks, deliveries, checks, outcome>>

(* No api, no account, the wallet or the node refuses: signAndSend throws. *)
SubmitThrows == /\ status = "unsent" /\ outcome = "pending"
                /\ SettleOnce("rejected")
                /\ UNCHANGED <<resolveOn, status, blocks, checks>>

-----------------------------------------------------------------------------
(* The network.                                                            *)

Notify(kind, b) ==
    deliveries' = IF subscribed
                  THEN Append(deliveries, [kind |-> kind, block |-> b])
                  ELSE deliveries

Include(block) ==
    /\ status = "pool"
    /\ Last < MaxBlocks
    /\ block.failed => block.replies = [p \in Program |-> "none"]
    /\ status' = "inBlock"
    /\ blocks' = Append(blocks, block)
    /\ Notify("inBlock", Last + 1)
    /\ UNCHANGED <<resolveOn, checks, outcome, subscribed>>

Retract == /\ status = "inBlock"
           /\ Last < MaxBlocks
           /\ status' = "pool"
           /\ UNCHANGED <<resolveOn, blocks, deliveries, checks, outcome, subscribed>>

Finalize == /\ status = "inBlock"
            /\ status' = "finalized"
            /\ Notify("finalized", Last)
            /\ UNCHANGED <<resolveOn, blocks, checks, outcome, subscribed>>

(* Invalid, Dropped, Usurped: statuses that statusCallback returns from. *)
Vanish == /\ MayVanish
          /\ status = "pool"
          /\ status' = "gone"
          /\ UNCHANGED <<resolveOn, blocks, deliveries, checks, outcome, subscribed>>

-----------------------------------------------------------------------------
(* Mutant: any of the two statuses will do. *)
ShouldResolveOnAny(kind) == TRUE

ShouldResolve(kind) == kind = resolveOn

(* statusCallback for the next status; the check awaits the replies. *)
StatusCallback ==
    /\ deliveries # <<>>
    /\ LET d == Head(deliveries)
       IN  CASE ~ShouldResolve(d.kind) ->
                  /\ deliveries' = Tail(deliveries)
                  /\ UNCHANGED <<checks, outcome, subscribed>>
             [] ShouldResolve(d.kind) /\ blocks[d.block].failed ->
                  SettleOnce("rejected") /\ UNCHANGED checks
             [] OTHER ->
                  /\ deliveries' = Tail(deliveries)
                  /\ checks' = checks \cup {d.block}
                  /\ UNCHANGED <<outcome, subscribed>>
    /\ UNCHANGED <<resolveOn, status, blocks>>

(* Mutant: the replies are not looked at. *)
DecodedNothing(b) == {}

(* The replies checkErrorReplies looks for: those of registered programs.  *)
(* One that is an error or that it cannot read makes it throw.             *)
Decoded(b) == {blocks[b].replies[p] : p \in Registered}
Thrown(replies) == replies \cap {"error", "unreadable"} # {}

CheckResolves(b) ==
    /\ b \in checks
    /\ ~Thrown(Decoded(b))
    /\ checks' = checks \ {b}
    /\ SettleOnce("resolved")
    /\ UNCHANGED <<resolveOn, status, blocks>>

(* Mutant: no catch, a check that throws gives no verdict. *)
CheckWithoutCatch(b) ==
    /\ b \in checks
    /\ Thrown(Decoded(b))
    /\ checks' = checks \ {b}
    /\ UNCHANGED <<resolveOn, status, blocks, deliveries, outcome, subscribed>>

CheckRejects(b) ==
    /\ b \in checks
    /\ Thrown(Decoded(b))
    /\ checks' = checks \ {b}
    /\ SettleOnce("rejected")
    /\ UNCHANGED <<resolveOn, status, blocks>>

-----------------------------------------------------------------------------
Next == \/ Submit \/ SubmitThrows
        \/ \E block \in Block : Include(block)
        \/ Retract \/ Finalize \/ Vanish
        \/ StatusCallback
        \/ \E b \in 1 .. MaxBlocks : CheckResolves(b) \/ CheckRejects(b)

Spec == Init /\ [][Next]_vars

(* The browser runs its callbacks, the chain includes and finalizes what   *)
(* stays in its pool, and programs reply; nobody promises that the reply   *)
(* to a message of a reverted block is ever found.                         *)
FairSpec == /\ Spec
            /\ WF_vars(Submit \/ SubmitThrows)
            /\ WF_vars(\E block \in Block : Include(block))
            /\ WF_vars(Finalize)
            /\ WF_vars(StatusCallback)
            /\ \A b \in 1 .. MaxBlocks :
                 WF_vars(/\ b = Last /\ status # "pool"
                         /\ CheckResolves(b) \/ CheckRejects(b))

-----------------------------------------------------------------------------
(* Properties.                                                             *)

FreeOfErrors(block, programs) ==
    ~block.failed /\ \A p \in programs : block.replies[p] \in {"none", "ok"}

(* A mutation that resolves was verified: in a block that included it, the *)
(* finalized one if that was asked for, the extrinsic did not fail and the *)
(* reply of every registered program it called was read and is no error.   *)
ResolvedMeansVerified ==
    outcome = "resolved" =>
        \E b \in 1 .. Last :
            /\ FreeOfErrors(blocks[b], Registered)
            /\ resolveOn = "finalized" => status = "finalized" /\ b = Last

(* A mutation that rejects after it was submitted has a cause in a block   *)
(* that included it, the finalized one if that was asked for: the          *)
(* extrinsic failed, or a registered program's reply is an error or could  *)
(* not be read.  With the last the transaction itself may have succeeded.  *)
RejectedHasCause ==
    (outcome = "rejected" /\ status # "unsent") =>
        \E b \in 1 .. Last :
            /\ ~FreeOfErrors(blocks[b], Registered)
            /\ resolveOn = "finalized" => status = "finalized" /\ b = Last

(* Every mutation settles, through any number of reverted blocks, unless   *)
(* the pool drops its extrinsic.                                           *)
SettlesUnlessDropped == <>(outcome # "pending" \/ status = "gone")
=============================================================================
