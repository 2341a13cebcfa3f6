----------------------------- MODULE SendButton -----------------------------
(***************************************************************************)
(* The frontend's ways of sending a message on a click: the button of      *)
(* SwitchSignless ("hello": useSignAndSend and useCheckBalance), the       *)
(* button of VftTransfer ("transfer": useVerifiedSignAndSend) and the hook *)
(* useVftTransfer ("hook": usePrepareProgramTx and useProgramTxMutation).  *)
(* A click starts an attempt; attempts overlap where the code lets them.   *)
(* React Query's useMutation shows the state of the mutation started last  *)
(* and calls the callbacks in its options for every mutation.              *)
(***************************************************************************)
EXTENDS Naturals

CONSTANT MaxClicks  \* bound on the clicks

ASSUME ClicksAssumption == MaxClicks \in Nat \ {0}

VARIABLES
    component,  \* which of the three is on the page
    ready,      \* account, program and API are there; the session is active
    stage,      \* stage[a]: how far attempt a got
    loading,    \* loading of SwitchSignless
    latest,     \* the attempt whose mutation useMutation shows, or 0
    good, bad   \* good[a], bad[a]: what its user was told, alerts or rejections

buttonVars == <<component, ready, stage, loading, latest, good, bad>>

Attempt == 1 .. MaxClicks
Stage == {"none", "preparing", "building", "sending", "responding",
          "lost", "ok", "failed"}
Ended == {"ok", "failed"}
UnderWay(a) == stage[a] \notin Ended \cup {"none"}

ButtonTypeOK ==
    /\ component \in {"hello", "transfer", "hook"}
    /\ ready \in BOOLEAN /\ loading \in BOOLEAN
    /\ stage \in [Attempt -> Stage]
    /\ latest \in Attempt \cup {0}
    /\ good \in [Attempt -> Nat] /\ bad \in [Attempt -> Nat]

ButtonInit ==
    /\ component \in {"hello", "transfer", "hook"}
    /\ ready \in BOOLEAN
    /\ stage = [a \in Attempt |-> "none"]
    /\ loading = FALSE /\ latest = 0
    /\ good = [a \in Attempt |-> 0] /\ bad = [a \in Attempt |-> 0]

(* useMutation's isPending *)
isPending == latest # 0 /\ stage[latest] \in {"sending", "lost"}

(* What disables the button, and what canTransfer says of the hook. *)
Busy == IF component = "hello" THEN loading ELSE isPending

(* Wallet, session or connection come and go. *)
ReadyChanges == ready' = ~ready
                /\ UNCHANGED <<component, stage, loading, latest, good, bad>>

Click(a) == /\ ready /\ ~Busy
            /\ stage[a] = "none" /\ \A b \in 1 .. a - 1 : stage[b] # "none"
            /\ stage' = [stage EXCEPT ![a] = "preparing"]
            /\ loading' = (component = "hello")
            /\ UNCHANGED <<component, ready, latest, good, bad>>

Goes(a, from, to) == stage[a] = from /\ stage' = [stage EXCEPT ![a] = to]

(* The user is told g times of a success and b times of a failure. *)
Tells(a, g, b) == /\ good' = [good EXCEPT ![a] = @ + g]
                  /\ bad' = [bad EXCEPT ![a] = @ + b]

-----------------------------------------------------------------------------
(* handleSendHello, useSignAndSend and useCheckBalance.                    *)

(* Mutant: a finally turns the indicator off after signAndSend was called. *)
LoadingWhileCalled(to) == to \in {"preparing", "building"}

(* Mutant: only onSuccess turns it off. *)
LoadingUntilSuccess(to) == to # "ok"

LoadingUntilEnd(to) == to \notin Ended

Hello(a, from, to, errors) ==
    /\ component = "hello"
    /\ Goes(a, from, to)
    /\ loading' = LoadingUntilEnd(to)
    /\ Tells(a, 0, errors)
    /\ UNCHANGED <<component, ready, latest>>

(* prepareEzTransactionParams resolves; or it rejects or has no session,   *)
(* which the catch only logs.                                              *)
HelloPrepare(a) == Hello(a, "preparing", "building", 0)
                   \/ Hello(a, "preparing", "failed", 0)

(* prepareTransactionAsync resolves and checkBalance decides at once: enough, *)
(* too little (an alert), or no API (none).  Or it rejects.                *)
HelloCheck(a) == \/ Hello(a, "building", "sending", 0)
                 \/ \E alerts \in {0, 1} : Hello(a, "building", "failed", alerts)

(* transaction.signAndSend() and then response(); one catch for both. *)
HelloSend(a) == Hello(a, "sending", "responding", 0) \/ Hello(a, "sending", "failed", 1)

HelloRespond(a) == Hello(a, "responding", "ok", 0) \/ Hello(a, "responding", "failed", 1)

-----------------------------------------------------------------------------
(* onTransfer of VftTransfer and transfer of useVftTransfer.               *)

Mutations == component \in {"transfer", "hook"}

(* Preparing rejects, or resolves without an extrinsic, which the hook     *)
(* leaves to its mutation: told once.                                      *)
PrepareFails(a) ==
    /\ Mutations
    /\ Goes(a, "preparing", "failed")
    /\ Tells(a, 0, 1)
    /\ UNCHANGED <<component, ready, loading, latest>>

(* A failed mutation of VftTransfer is alerted by onError of the options   *)
(* and by the catch of onTransfer.                                         *)
Errors == IF component = "transfer" THEN 2 ELSE 1

(* mutateAsync: from now on useMutation shows this mutation.  That of      *)
(* VftTransfer fails at once without an account or API; that of the hook   *)
(* carries its account with it and fails at once if it is no transaction.  *)
Mutate(a) ==
    /\ Mutations
    /\ latest' = a
    /\ \/ /\ ready \/ component = "hook"
          /\ Goes(a, "preparing", "sending") /\ Tells(a, 0, 0)
       \/ /\ ~ready \/ component = "hook"
          /\ Goes(a, "preparing", "failed") /\ Tells(a, 0, Errors)
    /\ UNCHANGED <<component, ready, loading>>

(* Mutant: callbacks passed to mutate() instead, which React Query drops   *)
(* once another mutation was started.                                      *)
SuccessesIfLatest(a) == IF a = latest THEN 1 ELSE 0

Successes(a) == 1

(* The mutation resolves or rejects, whichever useMutation shows. *)
Settle(a) ==
    /\ Mutations
    /\ \/ Goes(a, "sending", "ok") /\ Tells(a, Successes(a), 0)
       \/ Goes(a, "sending", "failed") /\ Tells(a, 0, Errors)
    /\ UNCHANGED <<component, ready, loading, latest>>

-----------------------------------------------------------------------------
(* The node drops the message: neither promise settles. *)
Lose(a) == /\ \/ component = "hello" /\ (Goes(a, "sending", "lost") \/ Goes(a, "responding", "lost"))
              \/ Mutations /\ Goes(a, "sending", "lost")
           /\ UNCHANGED <<component, ready, loading, latest, good, bad>>

Step(a) == \/ HelloPrepare(a) \/ HelloCheck(a) \/ HelloSend(a) \/ HelloRespond(a)
           \/ PrepareFails(a) \/ Mutate(a) \/ Settle(a)

ButtonNext ==
    \/ ReadyChanges
    \/ \E a \in Attempt : Click(a) \/ Step(a) \/ Lose(a)

ButtonSpec == ButtonInit /\ [][ButtonNext]_buttonVars

(* Promises settle, except that of a lost message. *)
FairButtonSpec == ButtonSpec /\ \A a \in Attempt : WF_buttonVars(Step(a))

-----------------------------------------------------------------------------
(* The button of SwitchSignless is off exactly while an attempt is under   *)
(* way, and then there is only one (SwitchSignless.tsx:142-165, 193).      *)
HelloOneAtATime ==
    component = "hello" =>
        /\ loading <=> \E a \in Attempt : UnderWay(a)
        /\ \A a, b \in Attempt : UnderWay(a) /\ UnderWay(b) => a = b

(* A transfer whose user clicked again while it was prepared is still      *)
(* under way beside the later one: each is told its own outcome, success   *)
(* once, failure at least once, never both (VftTransfer.tsx:62-85).        *)
EachIsToldItsOutcome ==
    Mutations => \A a \in Attempt :
        /\ good[a] = IF stage[a] = "ok" THEN 1 ELSE 0
        /\ bad[a] > 0 <=> stage[a] = "failed"

(* The button comes back however an attempt ends, short of a lost message  *)
(* (SwitchSignless.tsx:157-163, use-check-balance.ts:61, 74, VftTransfer:91). *)
ButtonComesBack == Busy ~> ~Busy \/ \E a \in Attempt : stage[a] = "lost"
=============================================================================
