--------------------------- MODULE SwitchSignless ---------------------------
(***************************************************************************)
(* frontend/patterns/ez-transactions: the component SwitchSignless asks    *)
(* the gasless server for a voucher in an effect.  Effects run when one of *)
(* their dependencies changes; what they start goes on while accounts      *)
(* change, and sees the values of the render it was started in.  The       *)
(* library gear-ez-transactions is not part of the repository: what it     *)
(* shows (isEnabled, voucherStatus) changes when it likes.  The component's*)
(* button is in SendButton, the server's side in Onboarding.               *)
(***************************************************************************)
EXTENDS Integers, FiniteSets

CONSTANTS
    Account,     \* accounts of the wallet
    None,        \* no account is connected
    MaxChanges,  \* bound on the changes of account and of isEnabled
    Retries      \* polls after a request: 5, fewer in the runs

ASSUME SwitchAssumption == /\ None \notin Account
                           /\ MaxChanges \in Nat
                           /\ Retries \in Nat \ {0}

VARIABLES
    mounted,  \* have the effects run for the first time?
    account,  \* the connected account, or None
    enabled,  \* gasless.isEnabled
    status,   \* gasless.voucherStatus?.enabled
    changes,  \* changes of account and of isEnabled so far
    ref,      \* hasRequestedOnceRef.current
    pending,  \* voucherPending
    runs,     \* invocations of requestVoucherSafely under way
    started,  \* vouchers requested since the account changed last
    failed    \* requests that failed since the account changed last

library == <<mounted, account, enabled, status, changes>>
effects == <<ref, pending, runs, started, failed>>
vars == <<library, effects>>

Invocation == [id : Nat,            \* the change that started it
               account : Account,   \* account.address in its closure
               left : 1 .. Retries, \* polls left
               answered : BOOLEAN]  \* has requestVoucher resolved?

(* The types of the component's state; an invocation is gone after its last *)
(* poll (SwitchSignless.tsx:104), and no two come from one change.          *)
TypeOK == /\ {mounted, enabled, status, ref, pending} \subseteq BOOLEAN
          /\ account \in Account \cup {None}
          /\ changes \in 0 .. MaxChanges
          /\ runs \subseteq Invocation
          /\ \A i, j \in runs : i.id = j.id => i = j
          /\ started \in Nat /\ failed \in Nat

Init == /\ mounted = FALSE
        /\ account \in Account \cup {None}
        /\ enabled \in BOOLEAN /\ status \in BOOLEAN
        /\ changes = 0
        /\ ref = FALSE /\ pending = FALSE /\ runs = {}
        /\ started = 0 /\ failed = 0

-----------------------------------------------------------------------------
(* The effects.                                                            *)

(* Mutant: the ref is not set. *)
RefUnmarked(done, asks) == done

RefAfter(done, asks) == done \/ asks

(* The effect with the request, run after a render: done is the ref it     *)
(* finds, before the number of requests so far.  It skips a request when   *)
(* the voucher is active, and then turns the indicator off at once.        *)
RequestEffect(done, before) ==
    LET asks == account' # None /\ enabled' /\ ~done
    IN  /\ ref' = RefAfter(done, asks)
        /\ \/ /\ asks /\ ~status'
              /\ pending' = TRUE
              /\ runs' = runs \cup {[id |-> changes', account |-> account',
                                     left |-> Retries, answered |-> FALSE]}
              /\ started' = before + 1
           \/ /\ ~(asks /\ ~status')
              /\ pending' = (pending /\ ~asks)
              /\ runs' = runs /\ started' = before

(* Both effects run at mount and when the account changes, the reset first. *)
Mount == /\ ~mounted /\ mounted' = TRUE
         /\ UNCHANGED <<account, enabled, status, changes, failed>>
         /\ RequestEffect(FALSE, 0)

(* Mutant: the effect on account?.address that resets the ref is missing. *)
RefKept == ref

RefReset == FALSE

AccountChanges == /\ mounted /\ changes < MaxChanges
                  /\ changes' = changes + 1
                  /\ account' \in (Account \cup {None}) \ {account}
                  /\ enabled' \in BOOLEAN /\ status' \in BOOLEAN
                  /\ failed' = 0
                  /\ UNCHANGED mounted
                  /\ RequestEffect(RefReset, 0)

(* isEnabled is a dependency of the second effect only. *)
EnabledChanges == /\ mounted /\ changes < MaxChanges
                  /\ changes' = changes + 1
                  /\ enabled' = ~enabled /\ status' \in BOOLEAN
                  /\ UNCHANGED <<mounted, account, failed>>
                  /\ RequestEffect(ref, started)

(* voucherStatus is a dependency of no effect. *)
StatusChanges == /\ status' = ~status
                 /\ UNCHANGED <<mounted, account, enabled, changes, effects>>

-----------------------------------------------------------------------------
(* requestVoucherSafely after its first await.                             *)

RequestResolves(i) == /\ ~i.answered
                      /\ runs' = (runs \ {i}) \cup {[i EXCEPT !.answered = TRUE]}
                      /\ UNCHANGED <<library, ref, pending, started, failed>>

(* The catch resets the ref, whichever account it now stands for. *)
RequestFails(i) == /\ ~i.answered
                   /\ runs' = runs \ {i}
                   /\ ref' = FALSE /\ pending' = FALSE
                   /\ failed' = failed + 1
                   /\ UNCHANGED <<library, started>>

(* Mutant: the last poll forgets to turn the indicator off. *)
IndicatorKept(i) == pending

IndicatorAfterPoll(i) == pending /\ i.left > 1

(* A poll looks at the status of the render that started it, which was not *)
(* enabled, so only the last poll ends the loop.                           *)
Poll(i) ==
    /\ i.answered
    /\ runs' = (runs \ {i}) \cup
               (IF i.left > 1 THEN {[i EXCEPT !.left = @ - 1]} ELSE {})
    /\ pending' = IndicatorAfterPoll(i)
    /\ UNCHANGED <<library, ref, started, failed>>

-----------------------------------------------------------------------------
Next == \/ Mount \/ AccountChanges \/ EnabledChanges \/ StatusChanges
        \/ \E i \in runs : RequestResolves(i) \/ RequestFails(i) \/ Poll(i)

Spec == Init /\ [][Next]_vars

-----------------------------------------------------------------------------
(* An account that stays connected is asked for again only after a request *)
(* has failed meanwhile, and while gasless mode is on it is dealt with: it *)
(* was asked for, or found active, or a request failed.  So the ref works, *)
(* although effects and requests of earlier accounts write it too          *)
(* (SwitchSignless.tsx:70, 74, 88, 119).                                   *)
AskedOnceUnlessFailed ==
    /\ started <= 1 + failed
    /\ mounted /\ account # None /\ enabled => ref \/ failed > 0
=============================================================================
