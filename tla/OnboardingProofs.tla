-------------------------- MODULE OnboardingProofs --------------------------
(***************************************************************************)
(* The ref of SwitchSignless counts: it is set exactly by the request that *)
(* has not been paid for by a failure yet.  What SwitchSignless and        *)
(* VoucherDesk promise each for itself then holds of the two together:     *)
(* every joint step is a step, or no step, of either.                      *)
(***************************************************************************)
EXTENDS Onboarding, TLAPS

Counters == started \in Nat /\ failed \in Nat /\ ref \in BOOLEAN

(* A clear ref means that as many requests have failed as were started. *)
RefCounts == /\ ref => started <= 1 + failed
             /\ ~ref => started <= failed

DealtWith == mounted /\ account # None /\ enabled => ref \/ failed > 0

IInv == Counters /\ RefCounts /\ DealtWith

-----------------------------------------------------------------------------
(* What the request effect leaves behind: it counts its request by the ref, *)
(* and a connected account with gasless mode on leaves the ref set          *)
(* (SwitchSignless.tsx:84-100).                                             *)
LEMMA EffectCounts ==
    ASSUME NEW marked \in BOOLEAN, NEW before \in Nat, RequestEffect(marked, before)
    PROVE  /\ ref' \in BOOLEAN
           /\ started' \in Nat
           /\ ref' \/ (~marked /\ started' = before)
           /\ marked => ref' /\ started' = before
           /\ started' <= before + 1
           /\ account' # None /\ enabled' => ref'
<1> DEFINE asks == account' # None /\ enabled' /\ ~marked
<1>1. ref' = (marked \/ asks)
  BY Zenon DEF RequestEffect, RefAfter
<1>2. started' = before \/ (asks /\ started' = before + 1)
  BY Zenon DEF RequestEffect
<1>3. ref' \in BOOLEAN /\ (account' # None /\ enabled' => ref')
  BY <1>1, Zenon
<1>4. asks => ref' /\ ~marked
  BY <1>1, Zenon
<1>5. marked => ref'
  BY <1>1, Zenon
<1>6. started' \in Nat /\ started' <= before + 1
  <2> HIDE DEF asks
  <2> QED BY <1>2
<1>7. CASE asks
  BY <1>3, <1>4, <1>6, <1>7, Zenon
<1>8. CASE ~asks
  <2>1. started' = before
    BY <1>2, <1>8, Zenon
  <2> QED BY <2>1, <1>3, <1>5, <1>6, Zenon
<1> QED BY <1>7, <1>8, Zenon

(* The renders whose effects run: a change of account starts from zero,    *)
(* a change of isEnabled from the ref as it stands (lines 72-75, 125).     *)
LEMMA EffectKeepsCount ==
    ASSUME NEW marked \in BOOLEAN, NEW before \in Nat, RequestEffect(marked, before),
           failed' \in Nat,
           marked => before <= 1 + failed',
           ~marked => before <= failed'
    PROVE  IInv'
<1>1. /\ ref' \in BOOLEAN
      /\ started' \in Nat
      /\ ref' \/ (~marked /\ started' = before)
      /\ marked => ref' /\ started' = before
      /\ started' <= before + 1
      /\ account' # None /\ enabled' => ref'
  BY EffectCounts, Zenon
<1>2. Counters'
  BY <1>1, Zenon DEF Counters
<1>3. started' <= 1 + failed'
  <2>1. CASE marked
    <3>1. before <= 1 + failed' /\ started' = before
      BY <1>1, <2>1, Zenon
    <3> QED BY <3>1
  <2>2. CASE ~marked
    <3>1. before <= failed' /\ started' <= before + 1 /\ started' \in Nat
      BY <1>1, <2>2, Zenon
    <3>2. \A b, f, s \in Nat : b <= f /\ s <= b + 1 => s <= 1 + f
      OBVIOUS
    <3> QED BY <3>1, <3>2, Zenon
  <2> QED BY <2>1, <2>2, Zenon
<1>4. ~ref' => started' <= failed'
  BY <1>1, Zenon
<1> QED BY <1>1, <1>2, <1>3, <1>4, Zenon DEF IInv, RefCounts, DealtWith

(* Nothing was asked for and nothing failed before the mount. *)
LEMMA IInvInit == Init => IInv
<1> SUFFICES ASSUME Init PROVE IInv
  OBVIOUS
<1>1. mounted = FALSE /\ ref = FALSE /\ started = 0 /\ failed = 0
  BY Zenon DEF Init
<1>2. started <= failed /\ started \in Nat /\ failed \in Nat
  BY <1>1
<1> QED BY <1>1, <1>2, Zenon DEF IInv, Counters, RefCounts, DealtWith

(* Every step keeps the count: renders through EffectKeepsCount, a failure *)
(* by clearing the ref as it adds one (SwitchSignless.tsx:119).            *)
LEMMA IInvStep == IInv /\ [Next]_vars => IInv'
<1> SUFFICES ASSUME IInv, [Next]_vars PROVE IInv'
  OBVIOUS
<1>0. /\ started \in Nat /\ failed \in Nat /\ ref \in BOOLEAN
      /\ started <= 1 + failed
      /\ ~ref => started <= failed
  <2>1. started \in Nat /\ failed \in Nat /\ ref \in BOOLEAN
    BY Zenon DEF IInv, Counters
  <2>2. CASE ref
    BY <2>1, <2>2, Zenon DEF IInv, RefCounts
  <2>3. CASE ~ref
    <3>1. started <= failed
      BY <2>3, Zenon DEF IInv, RefCounts
    <3>2. started <= 1 + failed
      BY <2>1, <3>1
    <3> QED BY <2>1, <3>1, <3>2, Zenon
  <2> QED BY <2>2, <2>3, Zenon
<1>1. CASE Mount
  <2>1. RequestEffect(FALSE, 0) /\ failed' = failed
    BY <1>1, Zenon DEF Mount
  <2>2. 0 \in Nat /\ failed' \in Nat /\ 0 <= 1 + failed' /\ 0 <= failed'
    BY <1>0, <2>1
  <2> QED BY <2>1, <2>2, EffectKeepsCount, Zenon
<1>2. CASE AccountChanges
  <2>1. RequestEffect(FALSE, 0) /\ failed' = 0
    BY <1>2, Zenon DEF AccountChanges, RefReset
  <2>2. 0 \in Nat /\ failed' \in Nat /\ 0 <= 1 + failed' /\ 0 <= failed'
    BY <2>1
  <2> QED BY <2>1, <2>2, EffectKeepsCount, Zenon
<1>3. CASE EnabledChanges
  <2>1. RequestEffect(ref, started) /\ failed' = failed
    BY <1>3, Zenon DEF EnabledChanges
  <2> QED BY <1>0, <2>1, EffectKeepsCount, Zenon
<1>4. ASSUME NEW i \in runs, RequestFails(i) PROVE IInv'
  <2>1. ref' = FALSE /\ failed' = failed + 1 /\ started' = started
    BY <1>4, Zenon DEF RequestFails
  <2>2. failed' \in Nat /\ started' \in Nat /\ started' <= failed' /\ failed' > 0
    BY <1>0, <2>1
  <2> QED BY <2>1, <2>2, Zenon DEF IInv, Counters, RefCounts, DealtWith
(* Everything else leaves what the invariant speaks of alone. *)
<1>5. SUFFICES ASSUME UNCHANGED <<ref, started, failed, mounted, account, enabled>>
               PROVE  IInv'
  <2>1. CASE StatusChanges
    BY <1>5, <2>1, Zenon DEF StatusChanges, effects
  <2>2. ASSUME NEW i \in runs, RequestResolves(i) \/ Poll(i) PROVE IInv'
    BY <1>5, <2>2, Zenon DEF RequestResolves, Poll, library
  <2>3. CASE UNCHANGED vars
    BY <1>5, <2>3, Zenon DEF vars, library, effects
  <2> QED BY <1>1, <1>2, <1>3, <1>4, <2>1, <2>2, <2>3, Zenon DEF Next
<1> QED BY <1>5, Zenon DEF IInv, Counters, RefCounts, DealtWith

(* The voucher of a connected account is asked for once, and again only    *)
(* after a failure, for any accounts, polls and changes                    *)
(* (SwitchSignless.tsx:67-70).                                             *)
THEOREM AskedOnce == Spec => []AskedOnceUnlessFailed
<1>1. IInv => AskedOnceUnlessFailed
  BY DEF IInv, Counters, RefCounts, DealtWith, AskedOnceUnlessFailed
<1> QED BY <1>1, IInvInit, IInvStep, PTL DEF Spec

-----------------------------------------------------------------------------
(* The two together.                                                       *)

DeskProofs == INSTANCE VoucherDeskProofs WITH
    Req <- 0 .. MaxChanges,
    Key <- Account,
    AccountOf <- [a \in Account |-> a],
    Kinds <- {"request"}

(* A joint step is one of the component's, or leaves it alone              *)
(* (SwitchSignless.tsx:72-125).                                            *)
LEMMA ComponentStep == [JointNext]_jointVars => [Next]_vars
<1> SUFFICES ASSUME [JointNext]_jointVars PROVE [Next]_vars
  OBVIOUS
<1>1. CASE Render
  BY <1>1 DEF Render, Next
<1>2. ASSUME NEW m \in mail, Deliver(m) PROVE [Next]_vars
  BY <1>2 DEF Deliver
<1>3. ASSUME NEW r \in 0 .. MaxChanges, Serves(r) PROVE [Next]_vars
  BY <1>3 DEF Serves
<1>4. ASSUME NEW i \in runs, Answers(i) \/ Breaks(i) \/ Polls(i) PROVE [Next]_vars
  BY <1>4 DEF Answers, Breaks, Polls, Next
<1>5. CASE UNCHANGED jointVars
  BY <1>5 DEF jointVars
<1> QED BY <1>1, <1>2, <1>3, <1>4, <1>5 DEF JointNext

(* The component in the composition is the component alone, so it asks     *)
(* once per connection there too.                                          *)
THEOREM ImplementsComponent == JointSpec => Spec
<1>1. JointInit => Init
  BY DEF JointInit
<1> QED BY <1>1, ComponentStep, PTL DEF JointSpec, Spec

(* An account that stays connected is asked for once, and again only after *)
(* a failure, with a server that answers (SwitchSignless.tsx:67-70).       *)
THEOREM JointlyAskedOnce == JointSpec => []AskedOnceUnlessFailed
  BY ImplementsComponent, AskedOnce, PTL

-----------------------------------------------------------------------------
(* Requests carry the change that caused them and an account.              *)
MailOK == /\ changes \in 0 .. MaxChanges
          /\ account \in Account \cup {None}
          /\ mail \subseteq [id : 0 .. MaxChanges, account : Account]

(* A render sends at most one request, for the account it shows            *)
(* (SwitchSignless.tsx:100).                                               *)
LEMMA EffectSends ==
    ASSUME NEW done_, NEW before, RequestEffect(done_, before),
           NEW i \in runs' \ runs
    PROVE  i.id = changes' /\ i.account = account' /\ account' # None
BY DEF RequestEffect

LEMMA MailKept == MailOK /\ [JointNext]_jointVars => MailOK'
<1> SUFFICES ASSUME MailOK, [JointNext]_jointVars PROVE MailOK'
  OBVIOUS
<1> USE SwitchAssumption DEF SwitchAssumption, MailOK
<1>1. CASE Render
  <2>1. /\ changes' \in 0 .. MaxChanges /\ account' \in Account \cup {None}
        /\ \A i \in runs' \ runs : i.id = changes' /\ i.account = account' /\ account' # None
    <3>1. CASE Mount
      BY <3>1, EffectSends DEF Mount
    <3>2. CASE AccountChanges
      BY <3>2, EffectSends DEF AccountChanges
    <3>3. CASE EnabledChanges
      BY <3>3, EffectSends DEF EnabledChanges
    <3>4. CASE StatusChanges
      BY <3>4 DEF StatusChanges, effects
    <3> QED BY <1>1, <3>1, <3>2, <3>3, <3>4 DEF Render
  <2>2. \A i \in runs' \ runs : Sent(i) \in [id : 0 .. MaxChanges, account : Account]
    BY <2>1 DEF Sent
  <2> QED BY <1>1, <2>1, <2>2 DEF Render
<1>2. ASSUME NEW m \in mail, Deliver(m) PROVE MailOK'
  BY <1>2 DEF Deliver, vars, library
<1>3. ASSUME NEW r \in 0 .. MaxChanges, Serves(r) PROVE MailOK'
  BY <1>3 DEF Serves, vars, library
<1>4. ASSUME NEW i \in runs, Answers(i) \/ Breaks(i) \/ Polls(i) PROVE MailOK'
  BY <1>4 DEF Answers, Breaks, Polls, RequestResolves, RequestFails, Poll, library
<1>5. CASE UNCHANGED jointVars
  BY <1>5 DEF jointVars, vars, library
<1> QED BY <1>1, <1>2, <1>3, <1>4, <1>5 DEF JointNext

(* A joint step is one of the desk's, or leaves it alone: mail that is     *)
(* delivered joins or lines up, and serving is the desk's own              *)
(* (lib.ts:52-86).                                                         *)
LEMMA DeskStep == MailOK /\ [JointNext]_jointVars => [Desk!Next]_Desk!vars
<1> USE DEF Desk!vars, desk
<1> SUFFICES ASSUME MailOK, [JointNext]_jointVars PROVE [Desk!Next]_Desk!vars
  OBVIOUS
<1>1. CASE Render
  BY <1>1 DEF Render
<1>2. ASSUME NEW m \in mail, Deliver(m) PROVE [Desk!Next]_Desk!vars
  <2>1. m.id \in 0 .. MaxChanges /\ m.account \in Account
    BY DEF MailOK
  <2> QED BY <1>2, <2>1 DEF Deliver, Desk!Next
<1>3. ASSUME NEW r \in 0 .. MaxChanges, Serves(r) PROVE [Desk!Next]_Desk!vars
  BY <1>3 DEF Serves, Desk!Next
<1>4. ASSUME NEW i \in runs, Answers(i) \/ Breaks(i) \/ Polls(i)
      PROVE  [Desk!Next]_Desk!vars
  BY <1>4 DEF Answers, Breaks, Polls
<1>5. CASE UNCHANGED jointVars
  BY <1>5 DEF jointVars
<1> QED BY <1>1, <1>2, <1>3, <1>4, <1>5 DEF JointNext

LEMMA MailInit == JointInit => MailOK
BY SwitchAssumption DEF JointInit, Init, MailOK, SwitchAssumption

(* The server in the composition is a voucher desk.                        *)
THEOREM ServesLikeADesk == JointSpec => Desk!Spec
<1>1. JointInit => Desk!Init
  BY DEF JointInit
<1> QED BY <1>1, MailInit, MailKept, DeskStep, PTL DEF JointSpec, Desk!Spec

-----------------------------------------------------------------------------
(* DeskProofs speaks of the same desk as Desk.                             *)
LEMMA SameDesk ==
    /\ DeskProofs!DeskAssumption
    /\ Desk!Init <=> DeskProofs!Init
    /\ [Desk!Next]_Desk!vars <=> [DeskProofs!Next]_DeskProofs!vars
    /\ Desk!OneVoucherPerAccount <=> DeskProofs!OneVoucherPerAccount
<1>1. DeskProofs!DeskAssumption
  BY OnboardingAssumption DEF OnboardingAssumption, DeskProofs!DeskAssumption
<1>2. Desk!Init <=> DeskProofs!Init
  BY DEF Desk!Init, DeskProofs!Init, Desk!NoAsk, DeskProofs!NoAsk
<1>3. \A v : Desk!Holder(v) = DeskProofs!Holder(v)
  BY DEF Desk!Holder, DeskProofs!Holder
<1>4. Desk!OneVoucherPerAccount <=> DeskProofs!OneVoucherPerAccount
  BY <1>3 DEF Desk!OneVoucherPerAccount, DeskProofs!OneVoucherPerAccount
<1>5. [Desk!Next]_Desk!vars <=> [DeskProofs!Next]_DeskProofs!vars
  BY DEF Desk!Next, DeskProofs!Next, Desk!vars, DeskProofs!vars,
         Desk!Join, DeskProofs!Join, Desk!Asking, DeskProofs!Asking,
         Desk!Asks, DeskProofs!Asks, Desk!LineUp, DeskProofs!LineUp,
         Desk!Serve, DeskProofs!Serve, Desk!MayIssue, DeskProofs!MayIssue,
         Desk!HeldBy, DeskProofs!HeldBy, Desk!Holder, DeskProofs!Holder,
         Desk!Reply, DeskProofs!Reply, Desk!Told, DeskProofs!Told
<1> QED BY <1>1, <1>2, <1>4, <1>5

(* No account ends up with two vouchers, however often its user connects,  *)
(* leaves and asks again and whatever is lost on the way, for any accounts *)
(* and changes (lib.ts:49-51, SwitchSignless.tsx:67).                      *)
THEOREM JointlyOneVoucher == JointSpec => []OneVoucherPerAccount
<1>1. Desk!Init => DeskProofs!IInv
  BY SameDesk, DeskProofs!IInvInit
<1>2. DeskProofs!IInv /\ [Desk!Next]_Desk!vars => DeskProofs!IInv'
  BY SameDesk, DeskProofs!IInvStep
<1>3. DeskProofs!IInv => OneVoucherPerAccount
  BY SameDesk DEF DeskProofs!IInv, OneVoucherPerAccount
<1> QED BY <1>1, <1>2, <1>3, ServesLikeADesk, PTL DEF Desk!Spec
=============================================================================
