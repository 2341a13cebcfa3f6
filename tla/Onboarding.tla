----------------------------- MODULE Onboarding -----------------------------
(***************************************************************************)
(* The component SwitchSignless and the gasless server together: the       *)
(* component's voucher requests travel to the server, which treats them as *)
(* a voucher desk does (GaslessServer implements VoucherDesk), and answers *)
(* travel back.  A request may be lost before or after the server got it,  *)
(* which the component sees as a failure either way.  The desk knows a     *)
(* request by the id of the invocation that sent it.                       *)
(***************************************************************************)
EXTENDS SwitchSignless, Sequences

VARIABLES
    mail,     \* requests on their way to the server
    refused,  \* accounts one of whose requests has failed
    line, ask, answer, given, stored, done  \* the desk; see VoucherDesk

desk == <<line, ask, answer, given, stored, done>>
jointVars == <<vars, mail, refused, desk>>

Desk == INSTANCE VoucherDesk WITH
    Req <- 0 .. MaxChanges,
    Key <- Account,
    AccountOf <- [a \in Account |-> a],
    Kinds <- {"request"}

(* No invocation's id is the absence of one. *)
ASSUME OnboardingAssumption == None \notin 0 .. MaxChanges

Sent(i) == [id |-> i.id, account |-> i.account]

JointInit == Init /\ Desk!Init /\ mail = {} /\ refused = {}

-----------------------------------------------------------------------------
(* voucherStatus says enabled only of an account that holds a voucher: what *)
(* the library shows is outside the repository.                            *)
HonestStatus == status' => account' # None /\ Desk!HeldBy(account') # {}

(* A render whose effect asks for a voucher sends a request. *)
Render == /\ Mount \/ AccountChanges \/ EnabledChanges \/ StatusChanges
          /\ HonestStatus
          /\ mail' = mail \cup {Sent(i) : i \in runs' \ runs}
          /\ UNCHANGED <<refused, desk>>

Deliver(m) == /\ mail' = mail \ {m}
              /\ \/ Desk!Join(m.id, m.account)
                 \/ Desk!LineUp(m.id, "request", m.account, None)
              /\ UNCHANGED <<vars, refused>>

Serves(r) == (Desk!Serve(r) \/ Desk!Reply(r)) /\ UNCHANGED <<vars, mail, refused>>

(* requestVoucher resolves with the server's answer, or rejects. *)
Answers(i) == /\ \/ answer[i.id] = "ok" /\ RequestResolves(i) /\ UNCHANGED refused
                 \/ /\ answer[i.id] = "failed" /\ RequestFails(i)
                    /\ refused' = refused \cup {i.account}
              /\ UNCHANGED <<mail, desk>>

(* The connection breaks: the server may get the request all the same. *)
Breaks(i) == /\ RequestFails(i)
             /\ refused' = refused \cup {i.account}
             /\ mail' \in {mail, mail \ {Sent(i)}}
             /\ UNCHANGED desk

Polls(i) == Poll(i) /\ UNCHANGED <<mail, refused, desk>>

JointNext == \/ Render
             \/ \E m \in mail : Deliver(m)
             \/ \E r \in 0 .. MaxChanges : Serves(r)
             \/ \E i \in runs : Answers(i) \/ Breaks(i) \/ Polls(i)

JointSpec == JointInit /\ [][JointNext]_jointVars

(* Requests that are not lost arrive, the server answers (what it takes is  *)
(* AnsweredUnlessLost of GaslessServer), and the timers of polls fire.     *)
Fairness == /\ \A k \in 0 .. MaxChanges :
                 /\ WF_jointVars(\E m \in mail : m.id = k /\ Deliver(m))
                 /\ WF_jointVars(Serves(k))
                 /\ WF_jointVars(\E i \in runs : i.id = k /\ (Answers(i) \/ Polls(i)))

FairSpec == JointSpec /\ Fairness

-----------------------------------------------------------------------------
(* However often a user connects, leaves and asks again, and whatever gets *)
(* lost on the way, no account ends up with two vouchers                   *)
(* (lib.ts:49-51, SwitchSignless.tsx:67).                                  *)
OneVoucherPerAccount == Desk!OneVoucherPerAccount

(* An account that is connected while gasless mode is on comes to hold a   *)
(* voucher, unless a request of its own fails: what other accounts'        *)
(* requests do to the shared ref cannot keep it from one                   *)
(* (SwitchSignless.tsx:72-75, 85, 119).                                    *)
EventuallyServed ==
    \A a \in Account :
        mounted /\ account = a /\ enabled
            ~> Desk!HeldBy(a) # {} \/ a \in refused

(* "Requesting voucher" goes out: every request ends (lines 109-120). *)
IndicatorGoesOut == pending ~> ~pending
=============================================================================
