---------------------------- MODULE VoucherDesk ----------------------------
(***************************************************************************)
(* What infrastructure/gasless-server promises its clients: they stand in  *)
(* one line, each is served alone and answered when it leaves the line,    *)
(* and clients who ask for a voucher with the same words stand together.   *)
(* Serving has at most one effect on the chain.  No nonces, no transaction *)
(* pool, no awaits: those are in GaslessServer, which implements this.     *)
(***************************************************************************)
EXTENDS Integers, Sequences

CONSTANTS
    Req,        \* requests; a voucher is the request that issued it
    Key,        \* the strings clients send as account
    AccountOf,  \* AccountOf[k]: the account a string denotes
    Kinds,      \* what clients ask for
    None        \* no voucher, no request

(* What the constants are; who instantiates the module assumes it. *)
DeskAssumption ==
    /\ None \notin Req
    /\ Kinds \subseteq {"request", "issue", "prolong", "revoke"}

VARIABLES
    line,    \* the requests served one after the other
    ask,     \* ask[r]: what r asks for, and whom it stands with
    answer,  \* answer[r]: what r was told so far
    given,   \* given[r]: the voucher its answer names
    stored,  \* the vouchers on chain
    done     \* has the head of the line had its effect?

vars == <<line, ask, answer, given, stored, done>>

Ask == [kind : Kinds \cup {"none"}, key : Key \cup {None},
        voucher : Req \cup {None}, leader : Req \cup {None}]
NoAsk == [kind |-> "none", key |-> None, voucher |-> None, leader |-> None]

Init == /\ line = <<>>
        /\ ask = [r \in Req |-> NoAsk]
        /\ answer = [r \in Req |-> "none"]
        /\ given = [r \in Req |-> None]
        /\ stored = {}
        /\ done = FALSE

Holder(v) == AccountOf[ask[v].key]
HeldBy(a) == {v \in stored : Holder(v) = a}

-----------------------------------------------------------------------------
(* Those in line who ask for a voucher with the string k. *)
Asking(k) == {q \in Req : /\ \E i \in 1 .. Len(line) : line[i] = q
                          /\ ask[q].kind = "request" /\ ask[q].key = k}

Asks(r, kind, k, v, leader) ==
    /\ answer[r] = "none"
    /\ ask' = [ask EXCEPT ![r] = [kind |-> kind, key |-> k,
                                  voucher |-> v, leader |-> leader]]
    /\ answer' = [answer EXCEPT ![r] = "waiting"]
    /\ UNCHANGED <<given, stored, done>>

(* A request joins the one in line with the same string. *)
Join(r, k) == /\ \E q \in Asking(k) : Asks(r, "request", k, None, q)
              /\ UNCHANGED line

(* Prolong and revoke name a voucher the server gave somebody. *)
LineUp(r, kind, k, v) ==
    /\ kind = "request" => Asking(k) = {}
    /\ IF kind \in {"request", "issue"}
       THEN v = None
       ELSE \E q \in Req : answer[q] = "ok" /\ given[q] = v
    /\ Asks(r, kind, k, v, None)
    /\ line' = Append(line, r)

(* Mutant: nobody looks for an existing voucher. *)
MayAlways(r) == TRUE

(* On request a voucher is issued only to an account that has none. *)
MayIssue(r) == ask[r].kind = "request" => HeldBy(Holder(r)) = {}

(* The effect of the head of the line on the vouchers in storage. *)
Serve(r) ==
    /\ line # <<>> /\ r = Head(line)
    /\ ~done /\ done' = TRUE
    /\ \/ /\ MayIssue(r)
          /\ ask[r].kind \in {"request", "issue"}
          /\ stored' = stored \cup {r}
       \/ /\ ask[r].kind = "prolong" /\ ask[r].voucher \in stored
          /\ stored' = stored
       \/ /\ ask[r].kind = "revoke" /\ ask[r].voucher \in stored
          /\ stored' = stored \ {ask[r].voucher}
    /\ UNCHANGED <<line, ask, answer, given>>

(* What the head is told: its own voucher or mere success when it had its  *)
(* effect, else the voucher its account has already, or that it failed.    *)
Told(r) ==
    IF done
    THEN {<<"ok", IF ask[r].kind \in {"request", "issue"} THEN r ELSE None>>}
    ELSE {<<"failed", None>>} \cup
         {<<"ok", v>> : v \in {w \in HeldBy(Holder(r)) : ask[r].kind = "request"}}

(* The head is answered with all who stand with it, and leaves the line. *)
Reply(r) ==
    /\ line # <<>> /\ r = Head(line)
    /\ LET group == {r} \cup {q \in Req : answer[q] = "waiting" /\ ask[q].leader = r}
       IN  \E t \in Told(r) :
             /\ answer' = [q \in Req |-> IF q \in group THEN t[1] ELSE answer[q]]
             /\ given' = [q \in Req |-> IF q \in group THEN t[2] ELSE given[q]]
    /\ line' = Tail(line)
    /\ done' = FALSE
    /\ UNCHANGED <<ask, stored>>

Next == \E r \in Req :
            \/ \E k \in Key : Join(r, k)
            \/ \E kind \in Kinds, k \in Key, v \in Req \cup {None} : LineUp(r, kind, k, v)
            \/ Serve(r)
            \/ Reply(r)

Spec == Init /\ [][Next]_vars

-----------------------------------------------------------------------------
(* No account holds two vouchers that it got by POST /voucher/request,     *)
(* however its requests overlap, fail and are repeated (lib.ts:49-51).     *)
OneVoucherPerAccount ==
    \A v, w \in stored :
        /\ ask[v].kind = "request" /\ ask[w].kind = "request"
        /\ Holder(v) = Holder(w)
        => v = w

(* A voucher in an answer to request or issue belongs to the account that  *)
(* asked, also for those who share the request of another (lib.ts:58-60).  *)
AnswersAreTrue ==
    \A r \in Req :
        answer[r] = "ok" /\ ask[r].kind \in {"request", "issue"} =>
            given[r] \in Req /\ Holder(given[r]) = Holder(r)
=============================================================================
