------------------------- MODULE VoucherDeskProofs -------------------------
(***************************************************************************)
(* The voucher desk keeps its promises for any requests, strings and       *)
(* accounts, prolonging and revoking included.                             *)
(***************************************************************************)
EXTENDS VoucherDesk, TLAPS

TypeOK == /\ line \in Seq(Req)
          /\ ask \in [Req -> Ask]
          /\ answer \in [Req -> {"none", "waiting", "ok", "failed"}]
          /\ given \in [Req -> Req \cup {None}]
          /\ stored \in SUBSET Req
          /\ done \in BOOLEAN

(* What stands in line, is stored or was named in an answer has been asked *)
(* for: no later request takes its place.                                  *)
AskedFor == /\ \A i \in 1 .. Len(line) : answer[line[i]] # "none"
            /\ \A v \in stored : answer[v] # "none"
            /\ \A q \in Req : given[q] # None => answer[given[q]] # "none"

(* Who stands with another asked for the same. *)
SameWords == \A q \in Req : ask[q].leader # None =>
                 /\ answer[ask[q].leader] # "none"
                 /\ ask[ask[q].leader].kind = "request" /\ ask[q].kind = "request"
                 /\ ask[ask[q].leader].key = ask[q].key

(* Who has not asked yet stands with nobody. *)
Unasked == \A q \in Req : answer[q] = "none" => ask[q] = NoAsk

IInv == TypeOK /\ AskedFor /\ SameWords /\ Unasked /\ OneVoucherPerAccount /\ AnswersAreTrue

-----------------------------------------------------------------------------
(* Nobody has asked and nothing is stored at first (lib.ts:41-42). *)
LEMMA IInvInit == DeskAssumption /\ Init => IInv
<1> SUFFICES ASSUME DeskAssumption, Init PROVE IInv
  OBVIOUS
<1>1. TypeOK
  <2>1. NoAsk \in Ask
    BY DEF Ask, NoAsk
  <2>2. <<>> \in Seq(Req)
    OBVIOUS
  <2> QED BY <2>1, <2>2 DEF Init, TypeOK
<1>2. AskedFor /\ OneVoucherPerAccount
  BY DEF DeskAssumption, Init, AskedFor, OneVoucherPerAccount
<1>3. SameWords /\ Unasked /\ AnswersAreTrue
  BY DEF Init, SameWords, Unasked, AnswersAreTrue, NoAsk
<1> QED BY <1>1, <1>2, <1>3 DEF IInv

(* The line after a request lined up or left consists of what was there. *)
LEMMA LineGrows ==
    ASSUME line \in Seq(Req), NEW r \in Req, line' = Append(line, r)
    PROVE  /\ line' \in Seq(Req)
           /\ \A i \in 1 .. Len(line') :
                 line'[i] = r \/ \E j \in 1 .. Len(line) : line'[i] = line[j]
  OBVIOUS

LEMMA LineMoves ==
    ASSUME line \in Seq(Req), line # <<>>, line' = Tail(line)
    PROVE  /\ line' \in Seq(Req)
           /\ Head(line) \in Req
           /\ \A i \in 1 .. Len(line') : \E j \in 1 .. Len(line) : line'[i] = line[j]
<1>1. Len(line) \in Nat \ {0} /\ Len(line') = Len(line) - 1
  OBVIOUS
<1>2. \A i \in 1 .. Len(line') : line'[i] = line[i + 1] /\ i + 1 \in 1 .. Len(line)
  BY <1>1
<1> QED BY <1>2

(* Asking for something keeps the promises: it writes the entry of one who *)
(* has not asked, and nothing refers to that (lib.ts:58-60, 308-315).      *)
LEMMA AsksStep ==
    ASSUME DeskAssumption, IInv, NEW r \in Req, NEW kind \in Kinds, NEW k \in Key,
           NEW v \in Req \cup {None}, NEW l \in Req \cup {None},
           Asks(r, kind, k, v, l),
           l # None => /\ answer[l] # "none" /\ kind = "request"
                       /\ ask[l].kind = "request" /\ ask[l].key = k,
           line' = line \/ line' = Append(line, r)
    PROVE  IInv'
<1>1. TypeOK /\ AskedFor /\ SameWords /\ Unasked
  BY DEF IInv
<1>2. /\ answer[r] = "none"
      /\ ask' = [ask EXCEPT ![r] = [kind |-> kind, key |-> k, voucher |-> v, leader |-> l]]
      /\ answer' = [answer EXCEPT ![r] = "waiting"]
      /\ given' = given /\ stored' = stored /\ done' = done
  BY DEF Asks
<1>3. line' \in Seq(Req)
      /\ \A i \in 1 .. Len(line') :
            line'[i] = r \/ \E j \in 1 .. Len(line) : line'[i] = line[j]
  <2>1. CASE line' = line
    BY <1>1, <2>1 DEF TypeOK
  <2>2. CASE line' = Append(line, r)
    BY <1>1, <2>2, LineGrows DEF TypeOK
  <2> QED BY <2>1, <2>2
<1>4. /\ answer'[r] = "waiting"
      /\ ask'[r] = [kind |-> kind, key |-> k, voucher |-> v, leader |-> l]
      /\ \A q \in Req : q # r => ask'[q] = ask[q] /\ answer'[q] = answer[q]
  BY <1>1, <1>2 DEF TypeOK
<1>5. TypeOK'
  <2>1. ask'[r] \in Ask
    BY <1>4 DEF Ask
  <2>2. ask' \in [Req -> Ask]
    BY <1>1, <1>2, <2>1, <1>4 DEF TypeOK
  <2> QED BY <1>1, <1>2, <1>3, <2>2 DEF TypeOK
<1>6. AskedFor'
  <2>1. \A i \in 1 .. Len(line') : line'[i] \in Req
    BY <1>3
  <2>2. \A q \in Req : given[q] \in Req \cup {None}
    BY <1>1 DEF TypeOK
  <2> QED BY <1>1, <1>2, <1>3, <1>4, <2>1, <2>2 DEF AskedFor, TypeOK
<1>7. SameWords'
  <2> SUFFICES ASSUME NEW q \in Req, ask'[q].leader # None
               PROVE  /\ answer'[ask'[q].leader] # "none"
                      /\ ask'[ask'[q].leader].kind = "request" /\ ask'[q].kind = "request"
                      /\ ask'[ask'[q].leader].key = ask'[q].key
    BY DEF SameWords
  <2>1. CASE q = r
    <3>1. ask'[q].leader = l /\ ask'[q].kind = kind /\ ask'[q].key = k
      BY <1>4, <2>1
    <3>2. l \in Req /\ l # r
      BY <3>1, <1>2
    <3> QED BY <3>1, <3>2, <1>4
  <2>2. CASE q # r
    <3>1. ask'[q] = ask[q]
      BY <1>4, <2>2
    <3>2. ask[q].leader \in Req
      BY <1>1, <3>1 DEF TypeOK, Ask
    <3>3. ask[q].leader # r
      BY <1>1, <1>2, <3>1 DEF SameWords
    <3> QED BY <1>1, <3>1, <3>2, <3>3, <1>4 DEF SameWords
  <2> QED BY <2>1, <2>2
<1>8. Unasked'
  BY <1>1, <1>4 DEF Unasked
<1>9. OneVoucherPerAccount'
  <2>1. \A w \in stored : w \in Req /\ w # r
    BY <1>1, <1>2 DEF TypeOK, AskedFor
  <2>2. OneVoucherPerAccount
    BY DEF IInv
  <2> QED BY <1>2, <1>4, <2>1, <2>2 DEF OneVoucherPerAccount, Holder
<1>10. AnswersAreTrue'
  <2> SUFFICES ASSUME NEW q \in Req, answer'[q] = "ok",
                      ask'[q].kind \in {"request", "issue"}
               PROVE  given'[q] \in Req /\ Holder(given[q])' = Holder(q)'
    BY <1>2 DEF AnswersAreTrue
  <2>1. q # r
    BY <1>4
  <2>2. answer[q] = "ok" /\ ask'[q] = ask[q]
    BY <1>4, <2>1
  <2>3. given[q] \in Req /\ Holder(given[q]) = Holder(q)
    BY <2>2 DEF IInv, AnswersAreTrue
  <2>4. given[q] # r /\ given'[q] = given[q]
    BY <1>1, <1>2, <2>3 DEF DeskAssumption, AskedFor
  <2>5. ask'[given[q]] = ask[given[q]]
    BY <1>4, <2>3, <2>4
  <2> QED BY <2>2, <2>3, <2>4, <2>5 DEF Holder
<1> QED BY <1>5, <1>6, <1>7, <1>8, <1>9, <1>10 DEF IInv

(* Serving adds a voucher on request only where there is none, and no      *)
(* answer changes (lib.ts:65-76).                                          *)
LEMMA ServeStep == ASSUME IInv, NEW r \in Req, Serve(r) PROVE IInv'
<1>1. TypeOK /\ AskedFor /\ SameWords /\ Unasked
      /\ OneVoucherPerAccount /\ AnswersAreTrue
  BY DEF IInv
<1>2. /\ line' = line /\ ask' = ask /\ answer' = answer /\ given' = given
      /\ done' = TRUE
      /\ \/ stored' = stored \cup {r} /\ MayIssue(r)
         \/ stored' \subseteq stored
  BY DEF Serve
<1>3. answer[r] # "none"
  <2>1. line # <<>> /\ r = Head(line)
    BY DEF Serve
  <2>2. 1 \in 1 .. Len(line) /\ Head(line) = line[1]
    BY <1>1, <2>1 DEF TypeOK
  <2> QED BY <1>1, <2>1, <2>2 DEF AskedFor
<1>4. TypeOK'
  BY <1>1, <1>2 DEF TypeOK
<1>5. AskedFor'
  BY <1>1, <1>2, <1>3 DEF AskedFor
<1>6. SameWords' /\ Unasked' /\ AnswersAreTrue'
  BY <1>1, <1>2 DEF SameWords, Unasked, AnswersAreTrue, Holder
<1>7. OneVoucherPerAccount'
  BY <1>1, <1>2 DEF OneVoucherPerAccount, MayIssue, HeldBy, Holder
<1> QED BY <1>4, <1>5, <1>6, <1>7 DEF IInv

(* A reply names the voucher of the head of the line or one of its         *)
(* account, and all who hear it asked for the same (lib.ts:71-74, 79-85).  *)
LEMMA ReplyStep == ASSUME DeskAssumption, IInv, NEW r \in Req, Reply(r) PROVE IInv'
<1> DEFINE group == {r} \cup {q \in Req : answer[q] = "waiting" /\ ask[q].leader = r}
<1>1. TypeOK /\ AskedFor /\ SameWords /\ Unasked
      /\ OneVoucherPerAccount /\ AnswersAreTrue
  BY DEF IInv
<1>2. PICK t \in Told(r) :
        /\ answer' = [q \in Req |-> IF q \in group THEN t[1] ELSE answer[q]]
        /\ given' = [q \in Req |-> IF q \in group THEN t[2] ELSE given[q]]
  BY DEF Reply
<1>3. /\ line # <<>> /\ r = Head(line) /\ line' = Tail(line)
      /\ done' = FALSE /\ ask' = ask /\ stored' = stored
  BY DEF Reply
<1>4. answer[r] # "none"
  <2>1. 1 \in 1 .. Len(line) /\ Head(line) = line[1]
    BY <1>1, <1>3 DEF TypeOK
  <2> QED BY <1>1, <1>3, <2>1 DEF AskedFor
<1>5. /\ t[1] \in {"ok", "failed"}
      /\ t[2] \in Req \cup {None}
      /\ t[2] # None => answer[t[2]] # "none"
      /\ t[1] = "ok" /\ ask[r].kind \in {"request", "issue"} =>
           t[2] \in Req /\ Holder(t[2]) = Holder(r)
  <2>1. stored \subseteq Req /\ \A v \in stored : answer[v] # "none"
    BY <1>1 DEF TypeOK, AskedFor
  <2>2. CASE done
    BY <1>4, <2>2 DEF DeskAssumption, Told
  <2>3. CASE ~done
    BY <1>4, <2>1, <2>3 DEF DeskAssumption, Told, HeldBy
  <2> QED BY <2>2, <2>3
<1>6. TypeOK'
  <2>1. line' \in Seq(Req)
    BY <1>1, <1>3, LineMoves DEF TypeOK
  <2> QED BY <1>1, <1>2, <1>3, <1>5, <2>1 DEF TypeOK
<1>7. \A q \in Req : answer[q] # "none" => answer'[q] # "none"
  BY <1>2, <1>5
<1>8. \A q \in Req : answer'[q] = "none" => answer[q] = "none"
  BY <1>7
<1>9. AskedFor'
  <2>1. \A i \in 1 .. Len(line') : \E j \in 1 .. Len(line) : line'[i] = line[j]
    BY <1>1, <1>3, LineMoves DEF TypeOK
  <2>2. \A j \in 1 .. Len(line) : line[j] \in Req
    BY <1>1 DEF TypeOK
  <2>3. stored \subseteq Req /\ \A q \in Req : given[q] \in Req \cup {None}
    BY <1>1 DEF TypeOK
  <2>4. \A i \in 1 .. Len(line') : answer'[line'[i]] # "none"
    BY <1>1, <1>7, <2>1, <2>2 DEF AskedFor
  <2>5. \A v \in stored' : answer'[v] # "none"
    BY <1>1, <1>3, <1>7, <2>3 DEF AskedFor
  <2>6. \A q \in Req : given'[q] # None => answer'[given'[q]] # "none"
    BY <1>1, <1>2, <1>5, <1>7, <2>3 DEF AskedFor
  <2> QED BY <2>4, <2>5, <2>6 DEF AskedFor
<1>10. SameWords'
  <2>1. \A q \in Req : ask[q].leader # None => ask[q].leader \in Req
    BY <1>1 DEF TypeOK, Ask
  <2> QED BY <1>1, <1>3, <1>7, <2>1 DEF SameWords
<1>11. Unasked'
  BY <1>1, <1>3, <1>8 DEF Unasked
<1>12. OneVoucherPerAccount'
  BY <1>1, <1>3 DEF OneVoucherPerAccount, Holder
<1>13. AnswersAreTrue'
  <2> SUFFICES ASSUME NEW q \in Req, answer'[q] = "ok", ask[q].kind \in {"request", "issue"}
               PROVE  given'[q] \in Req /\ Holder(given'[q]) = Holder(q)
    BY <1>3 DEF AnswersAreTrue, Holder
  <2>1. CASE q \notin group
    BY <1>1, <1>2, <2>1 DEF AnswersAreTrue
  <2>2. CASE q \in group
    <3>1. t[1] = "ok" /\ given'[q] = t[2]
      BY <1>2, <2>2
    <3>2. ask[r].kind \in {"request", "issue"} /\ Holder(q) = Holder(r)
      BY <1>1, <2>2 DEF DeskAssumption, SameWords, Holder
    <3> QED BY <1>5, <3>1, <3>2
  <2> QED BY <2>1, <2>2
<1> QED BY <1>6, <1>9, <1>10, <1>11, <1>12, <1>13 DEF IInv

(* Every step of the desk keeps its promises (lib.ts:52-86, 308-315). *)
LEMMA IInvStep == DeskAssumption /\ IInv /\ [Next]_vars => IInv'
<1> SUFFICES ASSUME DeskAssumption, IInv, [Next]_vars PROVE IInv'
  OBVIOUS
<1>1. ASSUME NEW r \in Req, NEW k \in Key, Join(r, k) PROVE IInv'
  <2>1. PICK q \in Asking(k) : Asks(r, "request", k, None, q)
    BY <1>1 DEF Join
  <2>2. /\ q \in Req /\ ask[q].kind = "request" /\ ask[q].key = k
        /\ answer[q] # "none"
    BY DEF Asking, IInv, AskedFor
  <2>3. "request" \in Kinds
    BY <2>2 DEF DeskAssumption, IInv, TypeOK, Ask
  <2>4. line' = line
    BY <1>1 DEF Join
  <2> QED BY <2>1, <2>2, <2>3, <2>4, AsksStep
<1>2. ASSUME NEW r \in Req, NEW kind \in Kinds, NEW k \in Key, NEW v \in Req \cup {None},
             LineUp(r, kind, k, v)
      PROVE  IInv'
  <2>1. Asks(r, kind, k, v, None) /\ line' = Append(line, r)
    BY <1>2 DEF LineUp
  <2>2. None \in Req \cup {None}
    OBVIOUS
  <2> QED BY <2>1, <2>2, AsksStep
<1>3. CASE UNCHANGED vars
  BY <1>3 DEF vars, IInv, TypeOK, AskedFor, SameWords, Unasked, OneVoucherPerAccount,
              AnswersAreTrue, Holder
<1> QED BY <1>1, <1>2, <1>3, ServeStep, ReplyStep DEF Next

(* The types of the desk's state, for any requests and strings. *)
THEOREM TypeCorrect == ASSUME DeskAssumption PROVE Spec => []TypeOK
<1>1. IInv => TypeOK
  BY DEF IInv
<1>2. Init => IInv
  BY DeskAssumption, IInvInit
<1>3. IInv /\ [Next]_vars => IInv'
  BY DeskAssumption, IInvStep
<1> QED BY <1>1, <1>2, <1>3, PTL DEF Spec

(* No account is issued two vouchers on request, whatever else is asked,   *)
(* prolonged and revoked at the same time (lib.ts:49-51).                  *)
THEOREM OneVoucher == ASSUME DeskAssumption PROVE Spec => []OneVoucherPerAccount
<1>1. IInv => OneVoucherPerAccount
  BY DEF IInv
<1>2. Init => IInv
  BY DeskAssumption, IInvInit
<1>3. IInv /\ [Next]_vars => IInv'
  BY DeskAssumption, IInvStep
<1> QED BY <1>1, <1>2, <1>3, PTL DEF Spec

(* An answer names a voucher of the account that asked, also for those who *)
(* shared the request of another (lib.ts:58-60).                           *)
THEOREM TrueAnswers == ASSUME DeskAssumption PROVE Spec => []AnswersAreTrue
<1>1. IInv => AnswersAreTrue
  BY DEF IInv
<1>2. Init => IInv
  BY DeskAssumption, IInvInit
<1>3. IInv /\ [Next]_vars => IInv'
  BY DeskAssumption, IInvStep
<1> QED BY <1>1, <1>2, <1>3, PTL DEF Spec
=============================================================================
