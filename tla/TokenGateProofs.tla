-------------------------- MODULE TokenGateProofs --------------------------
(***************************************************************************)
(* What a token gate grants, for any accounts, amounts, threshold, number  *)
(* of overlapping requests and lifetimes of nonces and tokens.             *)
(***************************************************************************)
EXTENDS TokenGate, FiniteSetTheorems, NaturalsInduction, WellFoundedInduction, TLAPS

-----------------------------------------------------------------------------
(* Rounding.  Ulp is defined by recursion; what holds of it for every      *)
(* balance is shown at the least balance for which it would not.           *)

LEMMA Least ==
    ASSUME NEW T \in SUBSET Nat, T # {}
    PROVE  \E m \in T : \A n \in T : m <= n
<1>1. IsWellFoundedOn(OpToRel(<, Nat), Nat)
  BY NatLessThanWellFounded
<1>2. PICK m \in T : \A n \in T : ~(<<n, m>> \in OpToRel(<, Nat))
  BY <1>1, WFMin
<1>3. \A n \in T : ~(n < m)
  BY <1>2 DEF OpToRel
<1>4. \A n \in T : m <= n
  BY <1>3
<1> QED BY <1>4

LEMMA Division ==
    ASSUME NEW x \in Nat, NEW u \in Nat \ {0}
    PROVE  x = u * (x \div u) + (x % u) /\ x % u \in 0 .. u - 1 /\ x \div u \in Nat
OBVIOUS

USE GateAssumption DEF GateAssumption

Spacing(f, x) == IF x < Exact THEN 1 ELSE 2 * f[x \div 2]

(* The function Ulp is meant to be, up to n. *)
UlpUpTo(f, n) == /\ f \in [0 .. n -> Nat \ {0}]
                 /\ \A x \in 0 .. n : f[x] = Spacing(f, x)

LEMMA Halves == \A x \in Nat : x >= Exact => x \div 2 \in 0 .. x - 1
OBVIOUS

LEMMA UlpUpToExists == \A n \in Nat : \E f : UlpUpTo(f, n)
<1> DEFINE T == {n \in Nat : ~ \E f : UlpUpTo(f, n)}
<1> SUFFICES ASSUME T # {} PROVE FALSE
  OBVIOUS
<1>1. PICK m \in T : \A n \in T : m <= n
  BY Least
<1>2. m \in Nat /\ \A n \in 0 .. m - 1 : \E f : UlpUpTo(f, n)
  BY <1>1
<1> HIDE DEF T
<1>3. PICK g : m > 0 => UlpUpTo(g, m - 1)
  BY <1>2
<1> DEFINE f == [x \in 0 .. m |-> IF x < m THEN g[x] ELSE Spacing(g, m)]
<1>4. ASSUME NEW x \in 0 .. m
      PROVE  f[x] \in Nat \ {0} /\ f[x] = Spacing(f, x)
  <2>1. CASE x < m
    <3>1. UlpUpTo(g, m - 1) /\ x \in 0 .. m - 1 /\ f[x] = g[x]
      BY <1>2, <1>3, <2>1
    <3>2. g[x] \in Nat \ {0} /\ g[x] = Spacing(g, x)
      BY <3>1 DEF UlpUpTo
    <3>3. x >= Exact => x \div 2 \in 0 .. m - 1 /\ f[x \div 2] = g[x \div 2]
      BY <1>2, <3>1, Halves
    <3> QED BY <3>1, <3>2, <3>3 DEF Spacing
  <2>2. CASE x = m
    <3>1. f[x] = Spacing(g, m)
      BY <1>2, <2>2
    <3>2. m >= Exact => /\ m \div 2 \in 0 .. m - 1
                        /\ f[m \div 2] = g[m \div 2]
                        /\ g[m \div 2] \in Nat \ {0}
      <4>1. m >= Exact => m > 0 /\ m \div 2 \in 0 .. m - 1
        BY <1>2, Halves
      <4>2. m > 0 => \A z \in 0 .. m - 1 : g[z] \in Nat \ {0}
        BY <1>3 DEF UlpUpTo
      <4>3. \A z \in 0 .. m - 1 : f[z] = g[z]
        BY <1>2
      <4> QED BY <4>1, <4>2, <4>3
    <3> HIDE DEF f
    <3> QED BY <2>2, <3>1, <3>2 DEF Spacing
  <2> QED BY <1>2, <2>1, <2>2
<1>5. UlpUpTo(f, m)
  BY <1>4 DEF UlpUpTo
<1> QED BY <1>1, <1>5 DEF T

LEMMA UlpUpToUnique ==
    ASSUME NEW m \in Nat, NEW n \in Nat, NEW f, NEW g, UlpUpTo(f, m), UlpUpTo(g, n),
           NEW x \in Nat, x <= m, x <= n
    PROVE  f[x] = g[x]
<1> DEFINE T == {y \in Nat : y <= m /\ y <= n /\ f[y] # g[y]}
<1> SUFFICES ASSUME T # {} PROVE FALSE
  OBVIOUS
<1>1. PICK y \in T : \A z \in T : y <= z
  BY Least
<1>2. y \in Nat /\ y <= m /\ y <= n /\ f[y] # g[y]
  BY <1>1
<1>3. \A z \in 0 .. y - 1 : f[z] = g[z]
  BY <1>1, <1>2
<1>4. Spacing(f, y) = Spacing(g, y)
  BY <1>2, <1>3, Halves DEF Spacing
<1> QED BY <1>2, <1>4 DEF UlpUpTo

LEMMA UlpDefined == Ulp = [x \in Nat |-> Spacing(Ulp, x)]
<1> DEFINE part(n) == CHOOSE f : UlpUpTo(f, n)
           f == [x \in Nat |-> part(x)[x]]
<1>1. \A n \in Nat : UlpUpTo(part(n), n)
  BY UlpUpToExists
<1> HIDE DEF part
<1>2. ASSUME NEW x \in Nat PROVE f[x] = Spacing(f, x)
  <2>1. part(x)[x] = Spacing(part(x), x)
    BY <1>1 DEF UlpUpTo
  <2>2. x >= Exact => part(x)[x \div 2] = part(x \div 2)[x \div 2]
    BY <1>1, Halves, UlpUpToUnique
  <2> QED BY <2>1, <2>2, Halves DEF Spacing
<1>3. f = [x \in Nat |-> Spacing(f, x)]
  BY <1>2
<1> HIDE DEF f
<1> QED BY <1>3 DEF Ulp, Spacing

LEMMA UlpPositive == \A x \in Nat : Ulp[x] \in Nat \ {0}
<1> DEFINE T == {x \in Nat : Ulp[x] \notin Nat \ {0}}
<1> SUFFICES ASSUME T # {} PROVE FALSE
  OBVIOUS
<1>1. PICK x \in T : \A y \in T : x <= y
  BY Least
<1>2. x \in Nat /\ Ulp[x] \notin Nat \ {0} /\ \A y \in 0 .. x - 1 : Ulp[y] \in Nat \ {0}
  BY <1>1
<1>3. Ulp[x] = Spacing(Ulp, x)
  BY <1>2, UlpDefined
<1> QED BY <1>2, <1>3, Halves DEF Spacing

LEMMA UlpMonotone == \A x, y \in Nat : x <= y => Ulp[x] <= Ulp[y]
<1> DEFINE T == {x \in Nat : \E y \in Nat : x <= y /\ ~(Ulp[x] <= Ulp[y])}
<1> SUFFICES ASSUME T # {} PROVE FALSE
  OBVIOUS
<1>1. PICK x \in T : \A z \in T : x <= z
  BY Least
<1>2. x \in Nat /\ \A z \in 0 .. x - 1 : \A y \in Nat : z <= y => Ulp[z] <= Ulp[y]
  BY <1>1
<1>3. PICK y \in Nat : x <= y /\ ~(Ulp[x] <= Ulp[y])
  BY <1>1
<1>4. Ulp[x] = Spacing(Ulp, x) /\ Ulp[y] = Spacing(Ulp, y)
  BY <1>2, UlpDefined
<1>5. Ulp[x] \in Nat \ {0} /\ Ulp[y] \in Nat \ {0}
  BY <1>2, UlpPositive
<1>6. x >= Exact /\ y >= Exact
  BY <1>2, <1>3, <1>4, <1>5 DEF Spacing
<1>7. Ulp[x \div 2] <= Ulp[y \div 2]
  BY <1>2, <1>3, <1>6, Halves
<1> QED
  BY <1>2, <1>3, <1>4, <1>6, <1>7, UlpPositive, Halves DEF Spacing

(* A balance that rounds to the threshold or above is close to it. *)
LEMMA RoundsClose ==
    ASSUME NEW x \in Nat, Number(x) >= Threshold
    PROVE  Close(x)
<1> DEFINE u == Ulp[x]
           q == x \div u
           r == x % u
<1>1. u \in Nat \ {0}
  BY UlpPositive
<1>2. x = u * q + r /\ r \in 0 .. u - 1 /\ q \in Nat
  BY <1>1, Division
<1>3. Ulp[Threshold] \in Nat \ {0}
  BY UlpPositive
<1>4. CASE x >= Threshold
  BY <1>3, <1>4 DEF Close
<1>5. CASE x < Threshold
  <2>1. u <= Ulp[Threshold]
    BY <1>5, UlpMonotone
  <2>2. Number(x) = q * u \/ (2 * r >= u /\ Number(x) = (q + 1) * u)
    <3>1. 2 * r > u \/ (2 * r = u /\ q % 2 = 1) => 2 * r >= u
      BY <1>1, <1>2
    <3> QED BY <3>1, Zenon DEF Number
  <2> HIDE DEF u, q, r
  <2>3. q * u = u * q /\ (q + 1) * u = u * q + u
    BY <1>1, <1>2
  <2>4. u * q \in Nat
    BY <1>1, <1>2
  <2>5. 2 * r >= u /\ u * q + u >= Threshold
    BY <1>1, <1>2, <1>5, <2>2, <2>3, <2>4
  <2>6. 2 * (Threshold - x) <= u
    BY <1>1, <1>2, <2>4, <2>5
  <2> QED BY <1>1, <1>3, <2>1, <2>6 DEF Close
<1> QED BY <1>4, <1>5

-----------------------------------------------------------------------------
(* The inductive invariant, one part for each property.                    *)

Working(s) == slot[s].phase # "idle"

(* A nonce not yet issued or still in the store has bought nothing. *)
Unspent == \A n \in Nonce :
              n >= issued \/ n \in DOMAIN nonceStore =>
                 /\ grants[n] = 0
                 /\ \A s \in Slot : Working(s) => slot[s].nonce # n

(* One that is being spent is spent by one request, and for the first time. *)
SpentOnce == \A s \in Slot :
                Working(s) /\ slot[s].nonce # Never =>
                   /\ grants[slot[s].nonce] = 0
                   /\ \A t \in Slot : Working(t) /\ slot[t].nonce = slot[s].nonce => t = s

StoreIssued == \A n \in DOMAIN nonceStore : n < issued

NoncesInv == StoreIssued /\ Unspent /\ SpentOnce /\ NonceBuysOneToken

Creating == {s \in Slot : slot[s].phase = "creating"}

(* Nobody starts to connect once there is a connection. *)
ConnectionsInv == /\ gearApi = 0 <=> connections = 0
                  /\ connections + Cardinality(Creating) <= Cardinality(Slot)

(* The clock of lastHeld; a good answer is at most MaxLatency old, and a   *)
(* token as old as the answer it rests on.                                 *)
HeldNow == \A c \in Client : /\ lastHeld[c] <= now
                             /\ Close(balance[c]) => lastHeld[c] = now

AnswersFresh == \A s \in Slot : slot[s].phase = "read" =>
                   /\ slot[s].since <= now /\ now <= slot[s].since + MaxLatency
                   /\ slot[s].enough => slot[s].since <= lastHeld[slot[s].sub]

TokensFresh == \A t \in tokens : /\ lastHeld[t.sub] # Never
                                 /\ t.exp <= lastHeld[t.sub] + JwtTTL + MaxLatency

AccessInv == HeldNow /\ AnswersFresh /\ TokensFresh

IInv == TypeOK /\ NoncesInv /\ ConnectionsInv

-----------------------------------------------------------------------------
(* What the steps of a request do to its slot. *)

LEMMA SlotTypes ==
    ASSUME TypeOK, NEW s \in Slot, Working(s)
    PROVE  slot[s] \in Request /\ slot[s].sub \in Client /\ slot[s].nonce \in Nonce \cup {Never}
           /\ slot[s].since \in Nat /\ slot[s].enough \in BOOLEAN
<1>1. slot[s] \in Request \cup {Idle}
  BY DEF TypeOK
<1>2. slot[s] \in Request
  BY <1>1 DEF Working, Idle
<1> QED BY <1>2 DEF Request

LEMMA OneSlot ==
    ASSUME TypeOK, NEW s \in Slot, NEW r \in Request \cup {Idle},
           slot' = [slot EXCEPT ![s] = r]
    PROVE  /\ slot' \in [Slot -> Request \cup {Idle}]
           /\ slot'[s] = r
           /\ \A t \in Slot \ {s} : slot'[t] = slot[t]
BY DEF TypeOK

LEMMA Moved ==
    ASSUME TypeOK, NEW s \in Slot, Working(s),
           NEW phase \in {"api", "creating", "reading", "read"}, MoveTo(s, phase)
    PROVE  /\ slot' \in [Slot -> Request \cup {Idle}]
           /\ slot'[s].phase = phase /\ slot'[s].nonce = slot[s].nonce
           /\ \A t \in Slot \ {s} : slot'[t] = slot[t]
<1> DEFINE r == [slot[s] EXCEPT !.phase = phase]
<1>1. r \in Request /\ r.phase = phase /\ r.nonce = slot[s].nonce
  BY SlotTypes DEF Request
<1>2. slot' = [slot EXCEPT ![s] = r]
  BY DEF MoveTo
<1> HIDE DEF r
<1> QED BY <1>1, <1>2, OneSlot

LEMMA ReadSlot ==
    ASSUME TypeOK, NEW s \in Slot, NodeReads(s)
    PROVE  /\ slot' \in [Slot -> Request \cup {Idle}]
           /\ slot'[s].phase = "read" /\ slot'[s].nonce = slot[s].nonce
           /\ slot'[s].sub = slot[s].sub /\ slot'[s].since = now
           /\ slot'[s].enough => Number(balance[slot[s].sub]) >= Threshold
           /\ \A t \in Slot \ {s} : slot'[t] = slot[t]
<1>1. PICK e \in BOOLEAN :
         /\ e => Number(balance[slot[s].sub]) >= Threshold
         /\ slot' = [slot EXCEPT ![s] = [@ EXCEPT !.phase = "read", !.enough = e,
                                                  !.since = now]]
  BY DEF NodeReads
<1> DEFINE r == [slot[s] EXCEPT !.phase = "read", !.enough = e, !.since = now]
<1>2. Working(s) /\ slot[s] \in Request /\ now \in Nat
  BY SlotTypes DEF NodeReads, Working, TypeOK
<1>3. /\ r \in Request /\ r.phase = "read" /\ r.since = now /\ r.enough = e
      /\ r.sub = slot[s].sub /\ r.nonce = slot[s].nonce
  BY <1>2 DEF Request
<1>4. slot' = [slot EXCEPT ![s] = r]
  BY <1>1
<1> HIDE DEF r
<1> QED BY <1>1, <1>3, <1>4, OneSlot

LEMMA GetApiMoves ==
    ASSUME NEW s \in Slot, GetApi(s)
    PROVE  /\ Working(s)
           /\ (MoveTo(s, "creating") /\ gearApi = 0) \/ MoveTo(s, "reading")
BY DEF GetApi, Working

(* A request past its last check asks for the connection. *)
LEMMA VerifySlot ==
    ASSUME TypeOK, NEW s \in Slot, NEW c \in Client, NEW n \in DOMAIN nonceStore,
           NEW w \in BOOLEAN, NEW i \in 0 .. MaxTime, NEW d \in Durations,
           Verify(s, c, n, w, i, d)
    PROVE  /\ slot[s] = Idle
           /\ slot' \in [Slot -> Request \cup {Idle}]
           /\ \A t \in Slot \ {s} : slot'[t] = slot[t]
           /\ slot'[s] = Idle \/ (slot'[s].phase = "api" /\ slot'[s].nonce = n)
<1> DEFINE r == [phase |-> "api", sub |-> c, nonce |-> n, enough |-> FALSE, since |-> now]
<1>1. slot[s] = Idle /\ (slot' = slot \/ slot' = [slot EXCEPT ![s] = r])
  BY DEF Verify
<1>2. r \in Request /\ r.phase = "api" /\ r.nonce = n
  <2>1. n \in Nonce /\ now \in Nat
    BY DEF TypeOK
  <2> QED BY <2>1 DEF Request
<1> HIDE DEF r
<1>3. CASE slot' = slot
  BY <1>1, <1>3 DEF TypeOK
<1>4. CASE slot' = [slot EXCEPT ![s] = r]
  BY <1>1, <1>2, <1>4, OneSlot
<1> QED BY <1>1, <1>3, <1>4

LEMMA RefreshSlot ==
    ASSUME TypeOK, NEW s \in Slot, NEW t \in tokens, Refresh(s, t)
    PROVE  /\ slot[s] = Idle
           /\ slot' \in [Slot -> Request \cup {Idle}]
           /\ \A u \in Slot \ {s} : slot'[u] = slot[u]
           /\ slot'[s] = Idle \/ (slot'[s].phase = "api" /\ slot'[s].nonce = Never)
<1> DEFINE r == [phase |-> "api", sub |-> t.sub, nonce |-> Never, enough |-> FALSE,
                 since |-> now]
<1>1. slot[s] = Idle /\ (slot' = slot \/ slot' = [slot EXCEPT ![s] = r])
  BY DEF Refresh
<1>2. r \in Request /\ r.phase = "api" /\ r.nonce = Never
  <2>1. t.sub \in Client /\ now \in Nat
    BY DEF TypeOK, Token
  <2> QED BY <2>1 DEF Request
<1> HIDE DEF r
<1>3. CASE slot' = slot
  BY <1>1, <1>3 DEF TypeOK
<1>4. CASE slot' = [slot EXCEPT ![s] = r]
  BY <1>1, <1>2, <1>4, OneSlot
<1> QED BY <1>1, <1>3, <1>4

(* Answered, or failed: the slot is free again. *)
LEMMA FreedSlot ==
    ASSUME TypeOK, NEW s \in Slot, ApiFails(s) \/ Answer(s)
    PROVE  /\ Working(s)
           /\ slot' \in [Slot -> Request \cup {Idle}]
           /\ slot'[s] = Idle
           /\ \A t \in Slot \ {s} : slot'[t] = slot[t]
<1>1. Working(s) /\ slot' = [slot EXCEPT ![s] = Idle]
  BY DEF ApiFails, Answer, Working
<1> QED BY <1>1, OneSlot

LEMMA JwtTypes == ASSUME TypeOK, NEW c \in Client PROVE JwtFor(c) \in Token
BY DEF TypeOK, JwtFor, Token

-----------------------------------------------------------------------------
LEMMA TypeStep == TypeOK /\ [Next]_vars => TypeOK'
<1> SUFFICES ASSUME TypeOK, [Next]_vars PROVE TypeOK'
  OBVIOUS
<1> USE DEF accounts, stores
<1>1. CASE UNCHANGED vars
  BY <1>1 DEF TypeOK, vars
<1>2. CASE Tick
  BY <1>2 DEF TypeOK, Tick
<1>3. ASSUME NEW c \in Client, Transfer(c) PROVE TypeOK'
  BY <1>3 DEF TypeOK, Transfer
<1>4. CASE IssueNonce
  <2>1. /\ issued' \in 0 .. Nonces /\ issued \in Nonce
        /\ DOMAIN nonceStore' = DOMAIN nonceStore \cup {issued}
        /\ \A n \in DOMAIN nonceStore' : nonceStore'[n] \in Nat
    BY <1>4 DEF TypeOK, IssueNonce, Nonce
  <2> QED BY <1>4, <2>1 DEF TypeOK, IssueNonce
<1>5. ASSUME NEW s \in Slot, NEW c \in Client, NEW n \in DOMAIN nonceStore,
             NEW w \in BOOLEAN, NEW i \in 0 .. MaxTime, NEW d \in Durations,
             Verify(s, c, n, w, i, d)
      PROVE  TypeOK'
  <2>1. slot' \in [Slot -> Request \cup {Idle}]
    BY <1>5, VerifySlot
  <2>2. /\ DOMAIN nonceStore' \subseteq DOMAIN nonceStore
        /\ \A m \in DOMAIN nonceStore' : nonceStore'[m] \in Nat
    BY <1>5 DEF TypeOK, Verify, ConsumeNonce
  <2> QED BY <1>5, <2>1, <2>2 DEF TypeOK, Verify
<1>6. ASSUME NEW s \in Slot, NEW t \in tokens, Refresh(s, t) PROVE TypeOK'
  <2>1. slot' \in [Slot -> Request \cup {Idle}]
    BY <1>6, RefreshSlot
  <2>2. t.sub \in Client
    BY DEF TypeOK, Token
  <2>3. tokens' \in SUBSET Token
    BY <1>6, <2>2, JwtTypes DEF TypeOK, Refresh
  <2> QED BY <1>6, <2>1, <2>3 DEF TypeOK, Refresh
<1>7. ASSUME NEW s \in Slot, GetApi(s) PROVE TypeOK'
  <2>1. slot' \in [Slot -> Request \cup {Idle}]
    BY <1>7, GetApiMoves, Moved
  <2> QED BY <1>7, <2>1 DEF TypeOK, GetApi
<1>8. ASSUME NEW s \in Slot, ApiCreated(s) PROVE TypeOK'
  <2>1. slot' \in [Slot -> Request \cup {Idle}]
    BY <1>8, Moved DEF ApiCreated, Working
  <2> QED BY <1>8, <2>1 DEF TypeOK, ApiCreated
<1>9. ASSUME NEW s \in Slot, ApiFails(s) PROVE TypeOK'
  <2>1. slot' \in [Slot -> Request \cup {Idle}]
    BY <1>9, FreedSlot
  <2> QED BY <1>9, <2>1 DEF TypeOK, ApiFails
<1>10. ASSUME NEW s \in Slot, NodeReads(s) PROVE TypeOK'
  <2>1. slot' \in [Slot -> Request \cup {Idle}]
    BY <1>10, ReadSlot
  <2> QED BY <1>10, <2>1 DEF TypeOK, NodeReads
<1>11. ASSUME NEW s \in Slot, Answer(s) PROVE TypeOK'
  <2>1. slot' \in [Slot -> Request \cup {Idle}] /\ Working(s)
    BY <1>11, FreedSlot
  <2>2. slot[s].sub \in Client /\ slot[s].nonce \in Nonce \cup {Never}
    BY <2>1, SlotTypes
  <2>3. tokens' \in SUBSET Token
    BY <1>11, <2>2, JwtTypes DEF TypeOK, Answer
  <2>4. grants' \in [Nonce -> Nat]
    BY <1>11, <2>2 DEF TypeOK, Answer
  <2> QED BY <1>11, <2>1, <2>3, <2>4 DEF TypeOK, Answer
<1>12. ASSUME NEW t \in tokens, Forget(t) PROVE TypeOK'
  BY <1>12 DEF TypeOK, Forget
<1> QED BY <1>1, <1>2, <1>3, <1>4, <1>5, <1>6, <1>7, <1>8, <1>9, <1>10, <1>11, <1>12
        DEF Next

-----------------------------------------------------------------------------
(* Nonces. *)

LEMMA NoncesKept ==
    ASSUME NoncesInv, UNCHANGED <<nonceStore, issued, grants>>,
           \A s \in Slot : slot'[s].phase # "idle" =>
              slot'[s].nonce = Never \/ (Working(s) /\ slot'[s].nonce = slot[s].nonce)
    PROVE  NoncesInv'
<1>1. StoreIssued' /\ NonceBuysOneToken'
  BY DEF NoncesInv, StoreIssued, NonceBuysOneToken
<1>2. Unspent'
  BY DEF NoncesInv, Unspent, Working, Nonce, Never
<1>3. SpentOnce'
  BY DEF NoncesInv, SpentOnce, Working
<1> QED BY <1>1, <1>2, <1>3 DEF NoncesInv

LEMMA NoncesIssue == ASSUME TypeOK, NoncesInv, IssueNonce PROVE NoncesInv'
<1>1. /\ DOMAIN nonceStore' = DOMAIN nonceStore \cup {issued}
      /\ issued \in Nat /\ issued' = issued + 1 /\ DOMAIN nonceStore \subseteq Nat
      /\ UNCHANGED <<grants, slot>>
  BY DEF IssueNonce, TypeOK, Nonce
<1>2. StoreIssued'
  BY <1>1 DEF NoncesInv, StoreIssued
<1>3. Unspent'
  BY <1>1 DEF NoncesInv, Unspent, Working, Nonce
<1>4. SpentOnce' /\ NonceBuysOneToken'
  BY <1>1 DEF NoncesInv, SpentOnce, Working, NonceBuysOneToken
<1> QED BY <1>2, <1>3, <1>4 DEF NoncesInv

(* A nonce leaves the store for one request. *)
LEMMA NoncesVerify ==
    ASSUME TypeOK, NoncesInv,
           NEW s \in Slot, NEW c \in Client, NEW n \in DOMAIN nonceStore,
           NEW w \in BOOLEAN, NEW i \in 0 .. MaxTime, NEW d \in Durations,
           Verify(s, c, n, w, i, d)
    PROVE  NoncesInv'
<1>1. /\ DOMAIN nonceStore' = DOMAIN nonceStore \ {n}
      /\ UNCHANGED <<issued, grants>> /\ n \in Nonce /\ n # Never
  BY DEF Verify, ConsumeNonce, TypeOK, Nonce, Never
<1>2. /\ ~Working(s)
      /\ \A t \in Slot \ {s} : slot'[t] = slot[t]
      /\ slot'[s].phase = "idle" \/ slot'[s].nonce = n
  BY VerifySlot DEF Working, Idle
<1>3. grants[n] = 0 /\ \A t \in Slot : Working(t) => slot[t].nonce # n
  BY <1>1 DEF NoncesInv, Unspent
<1>4. StoreIssued' /\ NonceBuysOneToken'
  BY <1>1 DEF NoncesInv, StoreIssued, NonceBuysOneToken
<1>5. Unspent'
  <2> SUFFICES ASSUME NEW m \in Nonce, m >= issued \/ m \in DOMAIN nonceStore \ {n}
               PROVE  /\ grants[m] = 0
                      /\ \A t \in Slot : slot'[t].phase # "idle" => slot'[t].nonce # m
    BY <1>1 DEF Unspent, Working
  <2>1. m # n
    <3>1. n < issued
      BY DEF NoncesInv, StoreIssued
    <3>2. n \in Nat /\ issued \in Nat
      BY <1>1 DEF TypeOK, Nonce
    <3> QED BY <3>1, <3>2
  <2> QED BY <1>1, <1>2, <2>1 DEF NoncesInv, Unspent, Working
<1>6. SpentOnce'
  BY <1>1, <1>2, <1>3 DEF NoncesInv, SpentOnce, Working
<1> QED BY <1>4, <1>5, <1>6 DEF NoncesInv

(* The one request that spends a nonce is answered, with a token or not. *)
LEMMA NoncesAnswer ==
    ASSUME TypeOK, NoncesInv, NEW s \in Slot, Answer(s)
    PROVE  NoncesInv'
<1> DEFINE n == slot[s].nonce
<1>1. /\ Working(s) /\ slot'[s].phase = "idle"
      /\ \A t \in Slot \ {s} : slot'[t] = slot[t]
      /\ n \in Nonce \cup {Never}
  BY FreedSlot, SlotTypes DEF Idle
<1>2. UNCHANGED <<nonceStore, issued>>
  BY DEF Answer
<1>3. CASE grants' = grants
  <2>1. \A t \in Slot : slot'[t].phase # "idle" =>
           Working(t) /\ slot'[t].nonce = slot[t].nonce
    BY <1>1 DEF Working
  <2> HIDE DEF n
  <2> QED BY <1>2, <1>3, <2>1, NoncesKept
<1>4. CASE n # Never /\ grants' = [grants EXCEPT ![n] = @ + 1]
  <2>1. /\ n \in Nonce /\ grants[n] = 0
        /\ \A t \in Slot : Working(t) /\ slot[t].nonce = n => t = s
    BY <1>1, <1>4 DEF NoncesInv, SpentOnce
  <2>2. grants'[n] = 1 /\ \A m \in Nonce \ {n} : grants'[m] = grants[m]
    BY <1>4, <2>1 DEF TypeOK
  <2> HIDE DEF n
  <2>3. ~(n >= issued \/ n \in DOMAIN nonceStore)
    BY <1>1, <2>1 DEF NoncesInv, Unspent, n
  <2>4. StoreIssued'
    BY <1>2 DEF NoncesInv, StoreIssued
  <2>5. NonceBuysOneToken'
    BY <2>1, <2>2 DEF NoncesInv, NonceBuysOneToken
  <2>6. Unspent'
    BY <1>1, <1>2, <2>2, <2>3 DEF NoncesInv, Unspent, Working
  <2>7. SpentOnce'
    <3> SUFFICES ASSUME NEW t \in Slot, slot'[t].phase # "idle", slot'[t].nonce # Never
                 PROVE  /\ grants'[slot'[t].nonce] = 0
                        /\ \A v \in Slot : slot'[v].phase # "idle" =>
                              (slot'[v].nonce = slot'[t].nonce => v = t)
      BY DEF SpentOnce, Working
    <3>1. t # s /\ slot'[t] = slot[t] /\ Working(t)
      BY <1>1 DEF Working
    <3>2. slot[t].nonce \in Nonce /\ slot[t].nonce # n
      <4>1. slot[t].nonce \in Nonce
        BY <3>1, SlotTypes
      <4>2. slot[t].nonce # n
        BY <2>1, <3>1
      <4> QED BY <4>1, <4>2
    <3>3. grants'[slot'[t].nonce] = 0
      BY <2>2, <3>1, <3>2 DEF NoncesInv, SpentOnce
    <3>4. \A v \in Slot : slot'[v].phase # "idle" => slot'[v] = slot[v] /\ Working(v)
      BY <1>1 DEF Working
    <3> QED BY <3>1, <3>3, <3>4 DEF NoncesInv, SpentOnce
  <2> QED BY <2>4, <2>5, <2>6, <2>7 DEF NoncesInv
<1> QED BY <1>3, <1>4 DEF Answer

LEMMA NoncesStep == ASSUME TypeOK, NoncesInv, [Next]_vars PROVE NoncesInv'
<1> USE DEF accounts, stores
<1>1. CASE UNCHANGED vars
  BY <1>1, NoncesKept DEF vars, Working
<1>2. CASE Tick
  BY <1>2, NoncesKept DEF Tick, Working
<1>3. ASSUME NEW c \in Client, Transfer(c) PROVE NoncesInv'
  BY <1>3, NoncesKept DEF Transfer, Working
<1>4. ASSUME NEW s \in Slot, NEW t \in tokens, Refresh(s, t) PROVE NoncesInv'
  BY <1>4, RefreshSlot, NoncesKept DEF Refresh, Working, Idle
<1>5. ASSUME NEW s \in Slot, GetApi(s) \/ ApiCreated(s) PROVE NoncesInv'
  <2>1. Working(s) /\ slot'[s].nonce = slot[s].nonce /\ \A t \in Slot \ {s} : slot'[t] = slot[t]
    BY <1>5, GetApiMoves, Moved DEF ApiCreated, Working
  <2> QED BY <1>5, <2>1, NoncesKept DEF GetApi, ApiCreated, Working
<1>6. ASSUME NEW s \in Slot, ApiFails(s) PROVE NoncesInv'
  BY <1>6, FreedSlot, NoncesKept DEF ApiFails, Working, Idle
<1>7. ASSUME NEW s \in Slot, NodeReads(s) PROVE NoncesInv'
  BY <1>7, ReadSlot, NoncesKept DEF NodeReads, Working
<1>8. ASSUME NEW t \in tokens, Forget(t) PROVE NoncesInv'
  BY <1>8, NoncesKept DEF Forget, Working
<1> QED BY <1>1, <1>2, <1>3, <1>4, <1>5, <1>6, <1>7, <1>8,
           NoncesIssue, NoncesVerify, NoncesAnswer DEF Next

-----------------------------------------------------------------------------
(* Connections. *)

LEMMA CreatingFinite ==
    /\ IsFiniteSet(Slot) /\ Cardinality(Slot) \in Nat
    /\ IsFiniteSet(Creating) /\ Cardinality(Creating) \in Nat
    /\ Cardinality(Creating) <= Cardinality(Slot)
<1>1. Creating \subseteq Slot
  BY DEF Creating
<1>2. IsFiniteSet(Slot)
  OBVIOUS
<1> QED BY <1>1, <1>2, FS_Subset, FS_CardinalityType

(* Nobody else starts to create a connection. *)
LEMMA ConnectionsKept ==
    ASSUME ConnectionsInv, UNCHANGED <<gearApi, connections>>,
           \A s \in Slot : slot'[s].phase = "creating" => slot[s].phase = "creating",
           TypeOK
    PROVE  ConnectionsInv'
<1>1. Creating' \subseteq Creating
  BY DEF Creating
<1>2. Cardinality(Creating') \in Nat /\ Cardinality(Creating') <= Cardinality(Creating)
  BY <1>1, CreatingFinite, FS_Subset, FS_CardinalityType
<1>3. connections \in Nat /\ connections + Cardinality(Creating) <= Cardinality(Slot)
  BY DEF TypeOK, ConnectionsInv
<1>4. connections + Cardinality(Creating') <= Cardinality(Slot)
  BY <1>2, <1>3, CreatingFinite
<1>5. (gearApi = 0 <=> connections = 0)'
  BY DEF ConnectionsInv
<1> QED BY <1>4, <1>5 DEF ConnectionsInv

LEMMA ConnectionsStep == ASSUME TypeOK, ConnectionsInv, [Next]_vars PROVE ConnectionsInv'
<1> USE DEF accounts, stores
<1>1. CASE UNCHANGED vars
  BY <1>1, ConnectionsKept DEF vars
<1>2. CASE Tick \/ IssueNonce
  BY <1>2, ConnectionsKept DEF Tick, IssueNonce
<1>3. ASSUME NEW c \in Client, Transfer(c) PROVE ConnectionsInv'
  BY <1>3, ConnectionsKept DEF Transfer
<1>4. ASSUME NEW s \in Slot, NEW c \in Client, NEW n \in DOMAIN nonceStore,
             NEW w \in BOOLEAN, NEW i \in 0 .. MaxTime, NEW d \in Durations,
             Verify(s, c, n, w, i, d)
      PROVE  ConnectionsInv'
  <2>1. \A t \in Slot : slot'[t].phase = "creating" => slot[t].phase = "creating"
    BY <1>4, VerifySlot DEF Idle
  <2> QED BY <1>4, <2>1, ConnectionsKept DEF Verify
<1>5. ASSUME NEW s \in Slot, NEW t \in tokens, Refresh(s, t) PROVE ConnectionsInv'
  BY <1>5, RefreshSlot, ConnectionsKept DEF Refresh, Idle
<1>6. ASSUME NEW s \in Slot, GetApi(s) PROVE ConnectionsInv'
  <2>1. UNCHANGED <<gearApi, connections>>
    BY <1>6 DEF GetApi
  <2>2. CASE gearApi = 0
    <3>1. connections = 0
      BY <2>2 DEF ConnectionsInv
    <3>2. Cardinality(Creating)' <= Cardinality(Slot) /\ Cardinality(Creating)' \in Nat
      <4>1. Creating' \subseteq Slot
        BY DEF Creating
      <4> QED BY <4>1, CreatingFinite, FS_Subset, FS_CardinalityType
    <3> QED BY <2>1, <2>2, <3>1, <3>2 DEF ConnectionsInv
  <2>3. CASE gearApi # 0
    BY <1>6, <2>1, <2>3, GetApiMoves, Moved, ConnectionsKept DEF GetApi
  <2> QED BY <2>2, <2>3
<1>7. ASSUME NEW s \in Slot, ApiCreated(s) PROVE ConnectionsInv'
  <2>1. /\ connections' = connections + 1 /\ gearApi' = connections + 1
        /\ connections \in Nat /\ s \in Creating
    BY <1>7 DEF ApiCreated, TypeOK, Creating
  <2>2. slot'[s].phase = "reading" /\ \A t \in Slot \ {s} : slot'[t] = slot[t]
    BY <1>7, Moved DEF ApiCreated, Working
  <2>3. Creating' = Creating \ {s}
    BY <2>2 DEF Creating
  <2>4. Cardinality(Creating') = Cardinality(Creating) - 1
    BY <2>1, <2>3, CreatingFinite, FS_RemoveElement
  <2>5. connections + Cardinality(Creating) <= Cardinality(Slot)
    BY DEF ConnectionsInv
  <2>6. connections' + Cardinality(Creating') <= Cardinality(Slot)
    BY <2>1, <2>4, <2>5, CreatingFinite
  <2>7. (gearApi = 0 <=> connections = 0)'
    BY <2>1
  <2> QED BY <2>6, <2>7 DEF ConnectionsInv
<1>8. ASSUME NEW s \in Slot, ApiFails(s) \/ Answer(s) PROVE ConnectionsInv'
  BY <1>8, FreedSlot, ConnectionsKept DEF ApiFails, Answer, Idle
<1>9. ASSUME NEW s \in Slot, NodeReads(s) PROVE ConnectionsInv'
  BY <1>9, ReadSlot, ConnectionsKept DEF NodeReads
<1>10. ASSUME NEW t \in tokens, Forget(t) PROVE ConnectionsInv'
  BY <1>10, ConnectionsKept DEF Forget
<1> QED BY <1>1, <1>2, <1>3, <1>4, <1>5, <1>6, <1>7, <1>8, <1>9, <1>10 DEF Next

-----------------------------------------------------------------------------
(* Access. *)

(* lastHeld only grows, so what rests on it stays. *)
LEMMA AccessKept ==
    ASSUME TypeOK, TypeOK', AccessInv, HeldNow', UNCHANGED now,
           \A c \in Client : lastHeld[c] <= lastHeld'[c],
           \A t \in tokens' : t \in tokens,
           \A s \in Slot : slot'[s].phase = "read" => slot'[s] = slot[s]
    PROVE  AccessInv'
<1>1. ASSUME NEW s \in Slot, slot'[s].phase = "read"
      PROVE  /\ slot'[s].since <= now /\ now <= slot'[s].since + MaxLatency
             /\ slot'[s].enough => slot'[s].since <= lastHeld'[slot'[s].sub]
  <2>1. slot'[s] = slot[s] /\ Working(s)
    BY <1>1 DEF Working
  <2>2. slot[s].sub \in Client /\ slot[s].since \in Nat
    BY <2>1, SlotTypes
  <2>3. lastHeld[slot[s].sub] \in Int /\ lastHeld'[slot[s].sub] \in Int
    BY <2>2 DEF TypeOK, Never
  <2> QED BY <1>1, <2>1, <2>2, <2>3 DEF AccessInv, AnswersFresh
<1>2. AnswersFresh'
  BY <1>1 DEF AnswersFresh
<1>3. TokensFresh'
  <2> SUFFICES ASSUME NEW t \in tokens
               PROVE  /\ lastHeld'[t.sub] # Never
                      /\ t.exp <= lastHeld'[t.sub] + JwtTTL + MaxLatency
    BY DEF TokensFresh
  <2>1. t.sub \in Client /\ t.exp \in Nat
    BY DEF TypeOK, Token
  <2>2. /\ lastHeld[t.sub] \in 0 .. MaxTime
        /\ t.exp <= lastHeld[t.sub] + JwtTTL + MaxLatency
    BY <2>1 DEF AccessInv, TokensFresh, TypeOK
  <2>3. lastHeld'[t.sub] \in Int /\ lastHeld[t.sub] <= lastHeld'[t.sub]
    BY <2>1 DEF TypeOK, Never
  <2> QED BY <2>1, <2>2, <2>3 DEF Never
<1> QED BY <1>2, <1>3 DEF AccessInv

LEMMA AccessTick == ASSUME TypeOK, TypeOK', AccessInv, Tick PROVE AccessInv'
<1>1. /\ now \in Nat /\ now' = now + 1
      /\ lastHeld' = [c \in Client |-> IF Close(balance[c]) THEN now + 1 ELSE lastHeld[c]]
      /\ UNCHANGED <<balance, tokens, slot>>
  BY DEF Tick, TypeOK, stores
<1>2. \A c \in Client : /\ lastHeld[c] \in Int /\ lastHeld[c] <= now
                        /\ lastHeld'[c] \in Int /\ lastHeld[c] <= lastHeld'[c]
  BY <1>1 DEF TypeOK, AccessInv, HeldNow, Never
<1>3. HeldNow'
  <2> SUFFICES ASSUME NEW c \in Client
               PROVE  lastHeld'[c] <= now' /\ (Close(balance'[c]) => lastHeld'[c] = now')
    BY DEF HeldNow, Close
  <2>1. lastHeld'[c] = IF Close(balance[c]) THEN now + 1 ELSE lastHeld[c]
    BY <1>1
  <2> QED BY <1>1, <1>2, <2>1
<1>4. AnswersFresh'
  <2> SUFFICES ASSUME NEW s \in Slot, slot[s].phase = "read"
               PROVE  /\ slot[s].since <= now + 1 /\ now + 1 <= slot[s].since + MaxLatency
                      /\ slot[s].enough => slot[s].since <= lastHeld'[slot[s].sub]
    BY <1>1 DEF AnswersFresh
  <2>1. slot[s].sub \in Client /\ slot[s].since \in Nat
    BY SlotTypes DEF Working
  <2>2. slot[s].since <= now /\ (slot[s].enough => slot[s].since <= lastHeld[slot[s].sub])
    BY DEF AccessInv, AnswersFresh
  <2>3. ~(now - slot[s].since >= MaxLatency)
    BY DEF Tick, Waiting
  <2> QED BY <1>1, <1>2, <2>1, <2>2, <2>3
<1>5. TokensFresh'
  <2> SUFFICES ASSUME NEW t \in tokens
               PROVE  /\ lastHeld'[t.sub] # Never
                      /\ t.exp <= lastHeld'[t.sub] + JwtTTL + MaxLatency
    BY <1>1 DEF TokensFresh
  <2>1. t.sub \in Client /\ t.exp \in Nat
    BY DEF TypeOK, Token
  <2>2. /\ lastHeld[t.sub] \in 0 .. MaxTime
        /\ t.exp <= lastHeld[t.sub] + JwtTTL + MaxLatency
    BY <2>1 DEF AccessInv, TokensFresh, TypeOK
  <2> QED BY <1>2, <2>1, <2>2 DEF Never
<1> QED BY <1>3, <1>4, <1>5 DEF AccessInv

LEMMA AccessTransfer ==
    ASSUME TypeOK, TypeOK', AccessInv, NEW c \in Client, Transfer(c)
    PROVE  AccessInv'
<1>1. PICK b \in Amounts :
         /\ balance' = [balance EXCEPT ![c] = b]
         /\ lastHeld' = IF Close(b) \/ Close(balance[c])
                        THEN [lastHeld EXCEPT ![c] = now] ELSE lastHeld
  BY DEF Transfer
<1>2. now \in Nat /\ UNCHANGED <<now, tokens, slot>>
  BY DEF Transfer, TypeOK, stores
<1>3. \A d \in Client : lastHeld[d] \in Int /\ lastHeld[d] <= now
  BY DEF TypeOK, AccessInv, HeldNow, Never
<1>4. ASSUME NEW d \in Client
      PROVE  /\ lastHeld[d] <= lastHeld'[d] /\ lastHeld'[d] <= now
             /\ Close(balance'[d]) => lastHeld'[d] = now
  <2>1. CASE d = c
    <3>1. balance'[c] = b
      BY <1>1 DEF TypeOK
    <3>2. CASE Close(b) \/ Close(balance[c])
      <4>1. lastHeld'[c] = now
        BY <1>1, <3>2 DEF TypeOK
      <4> QED BY <1>2, <1>3, <2>1, <4>1
    <3>3. CASE ~(Close(b) \/ Close(balance[c]))
      BY <1>1, <1>2, <1>3, <2>1, <3>1, <3>3
    <3> QED BY <3>2, <3>3
  <2>2. CASE d # c
    <3>1. balance'[d] = balance[d] /\ lastHeld'[d] = lastHeld[d]
      BY <1>1, <2>2 DEF TypeOK
    <3> QED BY <1>3, <3>1 DEF AccessInv, HeldNow
  <2> QED BY <2>1, <2>2
<1>5. HeldNow'
  BY <1>2, <1>4 DEF HeldNow, Close
<1> QED BY <1>2, <1>4, <1>5, AccessKept

LEMMA AccessRead ==
    ASSUME TypeOK, TypeOK', AccessInv, NEW s \in Slot, NodeReads(s)
    PROVE  AccessInv'
<1>1. /\ UNCHANGED <<now, balance, lastHeld, tokens>> /\ now \in Nat
      /\ slot[s].sub \in Client /\ balance[slot[s].sub] \in Nat
  <2>1. UNCHANGED <<now, balance, lastHeld, tokens>> /\ Working(s)
    BY DEF NodeReads, accounts, stores, Working
  <2>2. slot[s].sub \in Client
    BY <2>1, SlotTypes
  <2>3. balance[slot[s].sub] \in Amounts
    BY <2>2 DEF TypeOK
  <2>4. now \in Nat
    BY DEF TypeOK
  <2> QED BY <2>1, <2>2, <2>3, <2>4
<1>2. HeldNow'
  BY <1>1 DEF AccessInv, HeldNow, Close
<1>3. /\ slot'[s].sub = slot[s].sub /\ slot'[s].since = now
      /\ slot'[s].enough => Close(balance[slot[s].sub])
      /\ \A t \in Slot \ {s} : slot'[t] = slot[t]
  BY <1>1, ReadSlot, RoundsClose
<1>4. AnswersFresh'
  <2> SUFFICES ASSUME NEW t \in Slot, slot'[t].phase = "read"
               PROVE  /\ slot'[t].since <= now /\ now <= slot'[t].since + MaxLatency
                      /\ slot'[t].enough => slot'[t].since <= lastHeld[slot'[t].sub]
    BY <1>1 DEF AnswersFresh
  <2>1. CASE t = s
    BY <1>1, <1>3, <2>1 DEF AccessInv, HeldNow
  <2>2. CASE t # s
    BY <1>3, <2>2 DEF AccessInv, AnswersFresh
  <2> QED BY <2>1, <2>2
<1>5. TokensFresh'
  BY <1>1 DEF AccessInv, TokensFresh
<1> QED BY <1>2, <1>4, <1>5 DEF AccessInv

LEMMA AccessAnswer ==
    ASSUME TypeOK, TypeOK', AccessInv, NEW s \in Slot, Answer(s)
    PROVE  AccessInv'
<1>1. /\ UNCHANGED <<now, balance, lastHeld>> /\ now \in Nat
      /\ slot[s].phase = "read" /\ Working(s)
      /\ \A t \in Slot : slot'[t].phase = "read" => slot'[t] = slot[t]
  BY FreedSlot DEF Answer, accounts, TypeOK, Working, Idle
<1>2. HeldNow'
  BY <1>1 DEF AccessInv, HeldNow, Close
<1>3. AnswersFresh'
  BY <1>1 DEF AccessInv, AnswersFresh
<1>4. TokensFresh'
  <2> SUFFICES ASSUME NEW t \in tokens'
               PROVE  /\ lastHeld[t.sub] # Never
                      /\ t.exp <= lastHeld[t.sub] + JwtTTL + MaxLatency
    BY <1>1 DEF TokensFresh
  <2>1. CASE t \in tokens
    BY <2>1 DEF AccessInv, TokensFresh
  <2>2. CASE t \notin tokens
    <3>1. slot[s].enough /\ t.sub = slot[s].sub /\ t.exp = now + JwtTTL
      BY <2>2 DEF Answer, JwtFor
    <3>2. slot[s].sub \in Client /\ slot[s].since \in Nat
      BY <1>1, SlotTypes
    <3>3. now <= slot[s].since + MaxLatency /\ slot[s].since <= lastHeld[slot[s].sub]
      BY <1>1, <3>1 DEF AccessInv, AnswersFresh
    <3>4. lastHeld[slot[s].sub] \in Int
      BY <3>2 DEF TypeOK, Never
    <3> QED BY <1>1, <3>1, <3>2, <3>3, <3>4 DEF Never
  <2> QED BY <2>1, <2>2
<1> QED BY <1>2, <1>3, <1>4 DEF AccessInv

LEMMA AccessStep ==
    ASSUME Recheck, TypeOK, TypeOK', AccessInv, [Next]_vars
    PROVE  AccessInv'
<1> USE DEF accounts, stores
<1>1. ASSUME UNCHANGED <<now, accounts>>, \A t \in tokens' : t \in tokens,
             \A s \in Slot : slot'[s].phase = "read" => slot'[s] = slot[s]
      PROVE  AccessInv'
  <2>1. HeldNow'
    BY <1>1 DEF AccessInv, HeldNow, Close
  <2>2. \A c \in Client : lastHeld[c] <= lastHeld'[c]
    BY <1>1 DEF TypeOK, Never
  <2> QED BY <1>1, <2>1, <2>2, AccessKept
<1>2. CASE UNCHANGED vars
  BY <1>1, <1>2 DEF vars
<1>3. CASE IssueNonce
  BY <1>1, <1>3 DEF IssueNonce
<1>4. ASSUME NEW s \in Slot, NEW c \in Client, NEW n \in DOMAIN nonceStore,
             NEW w \in BOOLEAN, NEW i \in 0 .. MaxTime, NEW d \in Durations,
             Verify(s, c, n, w, i, d)
      PROVE  AccessInv'
  <2>1. \A t \in Slot : slot'[t].phase = "read" => slot'[t] = slot[t]
    BY <1>4, VerifySlot DEF Idle
  <2> QED BY <1>1, <1>4, <2>1 DEF Verify
<1>5. ASSUME NEW s \in Slot, NEW t \in tokens, Refresh(s, t) PROVE AccessInv'
  <2>1. \A u \in Slot : slot'[u].phase = "read" => slot'[u] = slot[u]
    BY <1>5, RefreshSlot DEF Idle
  <2> QED BY <1>1, <1>5, <2>1 DEF Refresh
<1>6. ASSUME NEW s \in Slot, GetApi(s) \/ ApiCreated(s) PROVE AccessInv'
  <2>1. slot'[s].phase \in {"creating", "reading"} /\ \A t \in Slot \ {s} : slot'[t] = slot[t]
    BY <1>6, GetApiMoves, Moved DEF ApiCreated, Working
  <2> QED BY <1>1, <1>6, <2>1 DEF GetApi, ApiCreated
<1>7. ASSUME NEW s \in Slot, ApiFails(s) PROVE AccessInv'
  BY <1>1, <1>7, FreedSlot DEF ApiFails, Idle
<1>8. ASSUME NEW t \in tokens, Forget(t) PROVE AccessInv'
  BY <1>1, <1>8 DEF Forget
<1> QED BY <1>2, <1>3, <1>4, <1>5, <1>6, <1>7, <1>8,
           AccessTick, AccessTransfer, AccessRead, AccessAnswer DEF Next

-----------------------------------------------------------------------------
LEMMA IInvInit == Init => IInv /\ AccessInv
<1> SUFFICES ASSUME Init PROVE IInv /\ AccessInv
  OBVIOUS
<1>1. TypeOK
  <2>1. slot \in [Slot -> Request \cup {Idle}] /\ balance \in [Client -> Amounts]
    BY DEF Init
  <2>2. DOMAIN nonceStore = {}
    BY DEF Init
  <2> QED BY <2>1, <2>2 DEF Init, TypeOK
<1>2. \A s \in Slot : slot[s].phase = "idle"
  BY DEF Init, Idle
<1>3. DOMAIN nonceStore = {} /\ \A n \in Nonce : grants[n] = 0
  BY DEF Init
<1>4. NoncesInv
  BY <1>2, <1>3 DEF NoncesInv, StoreIssued, Unspent, SpentOnce, NonceBuysOneToken, Working
<1>5. ConnectionsInv
  <2>1. Creating = {}
    BY <1>2 DEF Creating
  <2>2. gearApi = 0 /\ connections = 0
    BY DEF Init
  <2> QED BY <2>1, <2>2, CreatingFinite, FS_EmptySet DEF ConnectionsInv
<1>6. AccessInv
  <2>1. HeldNow
    BY DEF Init, HeldNow, Never
  <2> QED BY <1>2, <2>1 DEF Init, AccessInv, AnswersFresh, TokensFresh
<1> QED BY <1>1, <1>4, <1>5, <1>6 DEF IInv

LEMMA Inductive == Spec => []IInv
<1>1. Init => IInv
  BY IInvInit
<1>2. IInv /\ [Next]_vars => IInv'
  BY TypeStep, NoncesStep, ConnectionsStep DEF IInv
<1> QED BY <1>1, <1>2, PTL DEF Spec

-----------------------------------------------------------------------------
(* The stores, the requests under way and the tokens keep their types. *)
THEOREM TypeCorrect == Spec => []TypeOK
<1>1. IInv => TypeOK
  BY DEF IInv
<1> QED BY Inductive, <1>1, PTL

(* A nonce buys one token at most, however the requests that carry it      *)
(* overlap (auth.ts:24-29, server.ts:109-178).                             *)
THEOREM OneTokenPerNonce == Spec => []NonceBuysOneToken
<1>1. IInv => NonceBuysOneToken
  BY DEF IInv, NoncesInv
<1> QED BY Inductive, <1>1, PTL

(* The requests that find no connection are the only ones to make one      *)
(* (server.ts:63-78).                                                      *)
THEOREM FewConnections == Spec => []ConnectionsBounded
<1>1. IInv => ConnectionsBounded
  <2> SUFFICES ASSUME IInv PROVE ConnectionsBounded
    OBVIOUS
  <2>1. connections \in Nat /\ connections + Cardinality(Creating) <= Cardinality(Slot)
    BY DEF IInv, TypeOK, ConnectionsInv
  <2> QED BY <2>1, CreatingFinite DEF ConnectionsBounded
<1> QED BY Inductive, <1>1, PTL

(* Where a refresh reads the balance again, access ends with the tokens it *)
(* is for, within a JWT's lifetime and a balance read, and rounding lets   *)
(* none in that is not close to the threshold (server.ts:109-226,          *)
(* gear.ts:45-46).  Without RECHECK_ON_REFRESH it may be refreshed for     *)
(* ever.                                                                   *)
THEOREM AccessIsCurrent == Recheck => (Spec => []AccessFollowsTokens)
<1> SUFFICES ASSUME Recheck PROVE Spec => []AccessFollowsTokens
  OBVIOUS
<1>1. Init => TypeOK /\ AccessInv
  BY IInvInit DEF IInv
<1>2. (TypeOK /\ AccessInv) /\ [Next]_vars => (TypeOK /\ AccessInv)'
  BY TypeStep, AccessStep
<1>3. TypeOK /\ AccessInv => AccessFollowsTokens
  <2> SUFFICES ASSUME TypeOK, AccessInv, NEW c \in Client, HasAccess(c)
               PROVE  lastHeld[c] # Never /\ now - lastHeld[c] < JwtTTL + MaxLatency
    BY DEF AccessFollowsTokens
  <2>1. PICK t \in tokens : t.sub = c /\ now < t.exp
    BY DEF HasAccess, Valid
  <2>2. now \in Nat /\ t.exp \in Nat /\ lastHeld[c] \in Int
    BY DEF TypeOK, Token, Never
  <2>3. lastHeld[c] # Never /\ t.exp <= lastHeld[c] + JwtTTL + MaxLatency
    BY <2>1 DEF AccessInv, TokensFresh
  <2> QED BY <2>1, <2>2, <2>3
<1> QED BY <1>1, <1>2, <1>3, PTL DEF Spec
=============================================================================
