--------------------- MODULE DelayedSelfMessageProofs ---------------------
(***************************************************************************)
(* What DelayedSelfMessage guarantees for any number of users, any block   *)
(* and version ceiling and any number of delayed messages.                 *)
(***************************************************************************)
EXTENDS DelayedSelfMessage, TLAPS

(* A saturating addition stays below its ceiling and, below the ceiling,   *)
(* is the addition (u32/u64::saturating_add).                              *)
LEMMA SatAddProperties ==
    ASSUME NEW max \in Nat, NEW x \in 0 .. max, NEW y \in Nat
    PROVE  /\ SatAdd(x, y, max) \in 0 .. max
           /\ SatAdd(x, y, max) >= x
           /\ x + y <= max => SatAdd(x, y, max) = x + y
  BY DEF SatAdd

(* The version after a change: one more, or the ceiling again. *)
LEMMA BumpProperties ==
    ASSUME NEW v \in Version
    PROVE  /\ Bump(v) \in Version
           /\ Bump(v) >= v
           /\ v < MaxVersion => Bump(v) = v + 1
  BY DelayedAssumption DEF Bump, SatAdd, Version

(* A deadline is a block number, not before the current block. *)
LEMMA DueProperties ==
    ASSUME height \in Height, NEW d \in Delays, d # 0
    PROVE  /\ Due(d) \in Height
           /\ Due(d) > height \/ Due(d) = MaxHeight
           /\ Due(d) # 0
  BY DelayedAssumption DEF Due, SatAdd, Height

-----------------------------------------------------------------------------
(* The types of the state, preserved by every action (State, Lock and the  *)
(* delayed messages of the contract).                                      *)
LEMMA TypeStep == ASSUME TypeOK, Next PROVE TypeOK'
<1> USE DelayedAssumption
<1>1. CASE NextBlock
  BY <1>1 DEF NextBlock, TypeOK, Height
<1>2. ASSUME NEW u \in User, NEW d \in Delays, Start(u, d) \/ Renew(u, d)
      PROVE  TypeOK'
  <2>1. Due(d) \in Height /\ Bump(locks[u].version) \in Version
    BY <1>2, DueProperties, BumpProperties DEF TypeOK, Lock, Start, Renew, Arm
  <2>2. PICK kind \in {"Started", "Renewed"} :
               Arm(u, d, Bump(locks[u].version), kind)
    BY <1>2 DEF Start, Renew
  <2> DEFINE v == Bump(locks[u].version)
             m == [id |-> sent, user |-> u, version |-> v, due |-> Due(d)]
  <2>3. m \in Message
    BY <2>1 DEF TypeOK, Message
  <2>4. pending' = pending \cup {m} /\ sent' = sent + 1 /\ UNCHANGED <<height, burnt>>
    BY <2>2 DEF Arm, ScheduleExpire
  <2>5. locks' \in [User -> Lock]
    BY <2>1, <2>2 DEF TypeOK, Arm, Lock
  <2>6. event' \in [User -> Event]
    BY <2>1, <2>2 DEF TypeOK, Arm, Event, Height
  <2>7. QED BY <2>3, <2>4, <2>5, <2>6 DEF TypeOK
<1>3. ASSUME NEW u \in User, NEW kind \in {"Cancelled", "Expired"},
             Deactivate(u, kind)
      PROVE  locks' \in [User -> Lock] /\ event' \in [User -> Event]
  <2>1. Bump(locks[u].version) \in Version /\ 0 \in Height
    BY BumpProperties DEF TypeOK, Lock, Height
  <2>2. Deactivated(locks[u]) \in Lock
    BY <2>1 DEF TypeOK, Lock, Deactivated
  <2>3. QED BY <1>3, <2>1, <2>2 DEF TypeOK, Deactivate, Event, Lock
<1>4. ASSUME NEW u \in User, Cancel(u) PROVE TypeOK'
  BY <1>3, <1>4 DEF Cancel, TypeOK
<1>5. ASSUME NEW s, NEW u \in User, NEW v, Expire(s, u, v)
      PROVE  locks' \in [User -> Lock] /\ event' \in [User -> Event]
  BY <1>3, <1>5 DEF Expire, TypeOK
<1>6. ASSUME NEW m \in pending, DeliverExpire(m) PROVE TypeOK'
  <2>1. m.user \in User BY DEF TypeOK, Message
  <2>2. QED BY <1>5, <1>6, <2>1 DEF DeliverExpire, TypeOK
<1>7. ASSUME NEW m \in pending, ExpireFails(m) PROVE TypeOK'
  BY <1>7 DEF ExpireFails, TypeOK
<1>8. ASSUME NEW s \in User, NEW u \in User, NEW v \in Version,
             CallExpire(s, u, v)
      PROVE  TypeOK'
  BY <1>5, <1>8 DEF CallExpire, TypeOK
<1>9. QED BY <1>1, <1>2, <1>4, <1>6, <1>7, <1>8 DEF Next

(* Every reachable state is well typed. *)
THEOREM TypeCorrect == Spec => []TypeOK
<1>1. Init => TypeOK
  BY DelayedAssumption DEF Init, TypeOK, NoLock, NoEvent, Lock, Event, Height, Version
<1>2. TypeOK /\ [Next]_vars => TypeOK'
  <2>1. TypeOK /\ UNCHANGED vars => TypeOK' BY DEF TypeOK, vars
  <2>2. QED BY <2>1, TypeStep
<1>3. QED BY <1>1, <1>2, PTL DEF Spec

-----------------------------------------------------------------------------
(***************************************************************************)
(* The version argument.  No message on its way is newer than its user's   *)
(* lock, so a bump outdates them all; that makes the message of a new term *)
(* the only one with the new version.  NoStaleMatch alone is not inductive *)
(* because it says nothing of the versions a later bump could reach.       *)
(***************************************************************************)
NoNewerMessage ==
    \A m \in pending : m.version <= locks[m.user].version

MatchingIsTimer ==
    \A m \in pending :
        m.version = locks[m.user].version /\ m.version < MaxVersion
            => locks[m.user].active /\ m.due = locks[m.user].expires_at

OneMessagePerVersion ==
    \A m, n \in pending :
        m.user = n.user /\ m.version = n.version /\ m.version < MaxVersion
            => m = n

IInv == NoNewerMessage /\ MatchingIsTimer /\ OneMessagePerVersion

(* The invariant the induction carries implies what the runs check. *)
LEMMA IInvImpliesNoStaleMatch == ASSUME TypeOK, IInv PROVE NoStaleMatch
  BY DEF IInv, MatchingIsTimer, OneMessagePerVersion, NoStaleMatch, IsTimerOf

(* Start and renew: the new message has the new version, the others are at *)
(* most at the old one.                                                    *)
LEMMA ArmKeepsIInv ==
    ASSUME TypeOK, IInv, NEW u \in User, NEW d \in Delays, NEW kind,
           Arm(u, d, Bump(locks[u].version), kind)
    PROVE  IInv'
<1> DEFINE v == Bump(locks[u].version)
           m0 == [id |-> sent, user |-> u, version |-> v, due |-> Due(d)]
<1>1. /\ pending' = pending \cup {m0}
      /\ m0.user = u /\ m0.version = v /\ m0.due = Due(d)
  BY DEF Arm, ScheduleExpire
<1>2. /\ locks'[u].active /\ locks'[u].version = v
      /\ locks'[u].expires_at = Due(d)
      /\ \A w \in User : w # u => locks'[w] = locks[w]
  BY DEF Arm, TypeOK
<1>3. /\ locks[u].version \in Version /\ v \in Version
      /\ v >= locks[u].version
      /\ locks[u].version < MaxVersion => v = locks[u].version + 1
  BY BumpProperties DEF TypeOK, Lock
<1>4. \A m \in pending : m.user \in User /\ m.version \in Version
                         /\ locks[m.user].version \in Version
  BY DEF TypeOK, Message, Lock
<1>5. \A m \in pending : m.user = u /\ v < MaxVersion => m.version < v
  BY <1>3, <1>4, DelayedAssumption DEF IInv, NoNewerMessage, Version
<1> HIDE DEF v, m0
<1>6. NoNewerMessage'
  BY <1>1, <1>2, <1>3, <1>4 DEF IInv, NoNewerMessage, Version
<1>7. MatchingIsTimer'
  BY <1>1, <1>2, <1>3, <1>4, <1>5 DEF IInv, MatchingIsTimer, Version
<1>8. OneMessagePerVersion'
  BY <1>1, <1>3, <1>4, <1>5 DEF IInv, OneMessagePerVersion, Version
<1>9. QED BY <1>6, <1>7, <1>8 DEF IInv

(* Cancel and an effective expire: the lock moves past every message. *)
LEMMA DeactivateKeepsIInv ==
    ASSUME TypeOK, IInv, NEW u \in User, NEW kind, Deactivate(u, kind),
           pending' \subseteq pending
    PROVE  IInv'
<1>1. /\ locks'[u].version = Bump(locks[u].version)
      /\ \A w \in User : w # u => locks'[w] = locks[w]
  BY DEF Deactivate, Deactivated, TypeOK, Lock
<1>2. /\ locks[u].version \in Version /\ Bump(locks[u].version) \in Version
      /\ Bump(locks[u].version) >= locks[u].version
      /\ locks[u].version < MaxVersion
            => Bump(locks[u].version) = locks[u].version + 1
  BY BumpProperties DEF TypeOK, Lock
<1>3. \A m \in pending : m.user \in User /\ m.version \in Version
                         /\ locks[m.user].version \in Version
  BY DEF TypeOK, Message, Lock
<1>4. NoNewerMessage'
  BY <1>1, <1>2, <1>3, DelayedAssumption DEF IInv, NoNewerMessage, Version
<1>5. MatchingIsTimer'
  BY <1>1, <1>2, <1>3, DelayedAssumption
     DEF IInv, NoNewerMessage, MatchingIsTimer, Version
<1>6. OneMessagePerVersion' BY DEF IInv, OneMessagePerVersion
<1>7. QED BY <1>4, <1>5, <1>6 DEF IInv

(* Removing messages while the locks stay as they are. *)
LEMMA DropKeepsIInv ==
    ASSUME IInv, locks' = locks, pending' \subseteq pending PROVE IInv'
  BY DEF IInv, NoNewerMessage, MatchingIsTimer, OneMessagePerVersion

LEMMA IInvStep == ASSUME TypeOK, IInv, [Next]_vars PROVE IInv'
<1>1. CASE UNCHANGED vars BY <1>1, DropKeepsIInv DEF vars
<1>2. CASE NextBlock BY <1>2, DropKeepsIInv DEF NextBlock
<1>3. ASSUME NEW u \in User, NEW d \in Delays, Start(u, d) \/ Renew(u, d)
      PROVE  IInv'
  BY <1>3, ArmKeepsIInv DEF Start, Renew
<1>4. ASSUME NEW u \in User, Cancel(u) PROVE IInv'
  BY <1>4, DeactivateKeepsIInv DEF Cancel
<1>5. ASSUME NEW s, NEW u \in User, NEW v, Expire(s, u, v),
             pending' \subseteq pending
      PROVE  IInv'
  BY <1>5, DeactivateKeepsIInv, DropKeepsIInv DEF Expire
<1>6. ASSUME NEW m \in pending, DeliverExpire(m) PROVE IInv'
  <2>1. m.user \in User BY DEF TypeOK, Message
  <2>2. QED BY <1>5, <1>6, <2>1 DEF DeliverExpire
<1>7. ASSUME NEW m \in pending, ExpireFails(m) PROVE IInv'
  BY <1>7, DropKeepsIInv DEF ExpireFails
<1>8. ASSUME NEW s \in User, NEW u \in User, NEW v \in Version,
             CallExpire(s, u, v)
      PROVE  IInv'
  BY <1>5, <1>8 DEF CallExpire
<1>9. QED BY <1>1, <1>2, <1>3, <1>4, <1>6, <1>7, <1>8 DEF Next

(* A stale delayed message never matches a lock below the version ceiling. *)
THEOREM StaleNeverMatches == Spec => []NoStaleMatch
<1>1. Init => IInv
  BY DEF Init, IInv, NoNewerMessage, MatchingIsTimer, OneMessagePerVersion
<1>2. TypeOK /\ IInv /\ [Next]_vars => IInv' BY IInvStep
<1>3. TypeOK /\ IInv => NoStaleMatch BY IInvImpliesNoStaleMatch
<1>4. QED BY <1>1, <1>2, <1>3, TypeCorrect, PTL DEF Spec

-----------------------------------------------------------------------------
(* A lock is never active without a timer: the term's own message is on    *)
(* its way until it is executed, and executing it ends the term or fails.  *)
LEMMA TimerStep ==
    ASSUME TypeOK, ActiveLockHasTimer, [Next]_vars PROVE ActiveLockHasTimer'
<1>1. CASE UNCHANGED vars
  BY <1>1 DEF vars, ActiveLockHasTimer, IsTimerOf
<1>2. CASE NextBlock
  BY <1>2 DEF NextBlock, ActiveLockHasTimer, IsTimerOf
<1>3. ASSUME NEW u \in User, NEW d \in Delays, Start(u, d) \/ Renew(u, d)
      PROVE  ActiveLockHasTimer'
  <2>1. PICK kind : Arm(u, d, Bump(locks[u].version), kind)
    BY <1>3 DEF Start, Renew
  <2> DEFINE m0 == [id |-> sent, user |-> u,
                    version |-> Bump(locks[u].version), due |-> Due(d)]
  <2>2. pending' = pending \cup {m0} /\ burnt' = burnt
    BY <2>1 DEF Arm, ScheduleExpire
  <2>3. /\ locks'[u].version = m0.version /\ locks'[u].expires_at = m0.due
        /\ \A w \in User : w # u => locks'[w] = locks[w]
    BY <2>1 DEF Arm, TypeOK
  <2>4. m0.user = u OBVIOUS
  <2> HIDE DEF m0
  <2>5. ASSUME NEW w \in User, locks'[w].active
        PROVE  \E n \in pending' \cup burnt' : IsTimerOf(n, w)'
    <3>1. CASE w = u BY <2>2, <2>3, <2>4, <3>1 DEF IsTimerOf
    <3>2. CASE w # u
      BY <2>2, <2>3, <2>5, <3>2 DEF ActiveLockHasTimer, IsTimerOf
    <3>3. QED BY <3>1, <3>2
  <2>6. QED BY <2>5 DEF ActiveLockHasTimer
<1>4. ASSUME NEW u \in User, NEW kind, Deactivate(u, kind)
      PROVE  /\ ~locks'[u].active
             /\ \A w \in User : w # u => locks'[w] = locks[w]
  BY <1>4 DEF Deactivate, Deactivated, TypeOK, Lock
<1>5. ASSUME NEW u \in User, Cancel(u) PROVE ActiveLockHasTimer'
  BY <1>4, <1>5 DEF Cancel, ActiveLockHasTimer, IsTimerOf
<1>6. ASSUME NEW m \in pending, DeliverExpire(m) PROVE ActiveLockHasTimer'
  <2>1. m.user \in User BY DEF TypeOK, Message
  <2>2. CASE Expirable(Program, m.user, m.version)
    <3>1. Deactivate(m.user, "Expired") /\ pending' = pending \ {m}
          /\ burnt' = burnt
      BY <1>6, <2>2 DEF DeliverExpire, Expire
    <3>2. ASSUME NEW w \in User, locks'[w].active
          PROVE  \E n \in pending' \cup burnt' : IsTimerOf(n, w)'
      <4>1. w # m.user /\ locks'[w] = locks[w] BY <1>4, <2>1, <3>1, <3>2
      <4>2. PICK n \in pending \cup burnt : IsTimerOf(n, w)
        BY <3>2, <4>1 DEF ActiveLockHasTimer
      <4>3. n # m BY <4>1, <4>2 DEF IsTimerOf
      <4>4. QED BY <3>1, <4>1, <4>2, <4>3 DEF IsTimerOf
    <3>3. QED BY <3>2 DEF ActiveLockHasTimer
  <2>3. CASE ~Expirable(Program, m.user, m.version)
    <3>1. locks' = locks /\ pending' = pending \ {m} /\ burnt' = burnt
      BY <1>6, <2>3 DEF DeliverExpire, Expire
    <3>2. \A w \in User : locks[w].active => ~IsTimerOf(m, w)
      BY <1>6, <2>3 DEF IsTimerOf, Expirable, DeliverExpire
    <3>3. QED BY <3>1, <3>2 DEF ActiveLockHasTimer, IsTimerOf
  <2>4. QED BY <2>2, <2>3
<1>7. ASSUME NEW m \in pending, ExpireFails(m) PROVE ActiveLockHasTimer'
  BY <1>7 DEF ExpireFails, ActiveLockHasTimer, IsTimerOf
<1>8. ASSUME NEW s \in User, NEW u \in User, NEW v \in Version,
             CallExpire(s, u, v)
      PROVE  ActiveLockHasTimer'
  <2>1. locks' = locks /\ pending' = pending /\ burnt' = burnt
    BY <1>8, DelayedAssumption DEF CallExpire, Expire, Expirable
  <2>2. QED BY <2>1 DEF ActiveLockHasTimer, IsTimerOf
<1>9. QED BY <1>1, <1>2, <1>3, <1>5, <1>6, <1>7, <1>8 DEF Next

(* As long as a lock is active, the Expire of its own term is on its way,  *)
(* or was executed and failed: at any version, the ceiling included.       *)
THEOREM NeverWithoutTimer == Spec => []ActiveLockHasTimer
<1>1. Init => ActiveLockHasTimer
  BY DEF Init, NoLock, ActiveLockHasTimer
<1>2. TypeOK /\ ActiveLockHasTimer /\ [Next]_vars => ActiveLockHasTimer'
  BY TimerStep
<1>3. QED BY <1>1, <1>2, TypeCorrect, PTL DEF Spec

-----------------------------------------------------------------------------
(* How a term can end. Only cancel and an effective expire clear a lock.   *)
LEMMA HowATermEnds ==
    ASSUME TypeOK, [Next]_vars, NEW u \in User,
           locks[u].active, ~locks'[u].active
    PROVE  \/ Cancel(u)
           \/ \E m \in pending : /\ DeliverExpire(m)
                                 /\ m.user = u
                                 /\ Expirable(Program, u, m.version)
<1>1. CASE UNCHANGED vars BY <1>1 DEF vars
<1>2. CASE NextBlock BY <1>2 DEF NextBlock
<1>3. ASSUME NEW w \in User, NEW d \in Delays, Start(w, d) \/ Renew(w, d)
      PROVE  FALSE
  BY <1>3 DEF Start, Renew, Arm, TypeOK
<1>4. ASSUME NEW w \in User, Cancel(w) PROVE Cancel(u)
  BY <1>4 DEF Cancel, Deactivate, TypeOK
<1>5. ASSUME NEW m \in pending, DeliverExpire(m)
      PROVE  m.user = u /\ Expirable(Program, u, m.version)
  BY <1>5 DEF DeliverExpire, Expire, Deactivate, TypeOK
<1>6. ASSUME NEW m \in pending, ExpireFails(m) PROVE FALSE
  BY <1>6 DEF ExpireFails
<1>7. ASSUME NEW s \in User, NEW w \in User, NEW v \in Version,
             CallExpire(s, w, v)
      PROVE  FALSE
  BY <1>7, DelayedAssumption DEF CallExpire, Expire, Expirable
<1>8. QED BY <1>1, <1>2, <1>3, <1>4, <1>5, <1>6, <1>7 DEF Next

(* The deadline check alone keeps a term from ending early; it needs no    *)
(* assumption about versions, so it holds at the ceiling too.              *)
THEOREM NeverEarly == Spec => EndsEarlyOnlyByCancel
<1>1. ASSUME TypeOK, [Next]_vars, NEW u \in User,
             locks[u].active, ~locks'[u].active
      PROVE  event'[u].kind = "Cancelled" \/ height >= locks[u].expires_at
  <2>1. CASE Cancel(u)
    BY <1>1, <2>1 DEF Cancel, Deactivate, TypeOK
  <2>2. CASE ~Cancel(u)
    BY <1>1, <2>2, HowATermEnds DEF Expirable
  <2>3. QED BY <2>1, <2>2
<1> DEFINE Early == \A u \in User :
                      locks[u].active /\ ~locks'[u].active
                        => \/ event'[u].kind = "Cancelled"
                           \/ height >= locks[u].expires_at
<1>2. TypeOK /\ [Next]_vars => [Early]_vars BY <1>1
<1>3. QED BY <1>2, TypeCorrect, PTL DEF Spec, EndsEarlyOnlyByCancel

(* Below the ceiling a term that expires is ended by its own message.      *)
THEOREM OnlyOwnTimer == Spec => OnlyOwnTimerExpires
<1>1. ASSUME TypeOK, NoStaleMatch, [Next]_vars, NEW u \in User,
             locks[u].active, ~locks'[u].active,
             event'[u].kind = "Expired", locks[u].version < MaxVersion
      PROVE  \E m \in pending \ pending' : IsTimerOf(m, u)
  <2>1. ~Cancel(u) BY <1>1 DEF Cancel, Deactivate, TypeOK
  <2>2. PICK m \in pending : /\ DeliverExpire(m)
                             /\ m.user = u
                             /\ Expirable(Program, u, m.version)
    BY <1>1, <2>1, HowATermEnds
  <2>3. m \in pending \ pending' BY <2>2 DEF DeliverExpire
  <2>4. IsTimerOf(m, u) BY <1>1, <2>2 DEF NoStaleMatch, Expirable
  <2>5. QED BY <2>3, <2>4
<1> DEFINE Own == \A u \in User :
                    (/\ locks[u].active /\ ~locks'[u].active
                     /\ event'[u].kind = "Expired"
                     /\ locks[u].version < MaxVersion)
                    => \E m \in pending \ pending' : IsTimerOf(m, u)
<1>2. TypeOK /\ NoStaleMatch /\ [Next]_vars => [Own]_vars BY <1>1
<1>3. QED BY <1>2, TypeCorrect, StaleNeverMatches, PTL
          DEF Spec, OnlyOwnTimerExpires

-----------------------------------------------------------------------------
(* What a step may do to one lock and its last event: nothing, arm the     *)
(* lock, or end its term.                                                  *)
Untouched(u) == locks'[u] = locks[u] /\ event'[u] = event[u]

Armed(u) ==
    \E d \in Delays :
        /\ d # 0
        /\ locks'[u].active
        /\ locks'[u].expires_at = Due(d)
        /\ event'[u].kind \in {"Started", "Renewed"}
        /\ event'[u].expires_at = Due(d)

Ended(u) == /\ locks[u].active
            /\ ~locks'[u].active
            /\ event'[u].kind \in {"Cancelled", "Expired"}

Bumped(u) == /\ locks'[u].version = Bump(locks[u].version)
             /\ event'[u].version = Bump(locks[u].version)

Changes(u) == Untouched(u) \/ (height' = height /\ Bumped(u) /\ (Armed(u) \/ Ended(u)))

LEMMA LockChanges ==
    ASSUME TypeOK, [Next]_vars, NEW u \in User PROVE Changes(u)
<1>1. CASE UNCHANGED vars BY <1>1 DEF vars, Changes, Untouched
<1>2. CASE NextBlock BY <1>2 DEF NextBlock, Changes, Untouched
<1>3. ASSUME NEW w \in User, NEW d \in Delays, Start(w, d) \/ Renew(w, d)
      PROVE  Changes(u)
  <2>1. PICK kind \in {"Started", "Renewed"} :
               Arm(w, d, Bump(locks[w].version), kind)
    BY <1>3 DEF Start, Renew
  <2>2. CASE w = u BY <2>1, <2>2 DEF Arm, TypeOK, Changes, Bumped, Armed
  <2>3. CASE w # u BY <2>1, <2>3 DEF Arm, TypeOK, Changes, Untouched
  <2>4. QED BY <2>2, <2>3
<1>4. ASSUME NEW w \in User, NEW kind \in {"Cancelled", "Expired"},
             locks[w].active, Deactivate(w, kind), height' = height
      PROVE  Changes(u)
  <2>1. /\ Deactivated(locks[w]).version = Bump(locks[w].version)
        /\ ~Deactivated(locks[w]).active
    BY DEF Deactivated, TypeOK, Lock
  <2>2. CASE w = u BY <1>4, <2>1, <2>2 DEF Deactivate, TypeOK, Changes, Bumped, Ended
  <2>3. CASE w # u BY <1>4, <2>3 DEF Deactivate, TypeOK, Changes, Untouched
  <2>4. QED BY <2>2, <2>3
<1>5. ASSUME NEW w \in User, Cancel(w) PROVE Changes(u)
  BY <1>4, <1>5 DEF Cancel
<1>6. ASSUME NEW s, NEW w \in User, NEW v, Expire(s, w, v), height' = height
      PROVE  Changes(u)
  <2>1. CASE Expirable(s, w, v)
    BY <1>4, <1>6, <2>1 DEF Expire, Expirable
  <2>2. CASE ~Expirable(s, w, v) BY <1>6, <2>2 DEF Expire, Changes, Untouched
  <2>3. QED BY <2>1, <2>2
<1>7. ASSUME NEW m \in pending, DeliverExpire(m) PROVE Changes(u)
  <2>1. m.user \in User BY DEF TypeOK, Message
  <2>2. QED BY <1>6, <1>7, <2>1 DEF DeliverExpire
<1>8. ASSUME NEW m \in pending, ExpireFails(m) PROVE Changes(u)
  BY <1>8 DEF ExpireFails, Changes, Untouched
<1>9. ASSUME NEW s \in User, NEW w \in User, NEW v \in Version,
             CallExpire(s, w, v)
      PROVE  Changes(u)
  BY <1>6, <1>9 DEF CallExpire
<1>10. QED BY <1>1, <1>2, <1>3, <1>5, <1>7, <1>8, <1>9 DEF Next

(* Below the ceiling every change of a lock raises its version by one, so  *)
(* a version names one state of the lock for ever.                         *)
THEOREM VersionsNameStates == Spec => VersionNamesState
<1> DEFINE Named == \A u \in User :
                      locks'[u] # locks[u] /\ locks[u].version < MaxVersion
                        => locks'[u].version = locks[u].version + 1
<1>1. ASSUME TypeOK, [Next]_vars, NEW u \in User,
             locks'[u] # locks[u], locks[u].version < MaxVersion
      PROVE  locks'[u].version = locks[u].version + 1
  <2>1. locks[u] \in Lock /\ locks[u].version \in Version
    BY <1>1 DEF TypeOK, Lock
  <2>2. Bump(locks[u].version) = locks[u].version + 1
    BY <1>1, <2>1, BumpProperties
  <2>3. QED BY <1>1, <2>2, LockChanges DEF Changes, Untouched, Bumped
<1>2. TypeOK /\ [Next]_vars => [Named]_vars BY <1>1
<1>3. QED BY <1>2, TypeCorrect, PTL DEF Spec, VersionNamesState

(* The events alone tell an indexer the lock of every user. *)
THEOREM EventsSuffice == Spec => []EventsTellTheLock
<1>1. Init => EventsTellTheLock
  BY DEF Init, NoLock, NoEvent, EventsTellTheLock
<1>2. ASSUME TypeOK, EventsTellTheLock, [Next]_vars PROVE EventsTellTheLock'
  <2>1. ASSUME NEW u \in User
        PROVE  /\ locks'[u].active <=> event'[u].kind \in {"Started", "Renewed"}
               /\ locks'[u].version = event'[u].version
               /\ locks'[u].active => locks'[u].expires_at = event'[u].expires_at
    <3>1. CASE Untouched(u)
      BY <1>2, <3>1 DEF EventsTellTheLock, Untouched
    <3>2. CASE Bumped(u) /\ (Armed(u) \/ Ended(u))
      BY <3>2 DEF Bumped, Armed, Ended
    <3>3. QED BY <1>2, <3>1, <3>2, LockChanges DEF Changes
  <2>2. QED BY <2>1 DEF EventsTellTheLock
<1>3. QED BY <1>1, <1>2, TypeCorrect, PTL DEF Spec

-----------------------------------------------------------------------------
(* Refinement. An active lock has a deadline that is a block, never 0, so  *)
(* the view of an active lock is never a free lease.                       *)
ActiveHasDeadline == \A u \in User : locks[u].active => locks[u].expires_at # 0

LEMMA DeadlineStep ==
    ASSUME TypeOK, ActiveHasDeadline, [Next]_vars PROVE ActiveHasDeadline'
<1>1. ASSUME NEW u \in User, locks'[u].active PROVE locks'[u].expires_at # 0
  <2>1. CASE Untouched(u) BY <1>1, <2>1 DEF Untouched, ActiveHasDeadline
  <2>2. CASE Armed(u) BY <2>2, DueProperties DEF Armed, TypeOK
  <2>3. QED BY <1>1, <2>1, <2>2, LockChanges DEF Changes, Ended
<1>2. QED BY <1>1 DEF ActiveHasDeadline

(* What the events tell of the lease. *)
LEMMA Fates == /\ FateOf["None"] = "none"
               /\ FateOf["Started"] = "held" /\ FateOf["Renewed"] = "held"
               /\ FateOf["Cancelled"] = "released"
               /\ FateOf["Expired"] = "lapsed"
  BY DEF FateOf

(* The steps that touch the lock of one user only, as steps of the lease.  *)
LEMMA ArmIsAcquireOrExtend ==
    ASSUME TypeOK, ActiveHasDeadline, NEW u \in User, NEW d \in Delays,
           NEW kind \in {"Started", "Renewed"},
           Arm(u, d, Bump(locks[u].version), kind)
    PROVE  Deadlines!Acquire(u) \/ Deadlines!Extend(u)
<1>1. Due(d) \in Deadlines!Deadline
  <2>1. Due(d) \in Height /\ (Due(d) > height \/ Due(d) = MaxHeight) /\ Due(d) # 0
    BY DueProperties DEF Arm, TypeOK
  <2>2. QED BY <2>1, DelayedAssumption DEF Deadlines!Deadline, Height
<1>2. LeaseView' = [LeaseView EXCEPT ![u] = Due(d)]
  BY DEF Arm, LeaseView, TypeOK
<1>3. FateView' = [FateView EXCEPT ![u] = "held"]
  <2>1. event' = [event EXCEPT ![u] = event'[u]] /\ event'[u].kind = kind
    BY DEF Arm, TypeOK
  <2>2. FateOf[kind] = "held" BY Fates
  <2>3. QED BY <2>1, <2>2 DEF FateView, TypeOK
<1>4. height' = height BY DEF Arm
<1>5. Deadlines!Hold(u) BY <1>1, <1>2, <1>3, <1>4 DEF Deadlines!Hold
<1>6. QED BY <1>5 DEF Deadlines!Acquire, Deadlines!Extend

LEMMA DeactivateEndsLease ==
    ASSUME TypeOK, ActiveHasDeadline, NEW u \in User, NEW kind,
           locks[u].active, Deactivate(u, kind), height' = height
    PROVE  /\ LeaseView[u] = locks[u].expires_at
           /\ Deadlines!End(u, FateOf[kind])
<1>1. ~Deactivated(locks[u]).active
  BY DEF Deactivated, TypeOK, Lock
<1>2. LeaseView[u] = locks[u].expires_at /\ locks[u].expires_at # 0
  BY DEF LeaseView, ActiveHasDeadline
<1>3. locks' = [locks EXCEPT ![u] = Deactivated(locks[u])]
  BY DEF Deactivate
<1>4. LeaseView' = [LeaseView EXCEPT ![u] = 0]
  BY <1>1, <1>3 DEF LeaseView, TypeOK
<1>5. FateView' = [FateView EXCEPT ![u] = FateOf[kind]]
  <2>1. event' = [event EXCEPT ![u] = event'[u]] /\ event'[u].kind = kind
    BY DEF Deactivate, TypeOK
  <2>2. QED BY <2>1 DEF FateView, TypeOK
<1>6. QED BY <1>2, <1>4, <1>5 DEF Deadlines!End, Deadlines!Free

LEMMA StepIsLeaseStep ==
    ASSUME TypeOK, ActiveHasDeadline, [Next]_vars
    PROVE  [Deadlines!Next]_(Deadlines!vars)
<1> USE DEF Deadlines!Next, Deadlines!vars
<1>1. ASSUME locks' = locks, event' = event
      PROVE  LeaseView' = LeaseView /\ FateView' = FateView
  BY <1>1 DEF LeaseView, FateView
<1>2. CASE UNCHANGED vars BY <1>1, <1>2 DEF vars
<1>3. CASE NextBlock BY <1>1, <1>3 DEF NextBlock, Deadlines!Tick
<1>4. ASSUME NEW u \in User, NEW d \in Delays, Start(u, d) \/ Renew(u, d)
      PROVE  Deadlines!Next
  BY <1>4, ArmIsAcquireOrExtend DEF Start, Renew
<1>5. ASSUME NEW u \in User, Cancel(u) PROVE Deadlines!Next
  <2>1. Deadlines!End(u, FateOf["Cancelled"])
    BY <1>5, DeactivateEndsLease DEF Cancel
  <2>2. QED BY <2>1, Fates DEF Deadlines!Release
<1>6. ASSUME NEW s, NEW u \in User, NEW v, Expire(s, u, v), height' = height
      PROVE  [Deadlines!Next]_(Deadlines!vars)
  <2>1. CASE Expirable(s, u, v)
    <3>1. Deactivate(u, "Expired") /\ locks[u].active
          /\ height >= locks[u].expires_at
      BY <1>6, <2>1 DEF Expire, Expirable
    <3>2. LeaseView[u] = locks[u].expires_at /\ Deadlines!End(u, FateOf["Expired"])
      BY <1>6, <3>1, DeactivateEndsLease
    <3>3. Deadlines!Lapse(u) BY <3>1, <3>2, Fates DEF Deadlines!Lapse
    <3>4. QED BY <3>3
  <2>2. CASE ~Expirable(s, u, v) BY <1>1, <1>6, <2>2 DEF Expire
  <2>3. QED BY <2>1, <2>2
<1>7. ASSUME NEW m \in pending, DeliverExpire(m)
      PROVE  [Deadlines!Next]_(Deadlines!vars)
  <2>1. m.user \in User BY DEF TypeOK, Message
  <2>2. QED BY <1>6, <1>7, <2>1 DEF DeliverExpire
<1>8. ASSUME NEW m \in pending, ExpireFails(m)
      PROVE  UNCHANGED Deadlines!vars
  BY <1>1, <1>8 DEF ExpireFails
<1>9. ASSUME NEW s \in User, NEW u \in User, NEW v \in Version,
             CallExpire(s, u, v)
      PROVE  [Deadlines!Next]_(Deadlines!vars)
  BY <1>6, <1>9 DEF CallExpire
<1>10. QED BY <1>2, <1>3, <1>4, <1>5, <1>7, <1>8, <1>9 DEF Next

(* The lock is a lease: whatever stale messages arrive, its holder sees    *)
(* nothing but acquire, extend, release and lapse at the deadline.         *)
THEOREM LockIsLease == Spec => ImplementsLease
<1>1. Init => Deadlines!Init /\ ActiveHasDeadline
  BY Fates DEF Init, NoLock, NoEvent, Deadlines!Init, Deadlines!Free,
               LeaseView, FateView, ActiveHasDeadline
<1>2. TypeOK /\ ActiveHasDeadline /\ [Next]_vars => ActiveHasDeadline'
  BY DeadlineStep
<1>3. TypeOK /\ ActiveHasDeadline /\ [Next]_vars
        => [Deadlines!Next]_(Deadlines!vars)
  BY StepIsLeaseStep
<1>4. QED BY <1>1, <1>2, <1>3, TypeCorrect, PTL
          DEF Spec, ImplementsLease, Deadlines!Spec
=============================================================================
