------------------------ MODULE DelayedSelfMessage ------------------------
(***************************************************************************)
(* The contract contracts/delayed-self-message: a lock per user that the   *)
(* program expires by sending itself a delayed Expire(user, version).      *)
(* The delayed message cannot be called back, so a message sent for an     *)
(* earlier start or renew still arrives after the lock has moved on; the   *)
(* version stored in the lock and carried by the message tells it apart.   *)
(*                                                                         *)
(* One action is the execution of one message by the program.  Gear runs a *)
(* message atomically, and an exported method that returns Err panics      *)
(* (#[export(unwrap_result)]), which discards its writes and its outgoing  *)
(* messages: an erring call by a user changes nothing and is a stuttering  *)
(* step.  An erring Expire does change something, because the delayed      *)
(* message is used up: that is ExpireFails.                                *)
(***************************************************************************)
EXTENDS Integers, FiniteSets

CONSTANTS
    User,         \* actors that call the program
    Program,      \* exec::program_id()
    Delays,       \* values of delay_blocks the users try, 0 included
    MaxHeight,    \* largest block number: u32::MAX, small in the runs
    MaxVersion,   \* largest version: u64::MAX, small in the runs
    MaxSent,      \* bound on the delayed messages sent in a behaviour
    EmitMayFail   \* may emit_event fail inside Expire?

ASSUME DelayedAssumption ==
    /\ Program \notin User
    /\ Delays \subseteq Nat
    /\ MaxHeight \in Nat \ {0}
    /\ MaxVersion \in Nat \ {0}
    /\ MaxSent \in Nat
    /\ EmitMayFail \in BOOLEAN

VARIABLES
    height,    \* exec::block_height()
    locks,     \* State.locks
    pending,   \* delayed self-messages sent and not yet executed
    burnt,     \* delayed self-messages used up by a failed execution
    sent,      \* how many delayed messages were sent: the next message's id
    event      \* the last event emitted for each user

vars == <<height, locks, pending, burnt, sent, event>>

-----------------------------------------------------------------------------
(* State.  A user without an entry in the map is NoLock: get() is None and *)
(* start gives version 1, which is what saturating_add gives from 0.       *)

Height  == 0 .. MaxHeight
Version == 0 .. MaxVersion
Lock    == [active : BOOLEAN, expires_at : Height, version : Version]
NoLock  == [active |-> FALSE, expires_at |-> 0, version |-> 0]

(* A delayed request Expire(user, version); due is the block it leaves the *)
(* dispatch stash, id the message id (the network never merges messages).  *)
Message == [id : Nat, user : User, version : Version, due : Height]

Event == [kind : {"None", "Started", "Renewed", "Cancelled", "Expired"},
          version : Version, expires_at : Height]
NoEvent == [kind |-> "None", version |-> 0, expires_at |-> 0]

SatAddUnbounded(x, y, max) == x + y   \* mutant: a plain addition

SatAdd(x, y, max) == IF x + y > max THEN max ELSE x + y

Bump(v) == SatAdd(v, 1, MaxVersion)

TypeOK == /\ height \in Height
          /\ locks \in [User -> Lock]
          /\ pending \in SUBSET Message
          /\ burnt \in SUBSET Message
          /\ sent \in Nat
          /\ event \in [User -> Event]

Init == /\ height = 0
        /\ locks = [u \in User |-> NoLock]
        /\ pending = {}
        /\ burnt = {}
        /\ sent = 0
        /\ event = [u \in User |-> NoEvent]

-----------------------------------------------------------------------------
(* Calls by users.                                                         *)

Due(d) == SatAdd(height, d, MaxHeight)

(* Mutant: the request carries the version the lock had before the call. *)
ScheduleOldVersion(u, v, d) ==
    /\ sent < MaxSent
    /\ sent' = sent + 1
    /\ pending' = pending \cup {[id |-> sent, user |-> u,
                        version |-> locks[u].version, due |-> Due(d)]}

ScheduleExpire(u, v, d) ==
    /\ sent < MaxSent
    /\ sent' = sent + 1
    /\ pending' = pending \cup
                    {[id |-> sent, user |-> u, version |-> v, due |-> Due(d)]}

(* The common half of start and renew: schedule, then store, then emit.    *)
Arm(u, d, v, kind) ==
    /\ d # 0
    /\ ScheduleExpire(u, v, d)
    /\ locks' = [locks EXCEPT ![u] =
                    [active |-> TRUE, expires_at |-> Due(d), version |-> v]]
    /\ event' = [event EXCEPT ![u] =
                    [kind |-> kind, version |-> v, expires_at |-> Due(d)]]
    /\ UNCHANGED <<height, burnt>>

Start(u, d) == /\ ~locks[u].active
               /\ Arm(u, d, Bump(locks[u].version), "Started")

Renew(u, d) == /\ locks[u].active
               /\ Arm(u, d, Bump(locks[u].version), "Renewed")

(* Mutant: the version is left alone. *)
DeactivatedOnly(lock) == [lock EXCEPT !.active = FALSE]

Deactivated(lock) == [lock EXCEPT !.active = FALSE,
                                  !.version = Bump(lock.version)]

(* Mutant: the event is built before the bump. *)
DeactivateEmitFirst(u, kind) ==
    /\ locks' = [locks EXCEPT ![u] = Deactivated(locks[u])]
    /\ event' = [event EXCEPT ![u] =
          [kind |-> kind, version |-> locks[u].version, expires_at |-> 0]]

Deactivate(u, kind) ==
    LET lock == Deactivated(locks[u])
    IN  /\ locks' = [locks EXCEPT ![u] = lock]
        /\ event' = [event EXCEPT ![u] =
              [kind |-> kind, version |-> lock.version, expires_at |-> 0]]

Cancel(u) == /\ locks[u].active
             /\ Deactivate(u, "Cancelled")
             /\ UNCHANGED <<height, pending, burnt, sent>>

-----------------------------------------------------------------------------
(* The expire handler, for whoever sent the message.                       *)

(* Mutants: no version check, no deadline check, an off-by-one deadline. *)
ExpirableAnyVersion(source, u, v) == /\ source = Program
                                     /\ locks[u].active
                                     /\ height >= locks[u].expires_at

ExpirableTooSoon(source, u, v) == /\ source = Program
                                  /\ locks[u].active
                                  /\ locks[u].version = v

ExpirableTooLate(source, u, v) == /\ source = Program
                                  /\ locks[u].active
                                  /\ locks[u].version = v
                                  /\ height > locks[u].expires_at

Expirable(source, u, v) == /\ source = Program
                           /\ locks[u].active
                           /\ locks[u].version = v
                           /\ height >= locks[u].expires_at

Expire(source, u, v) ==
    IF Expirable(source, u, v) THEN Deactivate(u, "Expired")
                               ELSE UNCHANGED <<locks, event>>

(* A due self-message is executed.  The queue may be long, so it runs at   *)
(* its block or at any later one, and after any call made in between.      *)
DeliverExpire(m) ==
    /\ m.due <= height
    /\ pending' = pending \ {m}
    /\ Expire(Program, m.user, m.version)
    /\ UNCHANGED <<height, burnt, sent>>

(* The same message when emit_event fails: the state is rolled back, the   *)
(* message is gone.                                                        *)
ExpireFails(m) ==
    /\ EmitMayFail
    /\ m.due <= height
    /\ Expirable(Program, m.user, m.version)
    /\ pending' = pending \ {m}
    /\ burnt' = burnt \cup {m}
    /\ UNCHANGED <<height, locks, sent, event>>

(* Expire is exported: any actor may call it, with any arguments.          *)
CallExpire(source, u, v) ==
    /\ Expire(source, u, v)
    /\ UNCHANGED <<height, pending, burnt, sent>>

NextBlock == /\ height < MaxHeight
             /\ height' = height + 1
             /\ UNCHANGED <<locks, pending, burnt, sent, event>>

-----------------------------------------------------------------------------
Next == \/ NextBlock
        \/ \E u \in User, d \in Delays : Start(u, d) \/ Renew(u, d)
        \/ \E u \in User : Cancel(u)
        \/ \E m \in pending : DeliverExpire(m) \/ ExpireFails(m)
        \/ \E s, u \in User, v \in Version : CallExpire(s, u, v)

Spec == Init /\ [][Next]_vars

(* The chain keeps producing blocks and its queue keeps draining; nothing  *)
(* obliges a user to call.                                                 *)
DeliverAny(n) == \E m \in pending : m.id = n /\ DeliverExpire(m)

FairSpec == /\ Spec
            /\ WF_vars(NextBlock)
            /\ \A n \in 0 .. MaxSent - 1 : WF_vars(DeliverAny(n))

-----------------------------------------------------------------------------
(* Properties.                                                             *)

(* m is the message the running term of u's lock was armed with. *)
IsTimerOf(m, u) == /\ m.user = u
                   /\ m.version = locks[u].version
                   /\ m.due = locks[u].expires_at

(* No lock is active for ever by accident: as long as a lock is active the *)
(* Expire message of its own start or renew is still on its way, unless it *)
(* was used up by an execution that failed.                                *)
ActiveLockHasTimer ==
    \A u \in User : locks[u].active =>
        \E m \in pending \cup burnt : IsTimerOf(m, u)

(* Below the version ceiling no stale message can match: a message on its  *)
(* way that carries the version of the user's lock is the timer of the     *)
(* running term, and there is only one.                                    *)
NoStaleMatch ==
    \A m \in pending :
        (/\ m.version = locks[m.user].version
         /\ m.version < MaxVersion)
        => /\ locks[m.user].active
           /\ IsTimerOf(m, m.user)
           /\ \A n \in pending :
                n.user = m.user /\ n.version = m.version => n = m

(* An indexer that only follows Started, Renewed, Cancelled and Expired    *)
(* knows the lock: whether it is active, its version and its deadline.     *)
EventsTellTheLock ==
    \A u \in User :
        /\ locks[u].active <=> event[u].kind \in {"Started", "Renewed"}
        /\ locks[u].version = event[u].version
        /\ locks[u].active => locks[u].expires_at = event[u].expires_at

(* Once armed, a lock is ended by its holder's cancel or by the program at *)
(* or after the block it was last armed for, never earlier, whichever      *)
(* messages of earlier terms arrive meanwhile and even at the version      *)
(* ceiling, where stale messages match.                                    *)
EndsEarlyOnlyByCancel ==
    [][\A u \in User :
         locks[u].active /\ ~locks'[u].active
           => \/ event'[u].kind = "Cancelled"
              \/ height >= locks[u].expires_at]_vars

(* Below the ceiling the program ends a term by executing the message of   *)
(* that very term: not a stale one, nor a call of expire from outside.     *)
OnlyOwnTimerExpires ==
    [][\A u \in User :
         (/\ locks[u].active /\ ~locks'[u].active
          /\ event'[u].kind = "Expired"
          /\ locks[u].version < MaxVersion)
         => \E m \in pending \ pending' : IsTimerOf(m, u)]_vars

(* Every change of a lock bumps its version, so a version below the        *)
(* ceiling names one state of the lock for ever.                           *)
VersionNamesState ==
    [][\A u \in User :
         locks'[u] # locks[u] /\ locks[u].version < MaxVersion
           => locks'[u].version = locks[u].version + 1]_vars

(* A term ends without anyone's help: a lock that is active at some        *)
(* version leaves that version, unless its own Expire was executed and     *)
(* failed, which nothing in the program repeats.                           *)
EveryTermEnds ==
    \A u \in User : \A v \in 1 .. MaxVersion - 1 :
        (locks[u].active /\ locks[u].version = v)
          ~> \/ locks[u].version # v
             \/ \E m \in burnt : IsTimerOf(m, u)

(* The lock as its user sees it is a lease with a deadline: versions,      *)
(* messages and tombstones are invisible.                                  *)
LeaseView == [u \in User |-> IF locks[u].active THEN locks[u].expires_at
                                                ELSE 0]

(* What its events tell the user of the last lease. *)
FateOf == [None |-> "none", Started |-> "held", Renewed |-> "held",
           Cancelled |-> "released", Expired |-> "lapsed"]

FateView == [u \in User |-> FateOf[event[u].kind]]

Deadlines == INSTANCE Lease WITH Horizon <- MaxHeight,
                                 now <- height,
                                 lease <- LeaseView,
                                 fate <- FateView

(* The contract implements the lease. *)
ImplementsLease == Deadlines!Spec

(* As long as no Expire fails the lease lapses by itself as well: the      *)
(* chain and its queue give the contract the fairness of the lease.        *)
LapsesLikeTheLease == [](burnt = {}) => Deadlines!Fairness
=============================================================================
