------------------------------ MODULE Factory ------------------------------
(***************************************************************************)
(* The contract contracts/factory: create_program asks the runtime for a   *)
(* child program, awaits its initialization reply, emits ProgramCreated    *)
(* and returns the address.  The factory executes other messages while a   *)
(* call awaits, and what happened before the await stays when the rest of  *)
(* the call fails: the child is a program of its own.                      *)
(***************************************************************************)
EXTENDS Integers, FiniteSets

CONSTANTS Call   \* calls of create_program

ASSUME FactoryAssumption == IsFiniteSet(Call)

VARIABLES
    phase,     \* phase[c]: how far call c got
    result,    \* result[c]: the address it returned, or None
    child,     \* child[a]: state of the program at address a
    parent,    \* parent[a]: the call that asked for it
    mailbox,   \* replies on their way to the factory
    events     \* ProgramCreated events, by address

factoryVars == <<phase, result, child, parent, mailbox, events>>

-----------------------------------------------------------------------------
(* Addresses are numbered as the runtime hands them out.                   *)
Address == 1 .. Cardinality(Call)
None == 0

Phase == {"none", "awaiting", "ok", "startFailed", "replyFailed", "emitFailed"}
Child == {"none", "requested", "active", "failed"}
Reply == [address : Address, ok : BOOLEAN]

FactoryTypeOK ==
    /\ phase \in [Call -> Phase]
    /\ result \in [Call -> Address \cup {None}]
    /\ child \in [Address -> Child]
    /\ parent \in [Address -> Call \cup {None}]
    /\ mailbox \in SUBSET Reply
    /\ events \in SUBSET Address

FactoryInit ==
    /\ phase = [c \in Call |-> "none"]
    /\ result = [c \in Call |-> None]
    /\ child = [a \in Address |-> "none"]
    /\ parent = [a \in Address |-> None]
    /\ mailbox = {}
    /\ events = {}

-----------------------------------------------------------------------------
(* create_program up to its await: the request is refused or accepted.     *)

StartFails(c) == /\ phase[c] = "none"
                 /\ phase' = [phase EXCEPT ![c] = "startFailed"]
                 /\ UNCHANGED <<result, child, parent, mailbox, events>>

Requested == {a \in Address : child[a] # "none"}

CreateProgram(c) ==
    LET a == Cardinality(Requested) + 1
    IN  /\ phase[c] = "none"
        /\ phase' = [phase EXCEPT ![c] = "awaiting"]
        /\ child' = [child EXCEPT ![a] = "requested"]
        /\ parent' = [parent EXCEPT ![a] = c]
        /\ UNCHANGED <<result, mailbox, events>>

(* The child executes its constructor New, or panics in it; either way a   *)
(* reply is sent.                                                          *)
New(a, ok) == /\ child[a] = "requested"
              /\ child' = [child EXCEPT ![a] = IF ok THEN "active" ELSE "failed"]
              /\ mailbox' = mailbox \cup {[address |-> a, ok |-> ok]}
              /\ UNCHANGED <<phase, result, parent, events>>

-----------------------------------------------------------------------------
(* create_program after its await.                                         *)

(* Mutant: any reply wakes the call. *)
AnyReply(c, m) == phase[c] = "awaiting"

ReplyTo(c, m) == phase[c] = "awaiting" /\ parent[m.address] = c

(* Mutant: the event is not rolled back with the call. *)
EventKept(c, m) ==
    \/ /\ m.ok
       /\ phase' = [phase EXCEPT ![c] = "ok"]
       /\ result' = [result EXCEPT ![c] = m.address]
       /\ events' = events \cup {m.address}
    \/ /\ phase' = [phase EXCEPT ![c] = IF m.ok THEN "emitFailed" ELSE "replyFailed"]
       /\ events' = IF m.ok THEN events \cup {m.address} ELSE events
       /\ UNCHANGED result

(* The outcome of the rest of the call: a failing emit_event discards the  *)
(* event and the return value, but not the child.                          *)
Finish(c, m) ==
    \/ /\ m.ok
       /\ phase' = [phase EXCEPT ![c] = "ok"]
       /\ result' = [result EXCEPT ![c] = m.address]
       /\ events' = events \cup {m.address}
    \/ /\ phase' = [phase EXCEPT ![c] = IF m.ok THEN "emitFailed" ELSE "replyFailed"]
       /\ UNCHANGED <<result, events>>

Wake(c, m) == /\ ReplyTo(c, m)
              /\ mailbox' = mailbox \ {m}
              /\ Finish(c, m)
              /\ UNCHANGED <<child, parent>>

(* The wait for the reply has a bound in blocks; then the future is an     *)
(* error, and the reply finds nobody.                                      *)
Timeout(c) == /\ phase[c] = "awaiting"
              /\ phase' = [phase EXCEPT ![c] = "replyFailed"]
              /\ UNCHANGED <<result, child, parent, mailbox, events>>

LateReply(m) == /\ phase[parent[m.address]] # "awaiting"
                /\ mailbox' = mailbox \ {m}
                /\ UNCHANGED <<phase, result, child, parent, events>>

-----------------------------------------------------------------------------
FactoryNext ==
    \/ \E c \in Call : \/ StartFails(c) \/ CreateProgram(c) \/ Timeout(c)
                       \/ \E m \in mailbox : Wake(c, m)
    \/ \E a \in Address, ok \in BOOLEAN : New(a, ok)
    \/ \E m \in mailbox : LateReply(m)

FactorySpec == FactoryInit /\ [][FactoryNext]_factoryVars

-----------------------------------------------------------------------------
(* Properties.                                                             *)

(* A call that succeeds returns the address of an initialized child it     *)
(* asked for itself, and it is announced: however calls interleave and     *)
(* replies are delayed.                                                    *)
ReturnsItsOwnChild ==
    \A c \in Call : phase[c] = "ok" =>
        /\ result[c] # None
        /\ parent[result[c]] = c
        /\ child[result[c]] = "active"
        /\ result[c] \in events

(* Off-chain clients that follow ProgramCreated see exactly the children   *)
(* that some caller was given.                                             *)
EventsAreResults == events = {result[c] : c \in Call} \ {None}
=============================================================================
