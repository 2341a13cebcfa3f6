------------------------------- MODULE Lease -------------------------------
(***************************************************************************)
(* What a user of the delayed-self-message contract is promised: a lease   *)
(* with a deadline.  The holder may acquire, extend (to any new deadline,  *)
(* later or earlier) and release it; the program itself may only let it    *)
(* lapse, and only once the deadline has come.  No version, no message and *)
(* no queue appears here: DelayedSelfMessage implements this module.       *)
(***************************************************************************)
EXTENDS Naturals

CONSTANTS User, Horizon   \* Horizon: the largest block number (u32::MAX)

VARIABLES now,     \* the current block
          lease,   \* lease[u]: the block of u's deadline, or Free
          fate     \* fate[u]: what became of u's last lease

vars == <<now, lease, fate>>

Free == 0

Deadline == {n \in 1 .. Horizon : n > now \/ n = Horizon}

Init == /\ now = 0
        /\ lease = [u \in User |-> Free]
        /\ fate = [u \in User |-> "none"]

Hold(u) == /\ \E d \in Deadline : lease' = [lease EXCEPT ![u] = d]
           /\ fate' = [fate EXCEPT ![u] = "held"]
           /\ UNCHANGED now

Acquire(u) == lease[u] = Free /\ Hold(u)

Extend(u) == lease[u] # Free /\ Hold(u)

End(u, how) == /\ lease[u] # Free
               /\ lease' = [lease EXCEPT ![u] = Free]
               /\ fate' = [fate EXCEPT ![u] = how]
               /\ UNCHANGED now

Release(u) == End(u, "released")

Lapse(u) == now >= lease[u] /\ End(u, "lapsed")

Tick == /\ now < Horizon
        /\ now' = now + 1
        /\ UNCHANGED <<lease, fate>>

Next == \/ Tick
        \/ \E u \in User : Acquire(u) \/ Extend(u) \/ Release(u) \/ Lapse(u)

Spec == Init /\ [][Next]_vars

(* The promise with its liveness half: a lease whose deadline has come and *)
(* which its holder leaves alone lapses.                                   *)
Fairness == WF_vars(Tick) /\ \A u \in User : WF_vars(Lapse(u))

FairSpec == Spec /\ Fairness
=============================================================================
