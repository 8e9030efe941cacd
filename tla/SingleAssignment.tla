-------------------------- MODULE SingleAssignment --------------------------
(***************************************************************************)
(* What a Future promises to the code waiting on it, without reference     *)
(* counts, callback rings or handles: an outcome that is assigned at most  *)
(* once, waiters that come and go while there is no outcome to deliver,    *)
(* and the delivery of that one outcome to every waiter that stayed.  This *)
(* is the contract the repository's README gives for Promise and Future;   *)
(* module Sav is shown to implement it.                                    *)
(***************************************************************************)
CONSTANTS Callbacks,   \* the continuations that may wait for the outcome
          Delivered,   \* outcomes a waiter can see
          UNSET, NEVER \* no outcome yet; no outcome ever

VARIABLES error_state, \* UNSET, NEVER or one of Delivered
          cb           \* per callback: "idle", "waiting" or what it was told

vars == <<error_state, cb>>

Init ==
    /\ error_state \in Delivered \union {UNSET, NEVER}
    /\ cb = [c \in Callbacks |-> "idle"]

Assign ==
    /\ error_state = UNSET
    /\ error_state' \in Delivered \union {NEVER}
    /\ UNCHANGED cb

Register(c) ==
    /\ error_state \notin Delivered
    /\ cb[c] = "idle"
    /\ cb' = [cb EXCEPT ![c] = "waiting"]
    /\ UNCHANGED error_state

Deregister(c) ==
    /\ cb[c] = "waiting"
    /\ cb' = [cb EXCEPT ![c] = "idle"]
    /\ UNCHANGED error_state

Deliver(c) ==
    /\ error_state \in Delivered
    /\ cb[c] = "waiting"
    /\ cb' = [cb EXCEPT ![c] = error_state]
    /\ UNCHANGED error_state

Next == Assign \/ \E c \in Callbacks : Register(c) \/ Deregister(c) \/ Deliver(c)

Spec == Init /\ [][Next]_vars

(***************************************************************************)
(* Once there is an outcome, nobody is left waiting for it.                *)
(***************************************************************************)
EveryoneIsTold ==
    (error_state \in Delivered) ~> (\A c \in Callbacks : cb[c] # "waiting")
=============================================================================
