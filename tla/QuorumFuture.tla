------------------------------- MODULE QuorumFuture -------------------------------
(***************************************************************************)
(* Quorum<T> (flow/genericactors.actor.h): the future that is set when     *)
(* Required of the results are, and fails with the first error before.     *)
(*                                                                         *)
(* It is a SAV whose promise count is used as the number of results still  *)
(* to come.  Calling its waiter, or removing a callback in cancel(), runs  *)
(* other code, which may complete more results, drop the last future and   *)
(* thereby cancel the quorum in the middle of its own send.  `stack' holds *)
(* the member functions of the quorum that are on the call stack.          *)
(***************************************************************************)
EXTENDS Integers, Sequences, FiniteSets

CONSTANTS Count,    \* number of results
          Handles   \* Future<Void> objects that may point to the quorum

\* What the constants have to be.
QuorumAssumption == Count \in Nat /\ IsFiniteSet(Handles) /\ Handles # {}

VARIABLES
    required,   \* argument n of quorum()
    result,     \* the results: "pending", "value" or "error"
    built,      \* results quorum() has looked at
    linked,     \* results whose QuorumCallback::next is not 0
    promises, futures, outcome, alive,   \* the SAV
    waiting,    \* an actor waits for the quorum
    handles,    \* Future<Void> objects holding a reference
    stack,      \* frames of Quorum's functions, the innermost first
    order,      \* what oneSuccess and oneError were called with
    heard       \* what the waiting actor was told

vars == <<required, result, built, linked, promises, futures, outcome, alive,
          waiting, handles, stack, order, heard>>

Results == 1..Count
Unset == "unset"
Outcomes == {"set", "error", "actor_cancelled"}

FinishFrame == [op |-> "finish", i |-> 0, n |-> 0]
CancelFrame(i, n) == [op |-> "cancel", i |-> i, n |-> n]

TypeOK ==
    /\ required \in 0..Count
    /\ result \in [Results -> {"pending", "value", "error"}]
    /\ built \in 0..Count /\ linked \subseteq Results
    /\ promises \in 0..Count /\ futures \in Nat
    /\ outcome \in Outcomes \union {Unset}
    /\ alive \in BOOLEAN /\ waiting \in BOOLEAN /\ handles \subseteq Handles
    /\ \A k \in DOMAIN stack : stack[k].op \in {"finish", "cancel"}
    /\ heard \subseteq Outcomes

Init ==
    /\ required \in 0..Count
    /\ result \in [Results -> {"pending", "value", "error"}]
    /\ built = 0 /\ linked = {}
    /\ promises = Count /\ futures = 1
    /\ outcome = IF required = 0 THEN "set" ELSE Unset
    /\ alive = TRUE /\ waiting = FALSE /\ handles = {}
    /\ stack = <<>> /\ order = <<>> /\ heard = {}

antiQuorum == Count - required + 1

canBeSet == outcome = Unset

Building == built < Count \/ (handles = {} /\ futures = 1 /\ ~waiting /\ alive)

-----------------------------------------------------------------------------
(***************************************************************************)
(* SAV::sendAndDelPromiseRef and sendErrorAndDelPromiseRef up to the call  *)
(* of the first waiter; the rest is Finish.                                *)
(***************************************************************************)
SendAndDelPromiseRef(o) ==
    /\ IF promises = 1 /\ futures = 0
         THEN alive' = FALSE /\ UNCHANGED <<outcome, stack>>
         ELSE /\ outcome' = o
              /\ stack' = <<FinishFrame>> \o stack
              /\ UNCHANGED alive
    /\ UNCHANGED promises

(***************************************************************************)
(* SAV::delPromiseRef.  While a result is missing nobody is told that the  *)
(* promise is broken: the last promise goes with the last result.          *)
(***************************************************************************)
DelPromiseRef ==
    /\ promises' = promises - 1
    /\ alive' = ~(promises = 1 /\ futures = 0)
    /\ outcome' = IF promises = 1 /\ futures > 0 /\ canBeSet THEN "error" ELSE outcome
    /\ UNCHANGED stack

oneSuccess ==
    IF promises = antiQuorum /\ canBeSet THEN SendAndDelPromiseRef("set") ELSE DelPromiseRef

oneError == IF canBeSet THEN SendAndDelPromiseRef("error") ELSE DelPromiseRef

Report(r) ==
    /\ order' = Append(order, r)
    /\ IF r = "value" THEN oneSuccess ELSE oneError

(***************************************************************************)
(* The loop of quorum(): a ready result is counted, others get a callback. *)
(***************************************************************************)
Build ==
    /\ built < Count
    /\ stack = <<>>
    /\ built' = built + 1
    /\ IF result[built'] = "pending"
         THEN /\ linked' = linked \union {built'}
              /\ UNCHANGED <<promises, outcome, alive, stack, order>>
         ELSE Report(result[built']) /\ UNCHANGED linked
    /\ UNCHANGED <<required, result, futures, waiting, handles, heard>>

(***************************************************************************)
(* quorum() returns its future.                                            *)
(***************************************************************************)
Return ==
    /\ built = Count /\ Building /\ stack = <<>>
    /\ \E h \in Handles : handles' = {h}
    /\ UNCHANGED <<required, result, built, linked, promises, futures, outcome, alive,
                   waiting, stack, order, heard>>

-----------------------------------------------------------------------------
(***************************************************************************)
(* A result is set: QuorumCallback::fire or error, if it is still linked.  *)
(***************************************************************************)
Complete(x, r) ==
    /\ built = Count /\ ~Building /\ result[x] = "pending"
    /\ result' = [result EXCEPT ![x] = r]
    /\ linked' = linked \ {x}
    /\ IF x \in linked THEN Report(r) ELSE UNCHANGED <<promises, outcome, alive, stack, order>>
    /\ UNCHANGED <<required, built, futures, waiting, handles, heard>>

(***************************************************************************)
(* SAV::delFutureRef: the last future cancels or destroys the quorum.      *)
(***************************************************************************)
DelFutureRef ==
    /\ futures' = futures - 1
    /\ alive' = ~(futures = 1 /\ promises = 0)
    /\ stack' = IF futures = 1 /\ promises > 0 THEN <<CancelFrame(1, 0)>> \o stack ELSE stack

Copy(g, h) ==
    /\ g \in handles /\ h \in Handles \ handles
    /\ handles' = handles \union {h}
    /\ futures' = futures + 1
    /\ UNCHANGED <<required, result, built, linked, promises, outcome, alive, waiting,
                   stack, order, heard>>

Drop(h) ==
    /\ h \in handles
    /\ handles' = handles \ {h}
    /\ DelFutureRef
    /\ UNCHANGED <<required, result, built, linked, promises, outcome, waiting, order, heard>>

(***************************************************************************)
(* An actor waits for the quorum; it stops waiting when it is cancelled.   *)
(***************************************************************************)
Wait(h) ==
    /\ h \in handles /\ canBeSet /\ ~waiting
    /\ waiting' = TRUE
    /\ futures' = futures + 1
    /\ UNCHANGED <<required, result, built, linked, promises, outcome, alive, handles,
                   stack, order, heard>>

Unwait ==
    /\ waiting
    /\ waiting' = FALSE
    /\ DelFutureRef
    /\ UNCHANGED <<required, result, built, linked, promises, outcome, handles, order, heard>>

-----------------------------------------------------------------------------
InFinish == stack # <<>> /\ Head(stack).op = "finish"
InCancel == stack # <<>> /\ Head(stack).op = "cancel"

(***************************************************************************)
(* The loop over the waiters, and what follows it.                         *)
(***************************************************************************)
FireWaiter ==
    /\ InFinish /\ waiting
    /\ waiting' = FALSE
    /\ heard' = heard \union {outcome}
    /\ DelFutureRef
    /\ UNCHANGED <<required, result, built, linked, promises, outcome, handles, order>>

Finish ==
    /\ InFinish /\ ~waiting
    /\ promises' = promises - 1
    /\ alive' = ~(promises = 1 /\ futures = 0)
    /\ stack' = Tail(stack)
    /\ UNCHANGED <<required, result, built, linked, futures, outcome, waiting, handles,
                   order, heard>>

(***************************************************************************)
(* One turn of the first loop of cancel().                                 *)
(***************************************************************************)
CancelNext ==
    /\ InCancel /\ Head(stack).i <= Count
    /\ LET f == Head(stack)
           is == f.i \in linked
       IN /\ linked' = linked \ {f.i}
          /\ stack' = <<CancelFrame(f.i + 1, f.n + (IF is THEN 1 ELSE 0))>> \o Tail(stack)
    /\ UNCHANGED <<required, result, built, promises, futures, outcome, alive, waiting,
                   handles, order, heard>>

\* Fault: cancel() drops one promise for every result.
CancelEndDropsAll ==
    /\ InCancel /\ Head(stack).i > Count
    /\ outcome' = IF canBeSet THEN "actor_cancelled" ELSE outcome
    /\ promises' = 0
    /\ alive' = FALSE
    /\ stack' = Tail(stack)
    /\ UNCHANGED <<required, result, built, linked, futures, waiting, handles, order, heard>>

(***************************************************************************)
(* The rest of cancel(): the error, then one promise per removed callback. *)
(***************************************************************************)
CancelEnd ==
    /\ InCancel /\ Head(stack).i > Count
    /\ outcome' = IF canBeSet THEN "actor_cancelled" ELSE outcome
    /\ promises' = promises - Head(stack).n
    /\ alive' = (alive /\ promises' > 0)
    /\ stack' = Tail(stack)
    /\ UNCHANGED <<required, result, built, linked, futures, waiting, handles, order, heard>>

(***************************************************************************)
(* Other code runs outside the quorum, in the waiter's callback, and when  *)
(* cancel() has removed a callback, which may cancel the result's actor.   *)
(***************************************************************************)
UserRuns ==
    \/ stack = <<>>
    \/ InFinish /\ heard # {}
    \/ InCancel /\ Head(stack).n > 0

UserStep ==
    /\ UserRuns
    /\ \/ \E x \in Results, r \in {"value", "error"} : Complete(x, r)
       \/ \E h \in Handles : Drop(h) \/ Wait(h) \/ \E g \in Handles : Copy(g, h)
       \/ Unwait

QuorumStep == Build \/ Return \/ FireWaiter \/ Finish \/ CancelNext \/ CancelEnd

Next == UserStep \/ QuorumStep

Spec == Init /\ [][Next]_vars

-----------------------------------------------------------------------------
(***************************************************************************)
(* The number of results before the first error, in the order in which     *)
(* they arrived; and whether the quorum was refused by an error.           *)
(***************************************************************************)
Successes == Cardinality({k \in DOMAIN order : \A j \in 1..k : order[j] = "value"})

(***************************************************************************)
(* However calls nest, the outcome is "set" exactly if Required results    *)
(* succeeded before the first error, and "error" exactly if one came       *)
(* first; a cancelled quorum has neither.                                  *)
(***************************************************************************)
OutcomeIsRight ==
    /\ outcome = "set" => Successes >= required
    /\ outcome = "error" => Successes < required /\ Successes < Len(order)
    /\ outcome = Unset /\ alive => Successes < required /\ Successes = Len(order)

(***************************************************************************)
(* The promise count is what the code takes it for: results not looked at  *)
(* yet, linked callbacks, sends in progress, and removed callbacks whose   *)
(* reference cancel() still has to drop.                                   *)
(***************************************************************************)
PromisesAreResults ==
    alive => promises = (Count - built) + Cardinality(linked)
                        + Cardinality({k \in DOMAIN stack : stack[k].op = "finish"})
                        + (IF \E k \in DOMAIN stack : stack[k].op = "cancel"
                             THEN stack[CHOOSE k \in DOMAIN stack : stack[k].op = "cancel"].n
                             ELSE 0)

(***************************************************************************)
(* Nothing of the quorum runs, is linked or is referred to once its memory *)
(* has been freed, and it is freed when nothing is left.                   *)
(***************************************************************************)
Lifetime ==
    alive <=> (Building \/ linked # {} \/ handles # {} \/ waiting \/ stack # <<>>)

(***************************************************************************)
(* Outside the quorum's own functions a waiter waits for something that    *)
(* can come, and nobody is waiting for a quorum that nobody refers to.     *)
(***************************************************************************)
NoOrphan ==
    stack = <<>> /\ ~Building =>
        /\ waiting => canBeSet /\ linked # {}
        /\ linked # {} => futures > 0

(***************************************************************************)
(* Whoever waited was told the outcome that the quorum has for good; and   *)
(* nobody is told actor_cancelled, since cancel() runs when no future is   *)
(* left to wait with.                                                      *)
(***************************************************************************)
ToldTheOutcome ==
    heard \subseteq {outcome} \intersect {"set", "error"}

(***************************************************************************)
(* All of this at once, however the calls nest.                            *)
(***************************************************************************)
QuorumSafe ==
    TypeOK /\ OutcomeIsRight /\ PromisesAreResults /\ Lifetime /\ NoOrphan /\ ToldTheOutcome
=============================================================================
