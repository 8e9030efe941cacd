--------------------------- MODULE WakeableQueue ---------------------------
(***************************************************************************)
(* What ThreadSafeQueue promises: items leave in the order in which they   *)
(* entered, each once; the consumer falls asleep only when there is        *)
(* nothing in the queue, and the first push after that owes it a wakeup.   *)
(***************************************************************************)
EXTENDS Naturals, Sequences

CONSTANT Items

VARIABLES entered, \* items in the order in which they were pushed
          left,    \* items in the order in which the consumer got them
          asleep,  \* the consumer was told that it can sleep
          owed     \* a push since then has to report that it must be woken

vars == <<entered, left, asleep, owed>>

Init == entered = <<>> /\ left = <<>> /\ asleep = FALSE /\ owed = FALSE

Push(x) ==
    /\ \A i \in DOMAIN entered : entered[i] # x
    /\ entered' = Append(entered, x)
    /\ owed' = asleep
    /\ UNCHANGED <<left, asleep>>

Pop ==
    /\ ~asleep
    /\ Len(left) < Len(entered)
    /\ left' = Append(left, entered[Len(left) + 1])
    /\ UNCHANGED <<entered, asleep, owed>>

FallAsleep ==
    /\ ~asleep /\ left = entered
    /\ asleep' = TRUE
    /\ UNCHANGED <<entered, left, owed>>

WakeUp ==
    /\ asleep
    /\ asleep' = FALSE /\ owed' = FALSE
    /\ UNCHANGED <<entered, left>>

Next == (\E x \in Items : Push(x)) \/ Pop \/ FallAsleep \/ WakeUp

Spec == Init /\ [][Next]_vars
=============================================================================
