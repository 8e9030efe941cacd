------------------------------ MODULE AsyncVars ------------------------------
(***************************************************************************)
(* AsyncVar and the actors that follow one (flow/genericactors.actor.h):   *)
(* delayedAsyncVar and asyncDeserialize copy it to another, and resetAfter *)
(* sets it back.                                                           *)
(*                                                                         *)
(* set() replaces the promise of the next change and then sends the old    *)
(* one, which runs the waiters, one after the other, up to their next      *)
(* wait; they may set variables too.  `stack' has the sends under way: the *)
(* waiters still to run, and the actor that goes on after it.              *)
(***************************************************************************)
EXTENDS Integers, Sequences, SequencesExt

CONSTANTS Values,       \* of the variable; Reset is the one resetAfter restores
          Reset,
          Depth         \* bound on sends inside sends

\* What the constants have to be.
AsyncVarsAssumption == Reset \in Values /\ Depth \in Nat

VARIABLES
    in,         \* the variable
    out,        \* the copies, by the actor that makes them
    wait,       \* what each actor waits for
    resetDelay, \* whether resetAfter's delay runs
    stack,
    missed      \* copiers during whose set() the variable changed

vars == <<in, out, wait, resetDelay, stack, missed>>

Delayed == "delayedAsyncVar"
Parser == "asyncDeserialize"
Resetter == "resetAfter"
Watcher == "watcher"       \* an actor of the program that waits for changes of the copies
Copiers == {Delayed, Parser}
Actors == Copiers \cup {Resetter, Watcher}
Nobody == "nobody"

Init ==
    /\ in = Reset /\ out = [a \in Copiers |-> Reset]
    /\ wait = [a \in Actors |-> IF a = Delayed THEN "delay" ELSE IF a = Watcher THEN "out" ELSE "in"]
    /\ resetDelay = FALSE /\ stack = <<>> /\ missed = {}

Waiters(what) == SetToSeq({a \in Actors : wait[a] = what})
Top == stack[1]

\* Copiers whose set() is under way.
Inside == {stack[i].after : i \in DOMAIN stack} \cap Copiers

-----------------------------------------------------------------------------
\* AsyncVar::set: nothing happens if the value is the same.
SetIn(v, frames, w, after) ==
    IF v = in
    THEN in' = in /\ stack' = frames /\ wait' = w /\ UNCHANGED missed
    ELSE /\ in' = v /\ missed' = missed \cup Inside
         /\ stack' = <<[todo |-> SetToSeq({a \in Actors : w[a] = "in"}), after |-> after]>> \o frames
         /\ wait' = [a \in Actors |-> IF w[a] = "in" THEN "called" ELSE w[a]]

\* A copier's out->set(in->get()); it goes on to wait for the next change.
Copy(a, frames, w) ==
    /\ missed' = missed \ {a}
    /\ out' = [out EXCEPT ![a] = in]
    /\ IF out[a] = in THEN stack' = frames /\ wait' = [w EXCEPT ![a] = "in"]
       ELSE /\ stack' = <<[todo |-> SetToSeq({b \in Actors : w[b] = "out"}), after |-> a]>> \o frames
            /\ wait' = [b \in Actors |-> IF b = a \/ w[b] = "out" THEN "called" ELSE w[b]]

UserSet(v) ==
    /\ stack = <<>> /\ v # in /\ SetIn(v, <<>>, wait, Nobody) /\ UNCHANGED <<out, resetDelay>>

DelayedAfterDelay ==
    /\ stack = <<>> /\ wait[Delayed] = "delay" /\ Copy(Delayed, <<>>, wait)
    /\ UNCHANGED <<in, resetDelay>>

\* Cancelled: the last value is copied.
CancelDelayed ==
    /\ stack = <<>> /\ wait[Delayed] \in {"delay", "in"}
    /\ out' = [out EXCEPT ![Delayed] = in] /\ missed' = missed \ {Delayed}
    /\ IF out[Delayed] = in THEN UNCHANGED stack /\ wait' = [wait EXCEPT ![Delayed] = "done"]
       ELSE /\ stack' = <<[todo |-> Waiters("out"), after |-> Nobody]>>
            /\ wait' = [a \in Actors |-> IF a = Delayed THEN "done"
                                         ELSE IF wait[a] = "out" THEN "called" ELSE wait[a]]
    /\ UNCHANGED <<in, resetDelay>>

-----------------------------------------------------------------------------
(***************************************************************************)
(* resetAfter.                                                             *)
(***************************************************************************)
\* What follows the choose of resetAfter's loop.
Rearm(v) == v # Reset

\* The delay ends: the variable is set while resetAfter waits for nothing.
ResetDelayEnds ==
    /\ stack = <<>> /\ resetDelay /\ resetDelay' = FALSE
    /\ \E w \in {[wait EXCEPT ![Resetter] = "called"]} : SetIn(Reset, <<>>, w, Resetter)
    /\ UNCHANGED out

-----------------------------------------------------------------------------
(***************************************************************************)
(* The next waiter of the innermost send runs.                             *)
(***************************************************************************)
Rest == <<[Top EXCEPT !.todo = Tail(@)]>> \o Tail(stack)

RunCopier(a) ==
    IF a = Delayed
    THEN wait' = [wait EXCEPT ![a] = "delay"] /\ stack' = Rest /\ UNCHANGED <<in, out, resetDelay, missed>>
    ELSE Copy(a, Rest, wait) /\ UNCHANGED <<in, resetDelay>>

RunResetter ==
    /\ resetDelay' = Rearm(in) /\ wait' = [wait EXCEPT ![Resetter] = "in"] /\ stack' = Rest
    /\ UNCHANGED <<in, out, missed>>

\* The watcher may set the variable before it waits again.
RunWatcher ==
    /\ \E v \in {in} \cup (IF Len(stack) < Depth THEN Values ELSE {}) :
         SetIn(v, Rest, [wait EXCEPT ![Watcher] = "out"], Nobody)
    /\ UNCHANGED <<out, resetDelay>>

RunWaiter ==
    /\ stack # <<>> /\ Top.todo # <<>>
    /\ \E a \in {Head(Top.todo)} :
         IF a \in Copiers THEN RunCopier(a) ELSE IF a = Resetter THEN RunResetter ELSE RunWatcher

\* The send is over, and the actor that made it goes on.
SendReturns ==
    /\ stack # <<>> /\ Top.todo = <<>> /\ stack' = Tail(stack)
    /\ wait' = IF Top.after = Nobody THEN wait ELSE [wait EXCEPT ![Top.after] = "in"]
    /\ resetDelay' = IF Top.after = Resetter THEN Rearm(in) ELSE resetDelay
    /\ UNCHANGED <<in, out, missed>>

Next ==
    \/ \E v \in Values : UserSet(v)
    \/ DelayedAfterDelay \/ CancelDelayed \/ ResetDelayEnds \/ RunWaiter \/ SendReturns

\* The run loop and the timers go on.
Spec == Init /\ [][Next]_vars /\ WF_vars(RunWaiter \/ SendReturns \/ DelayedAfterDelay)
        /\ SF_vars(ResetDelayEnds)

-----------------------------------------------------------------------------
(***************************************************************************)
(* A copier that waits for the next change has copied the last value,      *)
(* unless the variable was changed from within its own set(): that change  *)
(* it does not see.                                                        *)
(***************************************************************************)
CopiesCurrent ==
    \A a \in Copiers : (wait[a] = "in" /\ stack = <<>>) => (out[a] = in \/ a \in missed)

(***************************************************************************)
(* resetAfter's delay runs exactly while the variable is not Reset,        *)
(* wherever it was changed from.                                           *)
(***************************************************************************)
DelayRunsWhileChanged == stack = <<>> => (resetDelay <=> in # Reset)

(***************************************************************************)
(* A variable under resetAfter that is Changed comes back, however often   *)
(* it is set.                                                              *)
(***************************************************************************)
Changed == in # Reset

(***************************************************************************)
(* Both, with changes made from within changes.                            *)
(***************************************************************************)
CopiesRight == CopiesCurrent /\ DelayRunsWhileChanged
=============================================================================
