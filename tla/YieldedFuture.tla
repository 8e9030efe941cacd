---------------------------- MODULE YieldedFuture ----------------------------
(***************************************************************************)
(* yieldedFuture (flow/genericactors.actor.h): a future that is set when   *)
(* another one is, or a moment later if the run loop wants to go on: then  *)
(* it takes itself and the callbacks behind it from the ring of the source *)
(* to that of a delay.                                                     *)
(*                                                                         *)
(* Plain callbacks of the source stand at the front of its ring, yielded   *)
(* ones at the back.  The code a callback runs may cancel others.          *)
(***************************************************************************)
EXTENDS Integers, Sequences, SequencesExt, FiniteSets

CONSTANTS Plain, Yielded,   \* callbacks
          Errors            \* whether the source may get an error

\* What the constants have to be.
YieldedFutureAssumption == Plain \cap Yielded = {} /\ Errors \in BOOLEAN

VARIABLES
    source,    \* "unset", "value" or "error"
    ring,      \* callbacks of the source
    delayed,   \* callbacks of the delay, when there is one
    firing,    \* the ring whose callbacks are being fired, or "none"
    error_state,   \* in_error_state of each YieldedFutureActor
    result     \* of each callback: "none" before it is made, "pending", or what it got

vars == <<source, ring, delayed, firing, error_state, result>>

Callbacks == Plain \cup Yielded

Init ==
    /\ source = "unset" /\ ring = <<>> /\ delayed = <<>> /\ firing = "none"
    /\ error_state = [y \in Yielded |-> "UNSET"] /\ result = [x \in Callbacks |-> "none"]

Joined(x) == IF x \in Yielded THEN Append(ring, x) ELSE <<x>> \o ring

\* A wait on the source, or a YieldedFutureActor of it; when the source is
\* ready, the first gets what it has and the second is yield().
Wait(x) ==
    /\ result[x] = "none"
    /\ IF source = "unset" THEN ring' = Joined(x) /\ result' = [result EXCEPT ![x] = "pending"]
       ELSE /\ result' = [result EXCEPT ![x] = IF x \in Yielded THEN "value" ELSE source]
            /\ UNCHANGED ring
    /\ UNCHANGED <<source, delayed, firing, error_state>>

\* Cancel, which may be called from code that a callback runs.
Cancel(x) ==
    /\ result[x] = "pending" /\ result' = [result EXCEPT ![x] = "cancelled"]
    /\ ring' = SelectSeq(ring, LAMBDA y : y # x) /\ delayed' = SelectSeq(delayed, LAMBDA y : y # x)
    /\ UNCHANGED <<source, firing, error_state>>

Send(v) ==
    /\ source = "unset" /\ source' = v /\ firing' = "source"
    /\ UNCHANGED <<ring, delayed, error_state, result>>

DelayFires ==
    /\ firing = "none" /\ delayed # <<>> /\ firing' = "delay"
    /\ UNCHANGED <<source, ring, delayed, error_state, result>>

-----------------------------------------------------------------------------
Fired == IF firing = "source" THEN ring ELSE delayed

\* A callback leaves the ring it is fired from.
Leave ==
    /\ ring' = IF firing = "source" THEN Tail(ring) ELSE ring
    /\ delayed' = IF firing = "delay" THEN Tail(delayed) ELSE delayed

FirePlain ==
    /\ firing = "source" /\ ring # <<>> /\ Head(ring) \in Plain
    /\ result' = [result EXCEPT ![Head(ring)] = source]
    /\ Leave
    /\ UNCHANGED <<source, firing, error_state>>

\* finish()
finish(y, state) ==
    /\ Leave
    /\ result' = [result EXCEPT ![y] = IF state = "SET" THEN "value" ELSE "error"]
    /\ UNCHANGED <<source, firing>>

Moved(chain) == chain

\* Fault: the callbacks stay in the ring of the source as well.
SourceRingKept == ring

SourceRing == <<>>

\* doYield(): the rest of the ring moves to a delay.
doYield ==
    /\ ring' = IF firing = "source" THEN SourceRing ELSE ring
    /\ delayed' = Moved(Fired)
    /\ firing' = "none"
    /\ UNCHANGED <<source, result>>

\* a_callback_error if the source has an error and fires, a_callback_fire
\* otherwise; the delay fires with a value.  An actor that was fired before
\* has yielded, and finishes.
Noted == IF firing = "source" /\ source = "error" THEN "error" ELSE "SET"
FireYielded ==
    /\ firing # "none" /\ Fired # <<>> /\ Head(Fired) \in Yielded
    /\ \E y \in {Head(Fired)} :
         IF error_state[y] = "UNSET"
         THEN /\ error_state' = [error_state EXCEPT ![y] = Noted]
              /\ finish(y, Noted) \/ doYield
         ELSE finish(y, error_state[y]) /\ UNCHANGED error_state

EndLoop ==
    /\ firing # "none" /\ Fired = <<>> /\ firing' = "none"
    /\ UNCHANGED <<source, ring, delayed, error_state, result>>

Values == IF Errors THEN {"value", "error"} ELSE {"value"}
Step == FirePlain \/ FireYielded \/ EndLoop \/ DelayFires
Next ==
    \/ \E x \in Callbacks : Wait(x) \/ Cancel(x)
    \/ \E v \in Values : Send(v)
    \/ Step

\* The run loop goes on.
Spec == Init /\ [][Next]_vars /\ WF_vars(Step)

-----------------------------------------------------------------------------
(***************************************************************************)
(* A callback that waits is in one ring, once, and one that does not is in *)
(* none: it is never fired twice, nor after it was cancelled.              *)
(***************************************************************************)
InOneRing ==
    /\ IsInjective(ring \o delayed)
    /\ ToSet(ring \o delayed) = {x \in Callbacks : result[x] = "pending"}

(***************************************************************************)
(* "All the remaining callbacks in the ring should be yielded": no plain   *)
(* callback moves to the delay.                                            *)
(***************************************************************************)
OnlyYieldedMoves == ToSet(delayed) \subseteq Yielded

(***************************************************************************)
(* Once the source is set, every callback that waits (Due) is fired (no    *)
(* longer Due), however often the run                                      *)
(* loop wants to go on first and whatever is cancelled.                    *)
(***************************************************************************)
Due(x) == source # "unset" /\ result[x] = "pending"

(***************************************************************************)
(* A yieldedFuture has what its source has: an error stays an error.       *)
(***************************************************************************)
SameOutcome == \A y \in Yielded : result[y] = "value" => source = "value"

(***************************************************************************)
(* Both, whatever is cancelled while callbacks are fired.                  *)
(***************************************************************************)
YieldedSafe == InOneRing /\ OnlyYieldedMoves
=============================================================================
