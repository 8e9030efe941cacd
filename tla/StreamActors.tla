---------------------------- MODULE StreamActors ----------------------------
(***************************************************************************)
(* The actors of flow/genericactors.actor.h that read one stream and write *)
(* another: map, filter, mapAsync, asyncFilter and yieldPromiseStream.     *)
(* The asynchronous ones keep a queue of futures; the function's result    *)
(* for an item arrives at any time, in any order, and may be an error,     *)
(* end_of_stream among them.                                               *)
(***************************************************************************)
EXTENDS Integers, Sequences

CONSTANTS Kinds,    \* the actors to check
          MaxItems  \* bound on the items sent to the input

\* What the constants have to be.
StreamActorsAssumption ==
    /\ Kinds \subseteq {"map", "filter", "mapAsync", "asyncFilter", "yield"}
    /\ MaxItems \in Nat

VARIABLES
    kind,     \* which actor
    pc,       \* "loop", "yield", "drain", "done" or "failed"
    input,    \* items waiting in the input stream
    inError,  \* how the input ended, or "none"
    sent,     \* number of items sent to the input
    futures,  \* the actor's queue: [item, res], res is "pending", "yes", "no", "error", "end"
    output,   \* items in the output stream
    outError  \* how the output ended, or "none"

vars == <<kind, pc, input, inError, sent, futures, output, outError>>

Async == kind \in {"mapAsync", "asyncFilter"}

TypeOK ==
    /\ kind \in Kinds
    /\ pc \in {"loop", "yield", "drain", "done", "failed"}
    /\ sent \in 0..MaxItems
    /\ input \in Seq(1..MaxItems) /\ output \in Seq(1..MaxItems)
    /\ {inError, outError} \subseteq {"none", "end_of_stream", "other"}
    /\ \A k \in DOMAIN futures : futures[k].res \in {"pending", "yes", "no", "error", "end"}

Init ==
    /\ kind \in Kinds
    /\ pc = "loop"
    /\ input = <<>> /\ inError = "none" /\ sent = 0
    /\ futures = <<>>
    /\ output = <<>> /\ outError = "none"

Running == pc \notin {"done", "failed"}

(***************************************************************************)
(* A synchronous predicate keeps the odd items.                            *)
(***************************************************************************)
func(x) == x % 2 = 1

Front == futures[1]

FrontReady == futures # <<>> /\ Front.res # "pending"

(***************************************************************************)
(* The input comes first in the choose.                                    *)
(***************************************************************************)
TakeInput ==
    /\ pc = "loop" /\ input # <<>>
    /\ input' = Tail(input)
    /\ LET x == Head(input) IN
       /\ futures' = IF Async THEN Append(futures, [item |-> x, res |-> "pending"]) ELSE futures
       /\ output' = IF kind \in {"map", "yield"} \/ (kind = "filter" /\ func(x))
                      THEN Append(output, x) ELSE output
    /\ pc' = IF kind = "yield" THEN "yield" ELSE "loop"
    /\ UNCHANGED <<kind, inError, sent, outError>>

YieldEnds == pc = "yield" /\ pc' = "loop" /\ UNCHANGED <<kind, input, inError, sent, futures, output, outError>>

\* Fault: the end of the input ends the output, whatever is outstanding.
InputEndsEarly ==
    /\ pc = "loop" /\ input = <<>> /\ inError # "none"
    /\ pc' = "done" /\ outError' = inError
    /\ UNCHANGED <<kind, input, inError, sent, futures, output>>

(***************************************************************************)
(* End of stream leaves the loop; another error is thrown, by mapAsync     *)
(* after it was sent to the output.  yieldPromiseStream throws them all.   *)
(***************************************************************************)
InputEnds ==
    /\ pc = "loop" /\ input = <<>> /\ inError # "none"
    /\ IF inError = "end_of_stream" /\ kind # "yield"
         THEN pc' = "drain" /\ UNCHANGED outError
         ELSE /\ pc' = "failed"
              /\ outError' = IF kind = "mapAsync" THEN inError ELSE outError
    /\ UNCHANGED <<kind, input, inError, sent, futures, output>>

Emit(f) ==
    output' = IF kind = "mapAsync" \/ f.res = "yes" THEN Append(output, f.item) ELSE output

(***************************************************************************)
(* The front future is ready, in the choose or in the loop after it.       *)
(***************************************************************************)
TakeFront ==
    /\ FrontReady /\ Front.res \notin {"error", "end"}
    /\ pc = "drain" \/ (pc = "loop" /\ input = <<>> /\ inError = "none")
    /\ Emit(Front)
    /\ futures' = Tail(futures)
    /\ UNCHANGED <<kind, pc, input, inError, sent, outError>>

(***************************************************************************)
(* It failed: only mapAsync's first loop tells the output.  end_of_stream  *)
(* leaves that loop as if the input had ended, and fails the actor when    *)
(* the second one waits for the same future.                               *)
(***************************************************************************)
FrontFails ==
    /\ FrontReady /\ Front.res \in {"error", "end"}
    /\ pc = "drain" \/ (pc = "loop" /\ input = <<>> /\ inError = "none")
    /\ pc' = IF pc = "loop" /\ Front.res = "end" THEN "drain" ELSE "failed"
    /\ outError' = IF kind = "mapAsync" /\ pc = "loop" /\ Front.res = "error" THEN "other" ELSE outError
    /\ UNCHANGED <<kind, input, inError, sent, futures, output>>

Drained ==
    /\ pc = "drain" /\ futures = <<>>
    /\ pc' = "done"
    /\ outError' = "end_of_stream"
    /\ UNCHANGED <<kind, input, inError, sent, futures, output>>

-----------------------------------------------------------------------------
(***************************************************************************)
(* Others: items and the end of the input, results of the function.        *)
(***************************************************************************)
Feed ==
    /\ sent < MaxItems /\ inError = "none"
    /\ sent' = sent + 1
    /\ input' = Append(input, sent')
    /\ UNCHANGED <<kind, pc, inError, futures, output, outError>>

EndInput(e) ==
    /\ inError = "none"
    /\ inError' = e
    /\ UNCHANGED <<kind, pc, input, sent, futures, output, outError>>

Answer(k, r) ==
    /\ k \in DOMAIN futures /\ futures[k].res = "pending"
    /\ futures' = [futures EXCEPT ![k].res = r]
    /\ UNCHANGED <<kind, pc, input, inError, sent, output, outError>>

ActorStep == TakeInput \/ YieldEnds \/ InputEnds \/ TakeFront \/ FrontFails \/ Drained

Answers == \E k \in 1..MaxItems, r \in {"yes", "no", "error", "end"} : Answer(k, r)

Next ==
    \/ ActorStep
    \/ Feed \/ Answers
    \/ \E e \in {"end_of_stream", "other"} : EndInput(e)

(***************************************************************************)
(* The actor runs when it can, and the function always answers.            *)
(***************************************************************************)
Spec == Init /\ [][Next]_vars /\ WF_vars(ActorStep) /\ WF_vars(Answers)

-----------------------------------------------------------------------------
Taken == sent - Len(input) - Len(futures)

(***************************************************************************)
(* However the answers arrive, the output has the items in the order of    *)
(* the input, each at most once, and map and mapAsync leave none out.      *)
(***************************************************************************)
OrderKept ==
    /\ \A j, k \in DOMAIN output : j < k => output[j] < output[k]
    /\ \A k \in DOMAIN output : output[k] <= Taken
    /\ kind \in {"map", "mapAsync", "yield"} => Len(output) = Taken
    /\ kind = "filter" => output = SelectSeq([x \in 1..Taken |-> x], func)

(***************************************************************************)
(* The output ends with end_of_stream only if everything was handled.      *)
(***************************************************************************)
EndMeansAll == outError = "end_of_stream" => inError = "end_of_stream" /\ Taken = sent /\ pc = "done"

(***************************************************************************)
(* Once the input has ended (InputEnded) the actor ends (~Running).        *)
(***************************************************************************)
InputEnded == inError # "none"

(***************************************************************************)
(* What the stream actors are for.                                         *)
(***************************************************************************)
StreamActorsRight == TypeOK /\ OrderKept /\ EndMeansAll
=============================================================================
