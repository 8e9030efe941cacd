---------------------------- MODULE StreamMerge ----------------------------
(***************************************************************************)
(* unorderedMergeStreams and orderedMergeStreams of                        *)
(* flow/genericactors.actor.h.  A merge reads two streams; items are       *)
(* numbers, and the ordered merge is given increasing ones.  A failed      *)
(* assertion is the state "crashed".  Items and ends may arrive before the *)
(* actor starts, between its steps, and from the consumer that it wakes    *)
(* with an item, so that both inputs can be ready when it looks again.     *)
(***************************************************************************)
EXTENDS Integers, Sequences

CONSTANTS Kind,      \* "unordered" or "ordered"
          Items,     \* the items each input may carry
          MaxItems   \* bound on the items of one input

\* What the constants have to be.
MergeAssumption == Kind \in {"unordered", "ordered"} /\ Items \subseteq Nat /\ MaxItems \in Nat

Streams == {"a", "b"}
None == "none"

VARIABLES
    sent,     \* what was sent to each input
    read,     \* number of items read from it
    inError,  \* how it ended, or None
    saved,    \* savedKVa, savedKVb, as sequences of length at most 1 (ordered)
    open,     \* aOpen, bOpen
    output, outError,
    pc

vars == <<sent, read, inError, saved, open, output, outError, pc>>

TypeOK ==
    /\ sent \in [Streams -> Seq(Items)]
    /\ \A s \in Streams : read[s] \in 0..Len(sent[s]) /\ Len(saved[s]) <= 1
    /\ open \in [Streams -> BOOLEAN]
    /\ output \in Seq(Items)
    /\ outError \in {None, "end_of_stream", "other"}
    /\ pc \in {"start", "a", "b", "choose", "emit", "done", "crashed"}

Init ==
    /\ sent = [s \in Streams |-> <<>>]
    /\ read = [s \in Streams |-> 0]
    /\ inError = [s \in Streams |-> None]
    /\ saved = [s \in Streams |-> <<>>]
    /\ open = [s \in Streams |-> TRUE]
    /\ output = <<>> /\ outError = None
    /\ pc = IF Kind = "ordered" THEN "a" ELSE "start"

(***************************************************************************)
(* The next thing in a stream, as NotifiedQueue gives it.                  *)
(***************************************************************************)
HasItem(s) == read[s] < Len(sent[s])
Item(s) == sent[s][read[s] + 1]
HasError(s) == ~HasItem(s) /\ inError[s] # None

\* NotifiedQueue::send drops what follows an error.
Send(x) == output' = IF outError = None THEN Append(output, x) ELSE output

SendError(e) == outError' = IF outError = None THEN e ELSE outError

-----------------------------------------------------------------------------
Begin ==
    /\ pc = "start"
    /\ pc' = "choose"
    /\ UNCHANGED <<sent, read, inError, saved, open, output, outError>>

(***************************************************************************)
(* waitAndForward(s) is an actor of its own: aFuture fails as soon as the  *)
(* stream does.  Never() replaces it once the stream has ended.            *)
(***************************************************************************)
FutureFailed(s) == open[s] /\ HasError(s)

(***************************************************************************)
(* One of the futures has a value; a's when is tried first.  The consumer  *)
(* may run inside output.send, before the loop starts again.               *)
(***************************************************************************)
TakeItem(s) ==
    /\ pc = "choose" /\ open[s] /\ HasItem(s)
    /\ s = "b" => ~(open["a"] /\ (HasItem("a") \/ HasError("a")))
    /\ Send(Item(s))
    /\ read' = [read EXCEPT ![s] = @ + 1]
    /\ pc' = "start"
    /\ UNCHANGED <<sent, inError, saved, open, outError>>

StillOpen(now) == now["a"] \/ now["b"]

(***************************************************************************)
(* One of the futures failed: the catch handler.                           *)
(***************************************************************************)
TakeError(s) ==
    /\ pc = "choose" /\ FutureFailed(s)
    /\ s = "b" => ~(open["a"] /\ (HasItem("a") \/ HasError("a")))
    /\ LET e == inError[s]
           now == [t \in Streams |-> open[t] /\ ~FutureFailed(t)]
       IN CASE e # "end_of_stream" ->
                 SendError(e) /\ pc' = "done" /\ UNCHANGED open
            [] e = "end_of_stream" /\ \E t \in Streams : FutureFailed(t) /\ inError[t] # e ->
                 pc' = "crashed" /\ UNCHANGED <<outError, open>>
            [] OTHER ->
                 /\ open' = now
                 /\ IF StillOpen(now) THEN UNCHANGED <<outError, pc>>
                    ELSE SendError(e) /\ pc' = "done"
    /\ UNCHANGED <<sent, read, inError, saved, output>>

-----------------------------------------------------------------------------
Other(s) == IF s = "a" THEN "b" ELSE "a"
After(s) == IF s = "a" THEN "b" ELSE "emit"

(***************************************************************************)
(* The ordered merge fills savedKVa, then savedKVb.                        *)
(***************************************************************************)
Skip(s) ==
    /\ pc = s /\ (~open[s] \/ saved[s] # <<>>)
    /\ pc' = After(s)
    /\ UNCHANGED <<sent, read, inError, saved, open, output, outError>>

Fill(s) ==
    /\ pc = s /\ open[s] /\ saved[s] = <<>> /\ HasItem(s)
    /\ saved' = [saved EXCEPT ![s] = <<Item(s)>>]
    /\ read' = [read EXCEPT ![s] = @ + 1]
    /\ pc' = After(s)
    /\ UNCHANGED <<sent, inError, open, output, outError>>

(***************************************************************************)
(* waitNext failed.  When both have ended the error is sent and the loop   *)
(* goes on.                                                                *)
(***************************************************************************)
FillFails(s) ==
    /\ pc = s /\ open[s] /\ saved[s] = <<>> /\ HasError(s)
    /\ IF inError[s] = "end_of_stream"
         THEN /\ open' = [open EXCEPT ![s] = FALSE]
              /\ IF ~open[Other(s)] THEN SendError("end_of_stream") ELSE UNCHANGED outError
              /\ pc' = After(s)
         ELSE SendError(inError[s]) /\ pc' = "done" /\ UNCHANGED open
    /\ UNCHANGED <<sent, read, inError, saved, output>>

(***************************************************************************)
(* The saved items that leave: a's alone, b's alone, or both if equal.     *)
(***************************************************************************)
Chosen ==
    CASE ~open["a"] -> {"b"}
      [] open["a"] /\ ~open["b"] -> {"a"}
      [] OTHER -> CASE saved["a"][1] = saved["b"][1] -> {"a", "b"}
                    [] saved["a"][1] < saved["b"][1] -> {"a"}
                    [] OTHER -> {"b"}

(***************************************************************************)
(* Optional::get asserts that there is an item.                            *)
(***************************************************************************)
Emit ==
    /\ pc = "emit"
    /\ IF \E s \in Chosen : saved[s] = <<>>
         THEN pc' = "crashed" /\ UNCHANGED <<saved, output>>
         ELSE /\ Send(saved[IF "a" \in Chosen THEN "a" ELSE "b"][1])
              /\ saved' = [s \in Streams |-> IF s \in Chosen THEN <<>> ELSE saved[s]]
              /\ pc' = "a"
    /\ UNCHANGED <<sent, read, inError, open, outError>>

-----------------------------------------------------------------------------
(***************************************************************************)
(* An actor that waits is resumed before others can do anything else.      *)
(***************************************************************************)
Resumed == pc = "choose" /\ \E s \in Streams : open[s] /\ (HasItem(s) \/ HasError(s))

Feed(s, x) ==
    /\ ~Resumed
    /\ inError[s] = None /\ Len(sent[s]) < MaxItems
    /\ Kind = "ordered" => \A k \in DOMAIN sent[s] : sent[s][k] < x
    /\ sent' = [sent EXCEPT ![s] = Append(@, x)]
    /\ UNCHANGED <<read, inError, saved, open, output, outError, pc>>

End(s, e) ==
    /\ ~Resumed
    /\ inError[s] = None
    /\ inError' = [inError EXCEPT ![s] = e]
    /\ UNCHANGED <<sent, read, saved, open, output, outError, pc>>

Unordered == Begin \/ \E s \in Streams : TakeItem(s) \/ TakeError(s)

Ordered == Emit \/ \E s \in Streams : Skip(s) \/ Fill(s) \/ FillFails(s)

ActorStep == IF Kind = "ordered" THEN Ordered ELSE Unordered

Next ==
    \/ ActorStep
    \/ \E s \in Streams :
          \/ \E x \in Items : Feed(s, x)
          \/ \E e \in {"end_of_stream", "other"} : End(s, e)

Spec == Init /\ [][Next]_vars /\ WF_vars(ActorStep)

-----------------------------------------------------------------------------
Occurrences(x, s) == Len(SelectSeq(s, LAMBDA y : y = x))

(***************************************************************************)
(* The output of the unordered merge has every item that was read, as      *)
(* often as it was read.                                                   *)
(***************************************************************************)
NothingLost ==
    Kind = "unordered" =>
        \A x \in Items :
            Occurrences(x, output) = Occurrences(x, SubSeq(sent["a"], 1, read["a"]))
                            + Occurrences(x, SubSeq(sent["b"], 1, read["b"]))

(***************************************************************************)
(* The ordered merge of increasing inputs is increasing and has every key  *)
(* that was read and is not saved, once.                                   *)
(***************************************************************************)
Keys(s) == {sent[s][k] : k \in 1..read[s]} \ {saved[s][k] : k \in DOMAIN saved[s]}

OrderedOutput ==
    Kind = "ordered" =>
        /\ \A j, k \in DOMAIN output : j < k => output[j] < output[k]
        /\ {output[k] : k \in DOMAIN output} = Keys("a") \union Keys("b")

(***************************************************************************)
(* The output ends with end_of_stream only after both inputs and all their *)
(* items.                                                                  *)
(***************************************************************************)
EndMeansBoth ==
    outError = "end_of_stream" =>
        \A s \in Streams : inError[s] = "end_of_stream" /\ read[s] = Len(sent[s])

(***************************************************************************)
(* When both inputs have ended (BothEnd) the consumer hears of an end      *)
(* (Told).                                                                 *)
(***************************************************************************)
BothEnd == inError["a"] # None /\ inError["b"] # None
Told == outError # None \/ pc = "crashed"

(***************************************************************************)
(* The assertion in the handler, !aFuture.isError() || !bFuture.isError()  *)
(* || the same code, and the assertion in Optional::get().                 *)
(***************************************************************************)
NoAssertionFails == pc # "crashed"

(***************************************************************************)
(* What a merge of either kind is for.                                     *)
(***************************************************************************)
MergeRight == TypeOK /\ NothingLost /\ OrderedOutput /\ EndMeansBoth
=============================================================================
