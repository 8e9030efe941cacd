--------------------------- MODULE NotifiedQueue ---------------------------
(***************************************************************************)
(* The stream of flow (NotifiedQueue<T>, flow/flow.h) with its             *)
(* PromiseStream and FutureStream handles and the one actor that may wait  *)
(* on it.  A value is its number in the order of sending.                  *)
(*                                                                         *)
(* Unlike SAV the code touches nothing after it has called the callback,   *)
(* so an operation is one step and the callback's own code comes after it. *)
(* What makes it hard is that this call may destroy the queue: the waiter  *)
(* unlinks itself, which can drop the last reference.                      *)
(***************************************************************************)
EXTENDS Integers, Sequences, SequencesExt, FiniteSets

CONSTANTS Producers, \* PromiseStream objects that may point to the queue
          Consumers, \* FutureStream objects that may point to the queue
          MaxSends   \* bound on the values that are sent

ASSUME StreamAssumption ==
    /\ IsFiniteSet(Producers)
    /\ IsFiniteSet(Consumers)
    /\ MaxSends \in Nat

VARIABLES
    alive,          \* FALSE once destroy() has run
    promises,       \* NotifiedQueue::promises
    futures,        \* NotifiedQueue::futures
    queue,          \* NotifiedQueue::queue
    error,          \* NotifiedQueue::error, NoError if not valid
    waiting,        \* SingleCallback<T>::next != this
    promiseHandles, \* PromiseStream objects holding a reference
    futureHandles,  \* FutureStream objects holding a reference
    sent,           \* number of values that were sent
    received,       \* values the consumers got, in order
    heard           \* the errors that waiters and readers were told

vars == <<alive, promises, futures, queue, error, waiting, promiseHandles,
          futureHandles, sent, received, heard>>

NoError == "none"
StreamErrors == {"end_of_stream", "broken_promise"}

TypeOK ==
    /\ alive \in BOOLEAN
    /\ promises \in Nat /\ futures \in Nat
    /\ queue \in Seq(1..MaxSends)
    /\ error \in StreamErrors \union {NoError}
    /\ waiting \in BOOLEAN
    /\ promiseHandles \subseteq Producers
    /\ futureHandles \subseteq Consumers
    /\ sent \in 0..MaxSends
    /\ received \in Seq(1..MaxSends)
    /\ heard \subseteq StreamErrors

Init ==
    /\ alive = TRUE
    /\ promises = 1 /\ futures = 0
    /\ queue = <<>>
    /\ error = NoError
    /\ waiting = FALSE
    /\ \E p \in Producers : promiseHandles = {p}
    /\ futureHandles = {}
    /\ sent = 0 /\ received = <<>> /\ heard = {}

isReady == queue # <<>> \/ error # NoError
isError == queue = <<>> /\ error # NoError

-----------------------------------------------------------------------------
CopyPromise(p, q) ==
    /\ p \in promiseHandles /\ q \in Producers \ promiseHandles
    /\ promises' = promises + 1
    /\ promiseHandles' = promiseHandles \union {q}
    /\ UNCHANGED <<alive, futures, queue, error, waiting, futureHandles, sent, received,
                   heard>>

NewFuture(f) ==
    /\ f \in Consumers \ futureHandles
    /\ futures' = futures + 1
    /\ futureHandles' = futureHandles \union {f}
    /\ UNCHANGED <<alive, promises, queue, error, waiting, promiseHandles, sent, received,
                   heard>>

GetFuture(p, f) == p \in promiseHandles /\ NewFuture(f)

CopyFuture(f, g) == f \in futureHandles /\ NewFuture(g)

(***************************************************************************)
(* delFutureRef with p promises left; cancel() does nothing for a stream.  *)
(***************************************************************************)
delFutureRef(p) ==
    /\ futures' = futures - 1
    /\ alive' = ~(futures = 1 /\ p = 0)

DropFuture(f) ==
    /\ f \in futureHandles
    /\ futureHandles' = futureHandles \ {f}
    /\ delFutureRef(promises)
    /\ UNCHANGED <<promises, queue, error, waiting, promiseHandles, sent, received, heard>>

\* Fault: both unlinking and unwait() give up the waiter's reference.
CallWaiterDropsTwice(p) ==
    /\ waiting' = FALSE
    /\ futures' = futures - 2
    /\ alive' = ~(futures = 2 /\ p = 0)

(***************************************************************************)
(* The waiter is called: it unlinks itself, unwait() drops its reference.  *)
(***************************************************************************)
CallWaiter(p) == waiting' = FALSE /\ delFutureRef(p)

(***************************************************************************)
(* PromiseStream::send: to the waiter if there is one, else to the queue.  *)
(* After an error values are dropped (and not counted as sent).            *)
(***************************************************************************)
Send(p) ==
    /\ p \in promiseHandles /\ sent < MaxSends
    /\ error = NoError
    /\ sent' = sent + 1
    /\ IF waiting
         THEN CallWaiter(promises) /\ received' = Append(received, sent') /\ UNCHANGED queue
         ELSE /\ queue' = Append(queue, sent')
              /\ UNCHANGED <<waiting, futures, alive, received>>
    /\ UNCHANGED <<promises, error, promiseHandles, futureHandles, heard>>

(***************************************************************************)
(* sendError(e) with p promises left; the first error stays.               *)
(***************************************************************************)
sendError(e, p) ==
    IF error # NoError
      THEN UNCHANGED <<error, waiting, futures, alive, heard>>
      ELSE /\ error' = e
           /\ IF waiting
                THEN CallWaiter(p) /\ heard' = heard \union {e}
                ELSE UNCHANGED <<waiting, futures, alive, heard>>

SendError(p) ==
    /\ p \in promiseHandles
    /\ sendError("end_of_stream", promises)
    /\ UNCHANGED <<promises, queue, promiseHandles, futureHandles, sent, received>>

(***************************************************************************)
(* ~PromiseStream: the count is 0 before the stream is broken.             *)
(***************************************************************************)
DropPromise(p) ==
    /\ p \in promiseHandles
    /\ promises' = promises - 1
    /\ promiseHandles' = promiseHandles \ {p}
    /\ CASE promises = 1 /\ futures > 0 -> sendError("broken_promise", 0)
         [] promises = 1 /\ futures = 0 -> alive' = FALSE /\ UNCHANGED <<error, waiting, futures, heard>>
         [] OTHER -> UNCHANGED <<alive, error, waiting, futures, heard>>
    /\ UNCHANGED <<queue, futureHandles, sent, received>>

-----------------------------------------------------------------------------
(***************************************************************************)
(* waitNext(f) on a stream that is ready: the next value is popped, or the *)
(* error thrown.  The statement's own copy of f comes and goes.            *)
(***************************************************************************)
NextReady(f) ==
    /\ f \in futureHandles /\ isReady
    /\ IF isError
         THEN heard' = heard \union {error} /\ UNCHANGED <<queue, received>>
         ELSE /\ received' = Append(received, Head(queue))
              /\ queue' = Tail(queue)
              /\ UNCHANGED heard
    /\ UNCHANGED <<alive, promises, futures, error, waiting, promiseHandles, futureHandles, sent>>

(***************************************************************************)
(* waitNext(f) on a stream that is not ready: the statement's copy of f    *)
(* becomes the callback's reference.  Only one actor waits on a stream.    *)
(***************************************************************************)
NextWaits(f) ==
    /\ f \in futureHandles /\ ~isReady /\ ~waiting
    /\ waiting' = TRUE
    /\ futures' = futures + 1
    /\ UNCHANGED <<alive, promises, queue, error, promiseHandles, futureHandles, sent, received, heard>>

(***************************************************************************)
(* The waiting actor is cancelled or takes another branch of a choose.     *)
(***************************************************************************)
RemoveCallback ==
    /\ waiting
    /\ CallWaiter(promises)
    /\ UNCHANGED <<promises, queue, error, promiseHandles, futureHandles, sent, received, heard>>

ProducerStep ==
    \E p \in Producers :
        \/ \E q \in Producers : CopyPromise(p, q)
        \/ \E f \in Consumers : GetFuture(p, f)
        \/ Send(p) \/ SendError(p) \/ DropPromise(p)

ConsumerStep ==
    \/ \E f \in Consumers :
         \/ \E g \in Consumers : CopyFuture(f, g)
         \/ NextReady(f) \/ NextWaits(f) \/ DropFuture(f)
    \/ RemoveCallback

Next == ProducerStep \/ ConsumerStep

Spec == Init /\ [][Next]_vars

-----------------------------------------------------------------------------
(***************************************************************************)
(* The counts are the handles, plus one for a waiting callback.            *)
(***************************************************************************)
CallbackRef == IF waiting THEN 1 ELSE 0

RefCounts ==
    alive => /\ promises = Cardinality(promiseHandles)
             /\ futures = Cardinality(futureHandles) + CallbackRef

(***************************************************************************)
(* The queue is destroyed exactly when the last handle and the waiter are  *)
(* gone, also when that happens inside sendError.                          *)
(***************************************************************************)
Lifetime == alive <=> (promiseHandles # {} \/ futureHandles # {} \/ waiting)

(***************************************************************************)
(* The comment of the class: "Invariant: next==this || (queue.empty() &&   *)
(* !error.isValid())"; and whoever waits can still be sent something.      *)
(***************************************************************************)
WaiterInvariant == waiting => queue = <<>> /\ error = NoError /\ promiseHandles # {}

(***************************************************************************)
(* Values are received in the order of sending, none lost, none twice.     *)
(***************************************************************************)
InOrder == received \o queue = [i \in 1..sent |-> i]

(***************************************************************************)
(* An error is heard only after all values sent before it.                 *)
(***************************************************************************)
ErrorIsLast ==
    heard # {} => heard = {error} /\ Len(received) = sent

(***************************************************************************)
(* All of this at once, whatever the order in which handles come and go.   *)
(***************************************************************************)
StreamSafe == TypeOK /\ RefCounts /\ Lifetime /\ WaiterInvariant /\ InOrder /\ ErrorIsLast
=============================================================================
