------------------------ MODULE NotifiedQueueProofs ------------------------
(***************************************************************************)
(* Proofs about module NotifiedQueue, for any finite sets of PromiseStream *)
(* and FutureStream objects and any number of values.                      *)
(***************************************************************************)
EXTENDS NotifiedQueue, SequenceLemmas, TLAPS

(***************************************************************************)
(* A queue that nobody can send to any more has been given an error.       *)
(***************************************************************************)
BrokenOK == alive => promiseHandles # {} \/ error # NoError

(***************************************************************************)
(* The inductive invariant.                                                *)
(***************************************************************************)
IInv == StreamSafe /\ BrokenOK

-----------------------------------------------------------------------------
(***************************************************************************)
(* The handles of a live queue are finite sets, and its counts are zero    *)
(* exactly when the handles they stand for are gone.                       *)
(***************************************************************************)
LEMMA FiniteHandles ==
    ASSUME TypeOK
    PROVE  /\ IsFiniteSet(promiseHandles) /\ IsFiniteSet(futureHandles)
           /\ Cardinality(promiseHandles) \in Nat /\ Cardinality(futureHandles) \in Nat
           /\ Cardinality(promiseHandles) = 0 <=> promiseHandles = {}
           /\ Cardinality(futureHandles) = 0 <=> futureHandles = {}
  <1>1. IsFiniteSet(promiseHandles) /\ IsFiniteSet(futureHandles)
    BY FS_Subset, StreamAssumption DEF TypeOK
  <1> QED
    BY <1>1, FS_CardinalityType, FS_EmptySet

(***************************************************************************)
(* The reference a registered callback holds, as a number.                 *)
(***************************************************************************)
LEMMA CallbackRefType ==
    CallbackRef \in {0, 1} /\ (CallbackRef = 0 <=> ~waiting)
  BY DEF CallbackRef

(***************************************************************************)
(* The values of a stream in the order of sending, and one value more.     *)
(***************************************************************************)
CountUp(n) == [i \in 1..n |-> i]

(***************************************************************************)
(* The values sent, counted up, and one value more.                        *)
(***************************************************************************)
LEMMA CountUpGrows ==
    ASSUME NEW n \in Nat
    PROVE  /\ CountUp(n) \in Seq(Nat) /\ Len(CountUp(n)) = n
           /\ Append(CountUp(n), n + 1) = CountUp(n + 1)
  <1>1. CountUp(n) \in Seq(Nat) /\ Len(CountUp(n)) = n
    BY DEF CountUp
  <1>2. CountUp(n + 1) \in Seq(Nat) /\ Len(CountUp(n + 1)) = n + 1
    BY DEF CountUp
  <1>3. /\ Append(CountUp(n), n + 1) \in Seq(Nat)
        /\ Len(Append(CountUp(n), n + 1)) = n + 1
        /\ \A i \in 1..(n + 1) : Append(CountUp(n), n + 1)[i] = i
    <2>1. \A i \in 1..n : CountUp(n)[i] = i
      BY DEF CountUp
    <2> QED
      BY <1>1, <2>1, AppendProperties
  <1>4. \A i \in 1..(n + 1) : CountUp(n + 1)[i] = i
    BY DEF CountUp
  <1> QED
    BY <1>1, <1>2, <1>3, <1>4, SeqEqual

(***************************************************************************)
(* Appending to the second of two sequences, and moving its head to the    *)
(* end of the first.                                                       *)
(***************************************************************************)
LEMMA AppendAfter ==
    ASSUME NEW S, NEW s \in Seq(S), NEW t \in Seq(S), NEW x \in S
    PROVE  s \o Append(t, x) = Append(s \o t, x)
  <1>1. <<x>> \in Seq(S)
    OBVIOUS
  <1>2. Append(t, x) = t \o <<x>>
    BY AppendIsConcat
  <1>3. s \o t \in Seq(S)
    BY ConcatProperties
  <1>4. Append(s \o t, x) = (s \o t) \o <<x>>
    BY <1>3, AppendIsConcat
  <1> QED
    BY <1>1, <1>2, <1>4, ConcatAssociative

(***************************************************************************)
(* The head of the queue moves to the reader: nothing is lost, nothing     *)
(* overtakes.                                                              *)
(***************************************************************************)
LEMMA MoveHead ==
    ASSUME NEW S, NEW s \in Seq(S), NEW t \in Seq(S), t # <<>>
    PROVE  Append(s, Head(t)) \o Tail(t) = s \o t
  <1> DEFINE h == <<Head(t)>>
  <1>1. Head(t) \in S /\ Tail(t) \in Seq(S) /\ h \in Seq(S)
    BY HeadTailProperties
  <1>2. h \o Tail(t) = t
    <2>1. Len(t) \in Nat \ {0} /\ 1 \in 1..Len(t) /\ Len(t) \in 1..Len(t)
      BY EmptySeq
    <2>2. SubSeq(t, 1, Len(t)) = <<t[1]>> \o SubSeq(t, 1 + 1, Len(t))
      BY <2>1, SubSeqRecursiveFirst
    <2>3. SubSeq(t, 1, Len(t)) = t /\ Tail(t) = SubSeq(t, 2, Len(t))
      BY SubSeqFull, TailIsSubSeq
    <2> QED
      BY <2>1, <2>2, <2>3
  <1>3. Append(s, Head(t)) = s \o h
    BY <1>1, AppendIsConcat
  <1> HIDE DEF h
  <1>4. (s \o h) \o Tail(t) = s \o (h \o Tail(t))
    BY <1>1, ConcatAssociative
  <1> QED
    BY <1>2, <1>3, <1>4

-----------------------------------------------------------------------------
(***************************************************************************)
(* A new stream satisfies the invariant.                                   *)
(***************************************************************************)
LEMMA InitIInv ==
    ASSUME Init
    PROVE  IInv
  <1>1. PICK p \in Producers : promiseHandles = {p}
    BY DEF Init
  <1>2. alive /\ alive \in BOOLEAN /\ waiting \in BOOLEAN /\ ~waiting
    BY Zenon DEF Init
  <1>3. TypeOK
    BY <1>1, <1>2, EmptySeq, StreamAssumption DEF Init, TypeOK, StreamErrors
  <1>4. RefCounts
    <2>1. CallbackRef = 0
      BY <1>2, CallbackRefType
    <2>2. Cardinality(promiseHandles) = 1 /\ Cardinality(futureHandles) = 0
      BY <1>1, FS_Singleton, FS_EmptySet DEF Init
    <2>3. promises = 1 /\ futures = 0
      BY DEF Init
    <2> QED
      BY <2>1, <2>2, <2>3 DEF RefCounts
  <1>5. Lifetime /\ WaiterInvariant /\ ErrorIsLast /\ BrokenOK
    BY <1>1, <1>2 DEF Init, Lifetime, WaiterInvariant, ErrorIsLast, BrokenOK
  <1>6. InOrder
    <2>1. received = <<>> /\ queue = <<>> /\ sent = 0
      BY DEF Init
    <2>2. <<>> \o <<>> = <<>> /\ [i \in 1..0 |-> i] = <<>>
      OBVIOUS
    <2> QED
      BY <2>1, <2>2 DEF InOrder
  <1> QED
    BY <1>3, <1>4, <1>5, <1>6 DEF IInv, StreamSafe

(***************************************************************************)
(* Handles are copied: a count and its set grow together.                  *)
(***************************************************************************)
LEMMA CopyPromiseIInv ==
    ASSUME IInv, NEW p \in Producers, NEW q \in Producers, CopyPromise(p, q)
    PROVE  IInv'
  <1> USE DEF IInv, StreamSafe, CopyPromise
  <1>1. TypeOK'
    BY DEF TypeOK
  <1>2. RefCounts'
    BY FiniteHandles, CardinalityAdd DEF RefCounts, CallbackRef, TypeOK
  <1>3. Lifetime' /\ WaiterInvariant' /\ ErrorIsLast' /\ BrokenOK'
    BY DEF Lifetime, WaiterInvariant, ErrorIsLast, BrokenOK
  <1>4. InOrder'
    BY DEF InOrder
  <1> QED
    BY <1>1, <1>2, <1>3, <1>4

(***************************************************************************)
(* Another reader takes a reference.                                       *)
(***************************************************************************)
LEMMA NewFutureIInv ==
    ASSUME IInv, NEW f \in Consumers, NewFuture(f), alive
    PROVE  IInv'
  <1> USE DEF IInv, StreamSafe, NewFuture
  <1>1. TypeOK'
    BY DEF TypeOK
  <1>2. RefCounts'
    BY FiniteHandles, CardinalityAdd DEF RefCounts, CallbackRef, TypeOK
  <1>3. Lifetime' /\ WaiterInvariant' /\ ErrorIsLast' /\ BrokenOK'
    BY DEF Lifetime, WaiterInvariant, ErrorIsLast, BrokenOK
  <1>4. InOrder'
    BY DEF InOrder
  <1> QED
    BY <1>1, <1>2, <1>3, <1>4

(***************************************************************************)
(* A FutureStream goes: the queue dies with the last reference.            *)
(***************************************************************************)
LEMMA DropFutureIInv ==
    ASSUME IInv, NEW f \in Consumers, DropFuture(f)
    PROVE  IInv'
  <1> USE DEF IInv, StreamSafe
  <1>1. /\ alive /\ alive' \in BOOLEAN /\ CallbackRef' = CallbackRef
        /\ alive' <=> ~(futures = 1 /\ promises = 0)
    BY Zenon DEF Lifetime, CallbackRef, DropFuture, delFutureRef
  <1>a. /\ f \in futureHandles /\ futureHandles' = futureHandles \ {f}
        /\ futures' = futures - 1
        /\ UNCHANGED <<promises, queue, error, waiting, promiseHandles, sent, received, heard>>
    BY DEF DropFuture, delFutureRef
  <1>2. /\ promises = Cardinality(promiseHandles) /\ promises \in Nat
        /\ promises = 0 <=> promiseHandles = {}
        /\ CallbackRef \in {0, 1} /\ (CallbackRef = 0 <=> ~waiting)
        /\ futures = Cardinality(futureHandles) + CallbackRef /\ futures \in Nat
        /\ Cardinality(futureHandles') = Cardinality(futureHandles) - 1
        /\ Cardinality(futureHandles') \in Nat /\ Cardinality(futureHandles) \in Nat
        /\ Cardinality(futureHandles') = 0 <=> futureHandles' = {}
    <2>1. IsFiniteSet(futureHandles) /\ IsFiniteSet(futureHandles')
      BY <1>a, FiniteHandles, FS_RemoveElement
    <2> QED
      BY <1>1, <1>a, <2>1, FiniteHandles, CallbackRefType, CardinalityRemove, FS_CardinalityType, FS_EmptySet
      DEF RefCounts, TypeOK
  <1>b. CallbackRef' \in {0, 1} /\ futures' \in Nat
        /\ futures' = Cardinality(futureHandles') + CallbackRef'
    BY <1>1, <1>a, <1>2
  <1>3. TypeOK'
    BY <1>1, <1>a, <1>2, <1>b DEF TypeOK
  <1>4. RefCounts'
    BY <1>1, <1>a, <1>2, <1>b DEF RefCounts
  <1>5. Lifetime'
    <2>1. /\ futures = 1 <=> (futureHandles' = {} /\ ~waiting)
          /\ promises = 0 <=> promiseHandles' = {}
      BY <1>a, <1>2
    <2> QED
      BY <1>1, <1>a, <2>1, Zenon DEF Lifetime
  <1>6. WaiterInvariant' /\ ErrorIsLast' /\ BrokenOK'
    BY <1>1, <1>a DEF WaiterInvariant, ErrorIsLast, BrokenOK
  <1>7. InOrder'
    BY <1>a DEF InOrder
  <1> QED
    BY <1>3, <1>4, <1>5, <1>6, <1>7

(***************************************************************************)
(* The waiter is called or leaves while p promises are left: its reference *)
(* goes, and the counts, the lifetime and the type of the queue stay right.*)
(***************************************************************************)
LEMMA CallWaiterCounts ==
    ASSUME IInv, waiting, NEW p \in Nat, CallWaiter(p),
           promiseHandles' \subseteq Producers, p = Cardinality(promiseHandles'),
           promises' = p, UNCHANGED futureHandles
    PROVE  /\ alive' \in BOOLEAN /\ waiting' \in BOOLEAN /\ ~waiting' /\ futures' \in Nat
           /\ RefCounts' /\ Lifetime' /\ WaiterInvariant'
  <1> USE DEF IInv, StreamSafe
  <1>1. alive
    BY DEF Lifetime
  <1>a. futures' = futures - 1
    BY DEF CallWaiter, delFutureRef
  <1>2. IsFiniteSet(promiseHandles') /\ (p = 0 <=> promiseHandles' = {})
    BY FS_Subset, FS_EmptySet, FS_CardinalityType, StreamAssumption
  <1>3. /\ futures = Cardinality(futureHandles) + 1
        /\ Cardinality(futureHandles) \in Nat
        /\ Cardinality(futureHandles) = 0 <=> futureHandles = {}
    BY <1>1, FiniteHandles DEF RefCounts, CallbackRef
  <1>4. /\ alive' \in BOOLEAN /\ waiting' \in BOOLEAN /\ ~waiting'
        /\ alive' <=> ~(futures = 1 /\ p = 0)
    BY Zenon DEF CallWaiter, delFutureRef
  <1>5. futures' \in Nat /\ RefCounts'
    BY <1>a, <1>3, <1>4 DEF RefCounts, CallbackRef
  <1>6. Lifetime'
    <2>1. /\ futures = 1 <=> futureHandles' = {}
          /\ p = 0 <=> promiseHandles' = {}
      BY <1>2, <1>3
    <2> QED
      BY <1>4, <2>1, Zenon DEF Lifetime
  <1>7. WaiterInvariant'
    BY <1>4 DEF WaiterInvariant
  <1> QED
    BY <1>4, <1>5, <1>6, <1>7

(***************************************************************************)
(* A waiting reader gives up.                                              *)
(***************************************************************************)
LEMMA RemoveCallbackIInv ==
    ASSUME IInv, RemoveCallback
    PROVE  IInv'
  <1> USE DEF IInv, StreamSafe, RemoveCallback
  <1>1. alive /\ promises \in Nat /\ promises = Cardinality(promiseHandles')
    BY FiniteHandles DEF Lifetime, RefCounts
  <1>2. /\ alive' \in BOOLEAN /\ waiting' \in BOOLEAN /\ futures' \in Nat
        /\ RefCounts' /\ Lifetime' /\ WaiterInvariant'
    BY <1>1, CallWaiterCounts DEF TypeOK
  <1>3. TypeOK'
    BY <1>2 DEF TypeOK
  <1>4. ErrorIsLast' /\ BrokenOK'
    BY <1>1 DEF ErrorIsLast, BrokenOK
  <1>5. InOrder'
    BY DEF InOrder
  <1> QED
    BY <1>2, <1>3, <1>4, <1>5

(***************************************************************************)
(* All that was sent is received or queued; when nothing is queued it is   *)
(* received.                                                               *)
(***************************************************************************)
LEMMA EmptyMeansReceived ==
    ASSUME IInv, queue = <<>>
    PROVE  received = CountUp(sent) /\ Len(received) = sent
  <1>1. received \in Seq(1..MaxSends) /\ sent \in Nat
    BY DEF IInv, StreamSafe, TypeOK
  <1>2. received \o queue = received
    BY <1>1, ConcatEmptySeq
  <1>3. received = CountUp(sent)
    BY <1>2 DEF IInv, StreamSafe, InOrder, CountUp
  <1> QED
    BY <1>1, <1>3, CountUpGrows

(***************************************************************************)
(* send(): to the waiting callback, or into the queue.                     *)
(***************************************************************************)
LEMMA SendIInv ==
    ASSUME IInv, NEW p \in Producers, Send(p)
    PROVE  IInv'
  <1> USE DEF IInv, StreamSafe
  <1>0. /\ sent \in Nat /\ sent' = sent + 1 /\ sent' \in 1..MaxSends /\ alive
        /\ received \in Seq(1..MaxSends) /\ queue \in Seq(1..MaxSends) /\ error = NoError
        /\ UNCHANGED <<promises, error, promiseHandles, futureHandles, heard>>
        /\ promiseHandles # {}
    BY StreamAssumption DEF Send, TypeOK, Lifetime
  <1>1. heard = {}
    BY <1>0 DEF ErrorIsLast, TypeOK, NoError, StreamErrors
  <1>2. ErrorIsLast' /\ BrokenOK'
    BY <1>0, <1>1 DEF ErrorIsLast, BrokenOK
  <1>3. CASE waiting
    <2>1. CallWaiter(promises) /\ received' = Append(received, sent') /\ UNCHANGED queue
      BY <1>3 DEF Send
    <2>2. /\ alive' \in BOOLEAN /\ waiting' \in BOOLEAN /\ futures' \in Nat
          /\ RefCounts' /\ Lifetime' /\ WaiterInvariant'
      BY <1>0, <1>3, <2>1, CallWaiterCounts DEF RefCounts, TypeOK
    <2>3. received' \in Seq(1..MaxSends)
      BY <1>0, <2>1, AppendProperties
    <2>4. TypeOK'
      BY <1>0, <2>1, <2>2, <2>3 DEF TypeOK
    <2>5. InOrder'
      <3>1. queue = <<>> /\ received = CountUp(sent)
        BY <1>3, EmptyMeansReceived DEF WaiterInvariant
      <3>2. received' = CountUp(sent')
        BY <1>0, <2>1, <3>1, CountUpGrows
      <3>3. received' \o queue' = received'
        BY <2>1, <2>3, <3>1, ConcatEmptySeq
      <3> QED
        BY <3>2, <3>3 DEF InOrder, CountUp
    <2> QED
      BY <1>2, <2>2, <2>4, <2>5
  <1>4. CASE ~waiting
    <2>1. /\ queue' = Append(queue, sent')
          /\ UNCHANGED <<waiting, futures, alive, received>>
      BY <1>4 DEF Send
    <2>2. queue' \in Seq(1..MaxSends)
      BY <1>0, <2>1, AppendProperties
    <2>3. TypeOK'
      BY <1>0, <2>1, <2>2 DEF TypeOK
    <2>4. RefCounts' /\ Lifetime' /\ WaiterInvariant'
      BY <1>0, <1>4, <2>1 DEF RefCounts, CallbackRef, Lifetime, WaiterInvariant
    <2>5. InOrder'
      <3>1. received \o queue' = Append(received \o queue, sent')
        BY <1>0, <2>1, AppendAfter
      <3>2. Append(CountUp(sent), sent') = CountUp(sent')
        BY <1>0, CountUpGrows
      <3> QED
        BY <2>1, <3>1, <3>2 DEF InOrder, CountUp
    <2> QED
      BY <1>2, <2>3, <2>4, <2>5
  <1> QED
    BY <1>3, <1>4

(***************************************************************************)
(* The stream is given an error, by a producer or because its last         *)
(* producer goes.                                                          *)
(***************************************************************************)
LEMMA SendErrorKeeps ==
    ASSUME IInv, alive, NEW e \in StreamErrors,
           promiseHandles' \subseteq promiseHandles,
           NEW n \in Nat, promises' = n, n = Cardinality(promiseHandles'),
           sendError(e, n), UNCHANGED <<queue, futureHandles, sent, received>>,
           futureHandles # {} \/ waiting \/ promiseHandles' # {}
    PROVE  IInv'
  <1> USE DEF IInv, StreamSafe
  <1>0. e # NoError /\ promiseHandles' \subseteq Producers
    BY DEF StreamErrors, NoError, TypeOK
  <1>1. InOrder'
    BY DEF InOrder
  <1>2. CASE error # NoError
    <2>1. UNCHANGED <<error, waiting, futures, alive, heard>>
      BY <1>2 DEF sendError
    <2>2. ~waiting
      BY <1>2 DEF WaiterInvariant
    <2>3. TypeOK'
      BY <1>0, <2>1 DEF TypeOK
    <2>4. RefCounts' /\ Lifetime'
      BY <2>1, <2>2 DEF RefCounts, Lifetime, CallbackRef
    <2>5. WaiterInvariant' /\ ErrorIsLast' /\ BrokenOK'
      BY <1>2, <2>1, <2>2 DEF WaiterInvariant, ErrorIsLast, BrokenOK
    <2> QED
      BY <1>1, <2>3, <2>4, <2>5
  <1>3. CASE error = NoError /\ waiting
    <2>1. error' = e /\ CallWaiter(n) /\ heard' = heard \union {e}
      BY <1>3 DEF sendError
    <2>2. /\ alive' \in BOOLEAN /\ waiting' \in BOOLEAN /\ futures' \in Nat
          /\ RefCounts' /\ Lifetime' /\ WaiterInvariant'
      BY <1>0, <1>3, <2>1, CallWaiterCounts
    <2>3. TypeOK'
      BY <1>0, <2>1, <2>2 DEF TypeOK
    <2>4. heard = {}
      BY <1>3 DEF ErrorIsLast, TypeOK, StreamErrors, NoError
    <2>5. ErrorIsLast' /\ BrokenOK'
      BY <1>0, <1>3, <2>1, <2>4, EmptyMeansReceived DEF WaiterInvariant, ErrorIsLast, BrokenOK
    <2> QED
      BY <1>1, <2>2, <2>3, <2>5
  <1>4. CASE error = NoError /\ ~waiting
    <2>1. error' = e /\ UNCHANGED <<waiting, futures, alive, heard>>
      BY <1>4 DEF sendError
    <2>2. TypeOK'
      BY <1>0, <2>1 DEF TypeOK
    <2>3. heard = {}
      BY <1>4 DEF ErrorIsLast, TypeOK, StreamErrors, NoError
    <2>4. RefCounts' /\ Lifetime'
      BY <1>4, <2>1 DEF RefCounts, Lifetime, CallbackRef
    <2>5. WaiterInvariant' /\ ErrorIsLast' /\ BrokenOK'
      BY <1>0, <1>4, <2>1, <2>3 DEF WaiterInvariant, ErrorIsLast, BrokenOK
    <2> QED
      BY <1>1, <2>2, <2>4, <2>5
  <1> QED
    BY <1>2, <1>3, <1>4

(***************************************************************************)
(* sendError(): the stream breaks after what was sent.                     *)
(***************************************************************************)
LEMMA SendErrorIInv ==
    ASSUME IInv, NEW p \in Producers, SendError(p)
    PROVE  IInv'
  <1>1. alive /\ promises \in Nat /\ promises = Cardinality(promiseHandles)
    BY DEF SendError, IInv, StreamSafe, Lifetime, RefCounts, TypeOK
  <1>2. sendError("end_of_stream", promises) /\ promiseHandles' = promiseHandles /\ promises' = promises
    BY DEF SendError
  <1>3. "end_of_stream" \in StreamErrors
    BY DEF StreamErrors
  <1> QED
    BY <1>1, <1>2, <1>3, SendErrorKeeps DEF SendError

(***************************************************************************)
(* The last promise goes: broken_promise, or the queue is freed.           *)
(***************************************************************************)
LEMMA DropPromiseIInv ==
    ASSUME IInv, NEW p \in Producers, DropPromise(p)
    PROVE  IInv'
  <1> USE DEF IInv, StreamSafe
  <1>0. /\ alive /\ p \in promiseHandles /\ promiseHandles' = promiseHandles \ {p}
        /\ promises' = promises - 1
        /\ UNCHANGED <<queue, futureHandles, sent, received>>
    BY DEF DropPromise, Lifetime
  <1>1. /\ promises = Cardinality(promiseHandles) /\ promises \in Nat
        /\ promises' = Cardinality(promiseHandles') /\ promises' \in Nat
        /\ promises' = 0 <=> promiseHandles' = {}
    <2>1. IsFiniteSet(promiseHandles) /\ IsFiniteSet(promiseHandles')
      BY <1>0, FiniteHandles, FS_RemoveElement
    <2> QED
      BY <1>0, <2>1, CardinalityRemove, FS_CardinalityType, FS_EmptySet DEF RefCounts
  <1>2. /\ futures = Cardinality(futureHandles) + CallbackRef
        /\ futures = 0 <=> (futureHandles = {} /\ ~waiting)
        /\ futures \in Nat
    BY <1>0, FiniteHandles DEF RefCounts, CallbackRef
  <1>3. CASE promises = 1 /\ futures > 0
    <2>1. sendError("broken_promise", 0)
      BY <1>3 DEF DropPromise
    <2>2. "broken_promise" \in StreamErrors
      BY DEF StreamErrors
    <2> QED
      BY <1>0, <1>1, <1>2, <1>3, <2>1, <2>2, SendErrorKeeps
  <1>4. CASE promises = 1 /\ futures = 0
    <2>1. alive' = FALSE /\ UNCHANGED <<error, waiting, futures, heard>>
      BY <1>4 DEF DropPromise
    <2>2. ~alive' /\ alive' \in BOOLEAN
      BY <2>1, Zenon
    <2>3. promiseHandles' = {} /\ futureHandles' = {} /\ ~waiting'
      BY <1>0, <1>1, <1>2, <1>4, <2>1
    <2>4. TypeOK'
      BY <1>0, <1>1, <2>1, <2>2 DEF TypeOK
    <2>5. RefCounts' /\ Lifetime' /\ WaiterInvariant' /\ ErrorIsLast' /\ BrokenOK'
      BY <1>0, <2>1, <2>2, <2>3 DEF RefCounts, Lifetime, WaiterInvariant, ErrorIsLast, BrokenOK
    <2>6. InOrder'
      BY <1>0 DEF InOrder
    <2> QED
      BY <2>4, <2>5, <2>6
  <1>5. CASE promises # 1
    <2>1. UNCHANGED <<alive, error, waiting, futures, heard>>
      BY <1>5 DEF DropPromise
    <2>2. promiseHandles' # {}
      BY <1>1, <1>0, <1>5
    <2>3. TypeOK'
      BY <1>0, <1>1, <2>1 DEF TypeOK
    <2>4. RefCounts' /\ Lifetime' /\ WaiterInvariant' /\ ErrorIsLast' /\ BrokenOK'
      BY <1>0, <1>1, <1>2, <2>1, <2>2
      DEF RefCounts, CallbackRef, Lifetime, WaiterInvariant, ErrorIsLast, BrokenOK
    <2>5. InOrder'
      BY <1>0, <2>1 DEF InOrder
    <2> QED
      BY <2>3, <2>4, <2>5
  <1> QED
    BY <1>1, <1>2, <1>3, <1>4, <1>5

(***************************************************************************)
(* waitNext, on a stream that is ready and on one that is not.             *)
(***************************************************************************)
LEMMA NextReadyIInv ==
    ASSUME IInv, NEW f \in Consumers, NextReady(f)
    PROVE  IInv'
  <1> USE DEF IInv, StreamSafe
  <1>0. UNCHANGED <<alive, promises, futures, error, waiting, promiseHandles, futureHandles, sent>>
    BY DEF NextReady
  <1>1. RefCounts' /\ Lifetime' /\ BrokenOK'
    BY <1>0 DEF RefCounts, CallbackRef, Lifetime, BrokenOK
  <1>2. ~waiting'
    BY <1>0 DEF NextReady, isReady, WaiterInvariant
  <1>3. CASE isError
    <2>1. heard' = heard \union {error} /\ UNCHANGED <<queue, received>>
      BY <1>3 DEF NextReady
    <2>2. TypeOK'
      BY <1>0, <1>3, <2>1 DEF TypeOK, isError
    <2>3. WaiterInvariant' /\ ErrorIsLast'
      BY <1>0, <1>2, <1>3, <2>1, EmptyMeansReceived DEF WaiterInvariant, ErrorIsLast, isError
    <2>4. InOrder'
      BY <1>0, <2>1 DEF InOrder
    <2> QED
      BY <1>1, <2>2, <2>3, <2>4
  <1>4. CASE ~isError
    <2>1. received' = Append(received, Head(queue)) /\ queue' = Tail(queue) /\ UNCHANGED heard
      BY <1>4 DEF NextReady
    <2>2. queue # <<>> /\ queue \in Seq(1..MaxSends) /\ received \in Seq(1..MaxSends)
      BY <1>4 DEF NextReady, isReady, isError, TypeOK
    <2>3. received' \in Seq(1..MaxSends) /\ queue' \in Seq(1..MaxSends)
      BY <2>1, <2>2, HeadTailProperties, AppendProperties
    <2>4. TypeOK'
      BY <1>0, <2>1, <2>3 DEF TypeOK
    <2>5. heard = {}
      <3> SUFFICES ASSUME heard # {} PROVE FALSE
        OBVIOUS
      <3>1. Len(received) = sent /\ sent \in Nat
        BY DEF ErrorIsLast, TypeOK
      <3>2. Len(received \o queue) = Len(received) + Len(queue) /\ Len(queue) \in Nat \ {0}
        BY <2>2, ConcatProperties, EmptySeq
      <3>3. Len(received \o queue) = sent
        BY <3>1, CountUpGrows DEF InOrder, CountUp
      <3> QED
        BY <3>1, <3>2, <3>3
    <2>6. WaiterInvariant' /\ ErrorIsLast'
      BY <1>2, <2>1, <2>5 DEF WaiterInvariant, ErrorIsLast
    <2>7. InOrder'
      <3>1. received' \o queue' = received \o queue
        BY <2>1, <2>2, MoveHead
      <3> QED
        BY <1>0, <3>1 DEF InOrder
    <2> QED
      BY <1>1, <2>4, <2>6, <2>7
  <1> QED
    BY <1>3, <1>4

(***************************************************************************)
(* A reader takes the next value, the error, or waits.                     *)
(***************************************************************************)
LEMMA NextWaitsIInv ==
    ASSUME IInv, NEW f \in Consumers, NextWaits(f)
    PROVE  IInv'
  <1> USE DEF IInv, StreamSafe, NextWaits
  <1>1. alive /\ waiting' /\ waiting' \in BOOLEAN /\ ~waiting
    BY Zenon DEF Lifetime
  <1>2. TypeOK'
    BY <1>1 DEF TypeOK
  <1>3. RefCounts'
    BY <1>1, FiniteHandles DEF RefCounts, CallbackRef
  <1>4. Lifetime' /\ WaiterInvariant' /\ ErrorIsLast' /\ BrokenOK'
    BY <1>1 DEF Lifetime, WaiterInvariant, ErrorIsLast, BrokenOK, isReady
  <1>5. InOrder'
    BY DEF InOrder
  <1> QED
    BY <1>2, <1>3, <1>4, <1>5

-----------------------------------------------------------------------------
(***************************************************************************)
(* Every step keeps the invariant.                                         *)
(***************************************************************************)
LEMMA NextIInv ==
    ASSUME IInv, [Next]_vars
    PROVE  IInv'
  <1>1. CASE UNCHANGED vars
    BY <1>1 DEF vars, IInv, StreamSafe, TypeOK, RefCounts, CallbackRef, Lifetime,
                WaiterInvariant, InOrder, ErrorIsLast, BrokenOK
  <1>2. CASE ProducerStep
    <2>1. PICK p \in Producers :
            \/ \E q \in Producers : CopyPromise(p, q)
            \/ \E f \in Consumers : GetFuture(p, f)
            \/ Send(p) \/ SendError(p) \/ DropPromise(p)
      BY <1>2 DEF ProducerStep
    <2>2. ASSUME NEW f \in Consumers, GetFuture(p, f) PROVE IInv'
      BY <2>2, NewFutureIInv DEF GetFuture, IInv, StreamSafe, Lifetime
    <2> QED
      BY <2>1, <2>2, CopyPromiseIInv, SendIInv, SendErrorIInv, DropPromiseIInv
  <1>3. CASE ConsumerStep
    <2>1. ASSUME NEW f \in Consumers, NEW g \in Consumers, CopyFuture(f, g) PROVE IInv'
      BY <2>1, NewFutureIInv DEF CopyFuture, IInv, StreamSafe, Lifetime
    <2> QED
      BY <1>3, <2>1, NextReadyIInv, NextWaitsIInv, DropFutureIInv, RemoveCallbackIInv
      DEF ConsumerStep
  <1> QED
    BY <1>1, <1>2, <1>3 DEF Next

(***************************************************************************)
(* A stream delivers every value once and in order, its error last; its    *)
(* counts are its handles; its waiter can still be sent something; it is   *)
(* destroyed exactly when nothing refers to it.                            *)
(***************************************************************************)
THEOREM StreamIsSafe == Spec => []StreamSafe
  <1>1. Init => IInv
    BY InitIInv
  <1>2. IInv /\ [Next]_vars => IInv'
    BY NextIInv
  <1>3. IInv => StreamSafe
    BY DEF IInv
  <1> QED
    BY <1>1, <1>2, <1>3, PTL DEF Spec
=============================================================================
