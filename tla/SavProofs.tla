----------------------------- MODULE SavProofs -----------------------------
(***************************************************************************)
(* Proofs about module Sav, for any number of Promise objects, Future      *)
(* objects and callbacks.                                                  *)
(***************************************************************************)
EXTENDS Sav, SequenceLemmas, TLAPS

(***************************************************************************)
(* What the loop relies on: the reference it runs through is held, there   *)
(* is an outcome while it runs, and delPromiseRef's is the last promise.   *)
(***************************************************************************)
LoopOK ==
    /\ (firing = "none") <=> (pinned = {})
    /\ pinned \subseteq promiseHandles
    /\ \A p, q \in pinned : p = q
    /\ firing # "none" => isSet
    /\ firing = "delPromiseRef" => promiseHandles = pinned
    /\ (firing = "sendAndDelPromiseRef") <=> (Actor \in pinned)

(***************************************************************************)
(* An actor is the only owner of its SAV.                                  *)
(***************************************************************************)
ActorOK ==
    Actor \in promiseHandles => kind = "actor" /\ promiseHandles = {Actor}

(***************************************************************************)
(* Outside a loop nobody waits for an outcome that is already there, and a *)
(* SAV without an outcome has an owner.                                    *)
(***************************************************************************)
SettledOK ==
    /\ (firing = "none" /\ isSet) => ring = <<>>
    /\ (alive /\ canBeSet) => promiseHandles # {}

(***************************************************************************)
(* The inductive invariant.                                                *)
(***************************************************************************)
IInv ==
    /\ TypeOK
    /\ RefCounts
    /\ Lifetime
    /\ LoopOK
    /\ ActorOK
    /\ SettledOK
    /\ AssertionsHold
    /\ UnwantedIsCancelled

-----------------------------------------------------------------------------
(***************************************************************************)
(* The sets of handles of a state are finite, and a counter that agrees    *)
(* with one of them is 0 exactly when there is no such handle.             *)
(***************************************************************************)
LEMMA FiniteHandles ==
    ASSUME TypeOK
    PROVE  /\ IsFiniteSet(promiseHandles) /\ IsFiniteSet(futureHandles)
           /\ Cardinality(promiseHandles) \in Nat /\ Cardinality(futureHandles) \in Nat
           /\ Cardinality(promiseHandles) = 0 <=> promiseHandles = {}
           /\ Cardinality(futureHandles) = 0 <=> futureHandles = {}
  <1>1. IsFiniteSet(Owners)
    BY HandlesAssumption, FS_AddElement DEF Owners
  <1>2. IsFiniteSet(promiseHandles) /\ IsFiniteSet(futureHandles)
    BY <1>1, HandlesAssumption, FS_Subset DEF TypeOK
  <1> QED
    BY <1>2, FS_CardinalityType, FS_EmptySet

(***************************************************************************)
(* The ring with one more callback, at its front or at its back.           *)
(***************************************************************************)
LEMMA RingGrows ==
    ASSUME NEW c \in Callbacks, ring \in Seq(Callbacks)
    PROVE  /\ <<c>> \o ring \in Seq(Callbacks) /\ <<c>> \o ring # <<>>
           /\ Len(<<c>> \o ring) = Len(ring) + 1
           /\ \A i \in 1..(Len(ring) + 1) :
                (<<c>> \o ring)[i] = IF i = 1 THEN c ELSE ring[i - 1]
           /\ Append(ring, c) \in Seq(Callbacks) /\ Append(ring, c) # <<>>
           /\ Len(Append(ring, c)) = Len(ring) + 1
           /\ \A i \in 1..(Len(ring) + 1) :
                Append(ring, c)[i] = IF i = Len(ring) + 1 THEN c ELSE ring[i]
  <1> DEFINE one == <<c>>
  <1>1. one \in Seq(Callbacks) /\ Len(one) = 1 /\ one[1] = c /\ Len(ring) \in Nat
    BY LenProperties
  <1> HIDE DEF one
  <1>2. /\ one \o ring \in Seq(Callbacks)
        /\ Len(one \o ring) = Len(ring) + 1
        /\ \A i \in 1..(Len(ring) + 1) :
             (one \o ring)[i] = IF i = 1 THEN c ELSE ring[i - 1]
    <2>1. /\ one \o ring \in Seq(Callbacks)
          /\ Len(one \o ring) = Len(one) + Len(ring)
          /\ \A i \in 1..(Len(one) + Len(ring)) :
               (one \o ring)[i] = IF i <= Len(one) THEN one[i] ELSE ring[i - Len(one)]
      BY <1>1, ConcatProperties
    <2> QED
      BY <1>1, <2>1
  <1>3. one \o ring # <<>>
    BY <1>1, <1>2, EmptySeq
  <1>4. /\ Append(ring, c) \in Seq(Callbacks) /\ Append(ring, c) # <<>>
        /\ Len(Append(ring, c)) = Len(ring) + 1
        /\ \A i \in 1..(Len(ring) + 1) :
             Append(ring, c)[i] = IF i = Len(ring) + 1 THEN c ELSE ring[i]
    BY <1>1, AppendProperties
  <1> QED
    BY <1>2, <1>3, <1>4 DEF one

(***************************************************************************)
(* A new SAV, of any of the three kinds, satisfies the invariant.          *)
(***************************************************************************)
LEMMA InitIInv == Init => IInv
  <1> SUFFICES ASSUME Init PROVE IInv
    OBVIOUS
  <1> USE DEF Init, Delivered, Errors, UNSET, NEVER, Owners, Loops, isSet, canBeSet
  <1>1. /\ promises \in Nat /\ futures \in Nat
        /\ error_state \in Delivered \union {UNSET, NEVER}
        /\ promiseHandles \subseteq Owners /\ futureHandles \subseteq Futures
        /\ kind \in {"promise", "actor", "ready"}
    BY DEF InitPromise, InitActor, InitReady
  <1>2. alive /\ alive \in BOOLEAN /\ inCallback \in BOOLEAN
    BY Zenon
  <1>3. ring \in Seq(Callbacks)
    BY EmptySeq
  <1>4. TypeOK
    BY <1>1, <1>2, <1>3 DEF TypeOK
  <1>5. RefCounts
    <2>1. /\ promises = Cardinality(promiseHandles)
          /\ futures = Cardinality(futureHandles) /\ ring = <<>>
      BY FS_EmptySet, FS_Singleton DEF InitPromise, InitActor, InitReady
    <2> QED BY <1>1, <2>1 DEF RefCounts, RingRef
  <1>6. Lifetime
    BY <1>2 DEF InitPromise, InitActor, InitReady, Lifetime, Referenced
  <1>7. LoopOK /\ SettledOK
    BY DEF InitPromise, InitActor, InitReady, LoopOK, SettledOK
  <1>8. UnwantedIsCancelled
    BY HandlesAssumption DEF InitPromise, InitActor, InitReady, UnwantedIsCancelled
  <1>9. ActorOK /\ AssertionsHold
    BY HandlesAssumption DEF InitPromise, InitActor, InitReady, ActorOK, AssertionsHold
  <1> QED
    BY <1>4, <1>5, <1>6, <1>7, <1>8, <1>9 DEF IInv

-----------------------------------------------------------------------------
(***************************************************************************)
(* Copying handles.                                                        *)
(***************************************************************************)
LEMMA CopyPromiseIInv ==
    ASSUME IInv, NEW p \in Promises, NEW q \in Promises, CopyPromise(p, q)
    PROVE  IInv'
  <1> USE DEF IInv, CopyPromise, Usable, UserCode, TypeOK, Owners
  <1>1. Cardinality(promiseHandles') = Cardinality(promiseHandles) + 1
    BY FiniteHandles, CardinalityAdd
  <1>2. TypeOK'
    OBVIOUS
  <1>3. RefCounts'
    BY <1>1, FiniteHandles DEF RefCounts, RingRef
  <1>4. Lifetime' /\ LoopOK' /\ SettledOK' /\ UnwantedIsCancelled'
    BY HandlesAssumption
    DEF Lifetime, Referenced, LoopOK, SettledOK, UnwantedIsCancelled, ActorOK, isSet, canBeSet
  <1>5. ActorOK' /\ AssertionsHold'
    BY HandlesAssumption DEF ActorOK, AssertionsHold, canBeSet
  <1> QED
    BY <1>2, <1>3, <1>4, <1>5

(***************************************************************************)
(* A future is copied.                                                     *)
(***************************************************************************)
LEMMA AddFutureRefIInv ==
    ASSUME IInv, UserCode,
           NEW f \in Futures \ futureHandles,
           futureHandles # {} \/ promiseHandles \ {Actor} # {},
           futures' = futures + 1,
           futureHandles' = futureHandles \union {f},
           UNCHANGED <<kind, alive, promises, error_state, ring, promiseHandles, firing,
                       pinned, inCallback, actor_wait_state, cb>>
    PROVE  IInv'
  <1> USE DEF IInv, UserCode, TypeOK, Owners
  <1>1. Cardinality(futureHandles') = Cardinality(futureHandles) + 1
    BY FiniteHandles, CardinalityAdd
  <1>2. TypeOK'
    OBVIOUS
  <1>3. RefCounts'
    BY <1>1, FiniteHandles DEF RefCounts, RingRef
  <1>4. Lifetime' /\ LoopOK' /\ SettledOK' /\ ActorOK' /\ AssertionsHold'
    BY DEF Lifetime, Referenced, LoopOK, SettledOK, ActorOK, AssertionsHold, isSet, canBeSet
  <1>5. UnwantedIsCancelled'
    BY DEF UnwantedIsCancelled
  <1> QED
    BY <1>2, <1>3, <1>4, <1>5

(***************************************************************************)
(* Dropping a Future: the last one destroys the SAV or cancels its actor.  *)
(***************************************************************************)
LEMMA DropFutureIInv ==
    ASSUME IInv, NEW f \in Futures, DropFuture(f)
    PROVE  IInv'
  <1> USE DEF IInv, DropFuture, delFutureRef, cancel, UserCode, TypeOK, Owners
  <1>1. Cardinality(futureHandles') = Cardinality(futureHandles) - 1
    BY FiniteHandles, CardinalityRemove
  <1>2. /\ alive /\ promises = Cardinality(promiseHandles)
        /\ futures = Cardinality(futureHandles) + RingRef
    BY DEF RefCounts
  <1>3. futures \in Nat /\ futures >= 1 /\ RingRef \in {0, 1}
    BY <1>2, FiniteHandles DEF RingRef
  <1>4. (futures = 1) <=> (futureHandles' = {} /\ ring = <<>>)
    <2>1. /\ Cardinality(futureHandles') \in Nat
          /\ Cardinality(futureHandles') = 0 <=> futureHandles' = {}
      BY FiniteHandles, FS_RemoveElement, FS_EmptySet, FS_CardinalityType
    <2>2. futures = Cardinality(futureHandles') + 1 + RingRef
      BY <1>1, <1>2, <1>3, FiniteHandles
    <2>3. RingRef = 0 <=> ring = <<>>
      BY DEF RingRef
    <2> QED
      BY <1>3, <2>1, <2>2, <2>3
  <1>5. (promises = 0) <=> (promiseHandles = {})
    BY <1>2, FiniteHandles
  <1>6. TypeOK'
    <2>1. alive' \in BOOLEAN
      BY Zenon
    <2>2. futures' \in Nat
      BY <1>3
    <2>3. actor_wait_state' \in {-1, 0, 1}
      OBVIOUS
    <2> QED
      BY <2>1, <2>2, <2>3
  <1>7. RefCounts'
    BY <1>1, <1>2, <1>3, FiniteHandles DEF RefCounts, RingRef
  <1>8. Lifetime'
    BY <1>2, <1>4, <1>5 DEF Lifetime, Referenced, LoopOK
  <1>9. LoopOK' /\ ActorOK' /\ AssertionsHold'
    BY DEF LoopOK, ActorOK, AssertionsHold, isSet, canBeSet
  <1>10. SettledOK'
    BY <1>2 DEF SettledOK, isSet, canBeSet
  <1>11. UnwantedIsCancelled'
    BY <1>2, <1>3, <1>5 DEF UnwantedIsCancelled, ActorOK
  <1> QED
    BY <1>6, <1>7, <1>8, <1>9, <1>10, <1>11

(***************************************************************************)
(* A future of a running actor is cancelled.                               *)
(***************************************************************************)
LEMMA CancelFutureIInv ==
    ASSUME IInv, NEW f \in Futures, CancelFuture(f)
    PROVE  IInv'
  <1> USE DEF IInv, CancelFuture, cancel, TypeOK
  <1>1. TypeOK' /\ RefCounts'
    BY DEF RefCounts, RingRef
  <1>2. Lifetime' /\ LoopOK' /\ SettledOK' /\ ActorOK' /\ AssertionsHold'
    BY DEF Lifetime, Referenced, LoopOK, SettledOK, ActorOK, AssertionsHold, isSet, canBeSet
  <1>3. UnwantedIsCancelled'
    BY DEF UnwantedIsCancelled
  <1> QED
    BY <1>1, <1>2, <1>3

-----------------------------------------------------------------------------
(***************************************************************************)
(* Storing the outcome and entering the callback loop, through any owner.  *)
(***************************************************************************)
LEMMA StartLoopIInv ==
    ASSUME IInv, alive, canBeSet,
           NEW op \in Loops \ {"none"}, NEW owner \in promiseHandles, NEW outcome \in Delivered,
           op = "delPromiseRef" => promiseHandles = {owner} /\ promises = 1,
           op = "sendAndDelPromiseRef" <=> owner = Actor,
           StartLoop(op, owner, outcome)
    PROVE  IInv'
  <1> USE DEF IInv, StartLoop, TypeOK
  <1>1. TypeOK'
    <2>1. inCallback' \in BOOLEAN
      BY Zenon
    <2> QED
      BY <2>1 DEF Loops
  <1>2. RefCounts'
    BY DEF RefCounts, RingRef
  <1>3. Lifetime'
    BY DEF Lifetime, Referenced, Loops
  <1>4. LoopOK' /\ ActorOK' /\ UnwantedIsCancelled'
    BY DEF LoopOK, ActorOK, UnwantedIsCancelled, isSet, Loops
  <1>5. SettledOK'
    BY DEF SettledOK, isSet, canBeSet, Delivered, Errors, UNSET, Loops
  <1>6. AssertionsHold'
    BY DEF AssertionsHold, ActorOK, canBeSet, Loops
  <1> QED
    BY <1>1, <1>2, <1>3, <1>4, <1>5, <1>6

(***************************************************************************)
(* Dropping a Promise: the last one breaks the promise or destroys the SAV.*)
(***************************************************************************)
LEMMA DropPromiseIInv ==
    ASSUME IInv, NEW p \in Promises, DropPromise(p)
    PROVE  IInv'
  <1> USE DEF IInv, TypeOK
  <1>1. /\ alive /\ p \in promiseHandles /\ p \notin pinned /\ p # Actor
        /\ firing # "delPromiseRef"
    BY DEF DropPromise, Usable, UserCode
  <1>2. /\ promises = Cardinality(promiseHandles) /\ promises \in Nat
        /\ futures = Cardinality(futureHandles) + RingRef
    BY <1>1, FiniteHandles DEF RefCounts
  <1>3. ASSUME promises = 1 PROVE promiseHandles = {p}
    <2>1. \E x : promiseHandles = {x}
      BY <1>2, <1>3, FiniteHandles, FS_Singleton
    <2> QED
      BY <1>1, <2>1
  <1>4. CASE promises = 1 /\ futures > 0 /\ canBeSet
    <2>1. StartLoop("delPromiseRef", p, "broken_promise")
      BY <1>4 DEF DropPromise
    <2> QED
      BY <1>1, <1>3, <1>4, <2>1, StartLoopIInv DEF Loops, Delivered, Errors
  <1>5. CASE ~(promises = 1 /\ futures > 0 /\ canBeSet)
    <2>1. /\ promises' = promises - 1
          /\ promiseHandles' = promiseHandles \ {p}
          /\ alive' = ~(promises = 1 /\ futures = 0)
          /\ UNCHANGED <<kind, futures, error_state, ring, futureHandles, firing,
                         pinned, inCallback, actor_wait_state, cb>>
      BY <1>5 DEF DropPromise
    <2>2. Cardinality(promiseHandles') = Cardinality(promiseHandles) - 1
      BY <1>1, <2>1, FiniteHandles, CardinalityRemove
    <2>3. promises >= 1 /\ (promises = 1 <=> promiseHandles' = {})
      <3>1. promises # 0
        BY <1>1, <1>2, FiniteHandles
      <3>2. Cardinality(promiseHandles') = 0 <=> promiseHandles' = {}
        BY <2>1, FiniteHandles, FS_RemoveElement, FS_EmptySet
      <3> QED
        BY <1>2, <2>2, <3>1, <3>2
    <2>4. futures = 0 <=> (futureHandles = {} /\ ring = <<>>)
      BY <1>2, FiniteHandles DEF RingRef
    <2>5. TypeOK'
      <3>1. alive' \in BOOLEAN
        BY <2>1, Zenon
      <3> QED
        BY <2>1, <2>3, <3>1
    <2>6. RefCounts'
      BY <1>1, <1>2, <2>1, <2>2, FiniteHandles DEF RefCounts, RingRef
    <2>7. promises = 1 => firing = "none"
      BY <1>1, <1>3 DEF LoopOK
    <2>8. Lifetime'
      BY <1>1, <2>1, <2>3, <2>4, <2>7 DEF Lifetime, Referenced
    <2>9. LoopOK'
      BY <1>1, <2>1 DEF LoopOK, isSet
    <2>10. ActorOK' /\ AssertionsHold' /\ UnwantedIsCancelled'
      BY <1>1, <2>1 DEF ActorOK, AssertionsHold, UnwantedIsCancelled, canBeSet
    <2>11. SettledOK'
      <3>1. CASE promises = 1
        <4>0. canBeSet => futures = 0
          BY <1>5, <3>1
        <4>1. canBeSet => ~alive'
          BY <2>1, <3>1, <4>0, Zenon
        <4> QED
          BY <2>1, <4>1 DEF SettledOK, isSet, canBeSet
      <3>2. CASE promises # 1
        BY <1>1, <2>1, <2>3, <3>2 DEF SettledOK, isSet, canBeSet
      <3> QED
        BY <3>1, <3>2
    <2> QED
      BY <2>5, <2>6, <2>8, <2>9, <2>10, <2>11
  <1> QED
    BY <1>4, <1>5

(***************************************************************************)
(* Assigning through a Promise.                                            *)
(***************************************************************************)
LEMMA SendIInv ==
    ASSUME IInv, NEW p \in Promises, Send(p) \/ SendError(p) \/ SendNever(p)
    PROVE  IInv'
  <1>1. CASE Send(p) \/ SendError(p)
    BY <1>1, StartLoopIInv, HandlesAssumption
    DEF Send, SendError, Usable, UserCode, Loops, Delivered, Errors
  <1>2. CASE SendNever(p)
    <2> USE <1>2 DEF IInv, SendNever, Usable, UserCode, TypeOK
    <2>1. TypeOK' /\ RefCounts'
      BY DEF RefCounts, RingRef
    <2>2. Lifetime' /\ ActorOK' /\ UnwantedIsCancelled'
      BY DEF Lifetime, Referenced, ActorOK, UnwantedIsCancelled
    <2>3. LoopOK' /\ SettledOK'
      BY DEF LoopOK, SettledOK, isSet, canBeSet, Delivered, Errors, UNSET, NEVER
    <2>4. AssertionsHold'
      BY HandlesAssumption DEF AssertionsHold, ActorOK
    <2> QED
      BY <2>1, <2>2, <2>3, <2>4
  <1> QED
    BY <1>1, <1>2

-----------------------------------------------------------------------------
(***************************************************************************)
(* The actor's own steps.                                                  *)
(***************************************************************************)
LEMMA ActorWaitIInv ==
    ASSUME IInv, ActorWait \/ ActorResume
    PROVE  IInv'
  <1> USE DEF IInv, ActorWait, ActorResume, ActorRunning, TypeOK
  <1>1. TypeOK' /\ RefCounts'
    BY DEF RefCounts, RingRef
  <1>2. Lifetime' /\ LoopOK' /\ SettledOK' /\ ActorOK' /\ AssertionsHold'
    BY DEF Lifetime, Referenced, LoopOK, SettledOK, ActorOK, AssertionsHold, isSet, canBeSet
  <1>3. UnwantedIsCancelled'
    BY DEF UnwantedIsCancelled
  <1> QED
    BY <1>1, <1>2, <1>3

(***************************************************************************)
(* The actor returns or throws.                                            *)
(***************************************************************************)
LEMMA FinishActorIInv ==
    ASSUME IInv, NEW outcome \in Delivered, FinishActor(outcome)
    PROVE  IInv'
  <1> USE DEF IInv, TypeOK
  <1>1. alive /\ canBeSet /\ Actor \in promiseHandles /\ promiseHandles = {Actor}
    BY DEF FinishActor, ActorRunning, ActorOK
  <1>2. /\ promises = 1
        /\ futures = Cardinality(futureHandles) + RingRef
    BY <1>1, FS_Singleton DEF RefCounts
  <1>3. CASE futures = 0
    <2>1. /\ Die /\ futureHandles = {} /\ ring = <<>>
      BY <1>2, <1>3, FiniteHandles DEF FinishActor, RingRef
    <2>2. firing = "none" /\ pinned = {}
      BY <1>1 DEF LoopOK, isSet, canBeSet, Delivered, Errors, UNSET
    <2>3. ~alive' /\ alive' \in BOOLEAN
      BY <2>1, Zenon DEF Die
    <2>4. TypeOK' /\ RefCounts'
      BY <2>1, <2>3 DEF Die, RefCounts
    <2>5. Lifetime' /\ LoopOK' /\ ActorOK' /\ UnwantedIsCancelled'
      BY <2>1, <2>2, <2>3
      DEF Die, Lifetime, Referenced, LoopOK, ActorOK, UnwantedIsCancelled, isSet
    <2>6. SettledOK' /\ AssertionsHold'
      BY <2>1, <2>2, <2>3 DEF Die, SettledOK, AssertionsHold
    <2> QED
      BY <2>4, <2>5, <2>6
  <1>4. CASE futures # 0
    <2>1. StartLoop("sendAndDelPromiseRef", Actor, outcome)
      BY <1>4 DEF FinishActor
    <2> QED
      BY <1>1, <2>1, StartLoopIInv DEF Loops
  <1> QED
    BY <1>3, <1>4

(***************************************************************************)
(* The actor returns Never.                                                *)
(***************************************************************************)
LEMMA ActorReturnNeverIInv ==
    ASSUME IInv, ActorReturnNever
    PROVE  IInv'
  <1> USE DEF IInv, TypeOK, ActorReturnNever
  <1>1. /\ alive /\ canBeSet /\ Actor \in promiseHandles /\ promiseHandles = {Actor}
        /\ promiseHandles' = {}
    BY DEF ActorRunning, ActorOK
  <1>2. /\ promises = 1
        /\ futures = Cardinality(futureHandles) + RingRef
    BY <1>1, FS_Singleton DEF RefCounts
  <1>3. futures = 0 <=> (futureHandles = {} /\ ring = <<>>)
    BY <1>2, FiniteHandles DEF RingRef
  <1>4. firing = "none" /\ pinned = {}
    BY <1>1 DEF LoopOK, isSet, canBeSet, Delivered, Errors, UNSET
  <1>5. alive' \in BOOLEAN /\ (alive' <=> futures # 0)
    BY <1>2
  <1>6. TypeOK'
    BY <1>2, <1>5
  <1>7. RefCounts'
    <2>1. promises' = Cardinality(promiseHandles')
      <3>1. promises' = 0
        BY <1>2
      <3>2. Cardinality(promiseHandles') = 0
        BY <1>1, FS_EmptySet
      <3> QED
        BY <3>1, <3>2
    <2>2. futures' = Cardinality(futureHandles') + RingRef'
      BY <1>2 DEF RingRef
    <2> QED
      BY <2>1, <2>2 DEF RefCounts
  <1>8. Lifetime' /\ LoopOK' /\ ActorOK' /\ UnwantedIsCancelled'
    BY <1>1, <1>3, <1>4, <1>5
    DEF Lifetime, Referenced, LoopOK, ActorOK, UnwantedIsCancelled, isSet
  <1>9. SettledOK' /\ AssertionsHold'
    BY <1>1, <1>4
    DEF SettledOK, AssertionsHold, isSet, canBeSet, Delivered, Errors, UNSET, NEVER
  <1> QED
    BY <1>6, <1>7, <1>8, <1>9

-----------------------------------------------------------------------------
(***************************************************************************)
(* A waiter's Future becomes, or joins, the ring's reference.              *)
(***************************************************************************)
LEMMA AddCallbackIInv ==
    ASSUME IInv, NEW f \in Futures, NEW c \in Callbacks, NEW newRing \in Seq(Callbacks),
           newRing # <<>>, AddCallback(f, c, newRing)
    PROVE  IInv'
  <1> USE DEF IInv, TypeOK, AddCallback, delFutureRef
  <1>1. /\ alive /\ f \in futureHandles /\ ~isSet
        /\ futures = Cardinality(futureHandles) + RingRef
        /\ promises = Cardinality(promiseHandles)
    BY DEF UserCode, RefCounts
  <1>2. /\ Cardinality(futureHandles') = Cardinality(futureHandles) - 1
        /\ Cardinality(futureHandles) # 0
    BY <1>1, FiniteHandles, CardinalityRemove
  <1>3. /\ futures' = Cardinality(futureHandles') + 1 /\ futures' \in Nat
        /\ futures = 1 => ring = <<>>
    <2>1. CASE ring = <<>>
      BY <1>1, <1>2, <2>1, FiniteHandles DEF RingRef
    <2>2. CASE ring # <<>>
      <3>1. futures = Cardinality(futureHandles) + 1 /\ futures' = futures - 1
        BY <1>1, <2>2 DEF RingRef
      <3> QED
        BY <1>2, <3>1, FiniteHandles
    <2> QED
      BY <2>1, <2>2
  <1>4. alive' /\ alive' \in BOOLEAN /\ UNCHANGED actor_wait_state
    <2>1. CASE ring = <<>>
      BY <1>1, <2>1
    <2>2. CASE ring # <<>>
      <3>1. futures # 1
        BY <1>3, <2>2
      <3>2. alive' = TRUE /\ UNCHANGED actor_wait_state
        BY <2>2, <3>1
      <3> QED
        BY <3>2, Zenon
    <2> QED
      BY <2>1, <2>2
  <1>5. TypeOK'
    BY <1>3, <1>4
  <1>6. RefCounts'
    BY <1>1, <1>3 DEF RefCounts, RingRef
  <1>7. Lifetime' /\ LoopOK' /\ ActorOK' /\ AssertionsHold'
    BY <1>4 DEF Lifetime, Referenced, LoopOK, ActorOK, AssertionsHold, isSet, canBeSet
  <1>8. SettledOK' /\ UnwantedIsCancelled'
    BY <1>1, <1>2, <1>3, FiniteHandles DEF SettledOK, UnwantedIsCancelled, isSet, canBeSet
  <1> QED
    BY <1>5, <1>6, <1>7, <1>8

(***************************************************************************)
(* A callback leaves the ring, whoever unlinks it; the last one gives up   *)
(* the ring's reference.                                                   *)
(***************************************************************************)
LEMMA DetachIInv ==
    ASSUME IInv, alive, NEW i \in DOMAIN ring, NEW told \in {"idle"} \union Delivered,
           Detach(i, told),
           inCallback' \in BOOLEAN,
           UNCHANGED <<kind, promises, error_state, promiseHandles, futureHandles, firing,
                       pinned>>
    PROVE  IInv'
  <1> USE DEF IInv, TypeOK, Detach
  <1>0. ring # <<>> /\ Len(ring) \in Nat /\ i \in 1..Len(ring)
    BY LenProperties, EmptySeq
  <1>1. /\ ring' \in Seq(Callbacks)
        /\ ring' = <<>> <=> Len(ring) = 1
    BY <1>0, RemoveAtProperties DEF Unlink
  <1>2. /\ futures = Cardinality(futureHandles) + 1
        /\ promises = Cardinality(promiseHandles)
    BY <1>0 DEF RefCounts, RingRef
  <1>3. cb' \in [Callbacks -> {"idle", "waiting"} \union Delivered]
    <2>1. ring[i] \in Callbacks
      BY <1>0, ElementOfSeq
    <2> QED
      BY <2>1
  <1>4. CASE Len(ring) = 1
    <2> USE DEF delFutureRef, cancel
    <2>1. ring' = <<>> /\ futures' = Cardinality(futureHandles) /\ futures' \in Nat
      BY <1>1, <1>2, <1>4, FiniteHandles
    <2>2. futures' = 0 <=> futureHandles = {}
      BY <2>1, FiniteHandles
    <2>3. promises = 0 <=> promiseHandles = {}
      BY <1>2, FiniteHandles
    <2>4. alive' \in BOOLEAN /\ (~alive' <=> (futures' = 0 /\ promises = 0))
      <3>1. alive' = ~(futures = 1 /\ promises = 0)
        BY <1>4
      <3>2. futures = 1 <=> futures' = 0
        BY <1>2, <2>1, FiniteHandles
      <3>3. alive' = ~(futures' = 0 /\ promises = 0)
        BY ONLY <3>1, <3>2
      <3> QED
        BY ONLY <3>3, Zenon
    <2>5. actor_wait_state' \in {-1, 0, 1}
      BY <1>4
    <2>6. TypeOK'
      BY <1>1, <1>3, <2>1, <2>4, <2>5
    <2>7. RefCounts'
      BY <1>2, <2>1 DEF RefCounts, RingRef
    <2>8. Lifetime'
      BY <2>1, <2>2, <2>3, <2>4 DEF Lifetime, Referenced, LoopOK
    <2>9. LoopOK' /\ ActorOK' /\ AssertionsHold'
      BY DEF LoopOK, ActorOK, AssertionsHold, isSet, canBeSet
    <2>10. SettledOK'
      BY <2>1 DEF SettledOK, isSet, canBeSet
    <2>11. UnwantedIsCancelled'
      <3>1. ASSUME Actor \in promiseHandles, futures' = 0 PROVE actor_wait_state' = -1
        BY <1>4, <2>3, <3>1 DEF ActorOK
      <3> QED
        BY <3>1 DEF UnwantedIsCancelled
    <2> QED
      BY <2>6, <2>7, <2>8, <2>9, <2>10, <2>11
  <1>5. CASE Len(ring) # 1
    <2>1. ring' # <<>> /\ UNCHANGED <<futures, alive, actor_wait_state>>
      BY <1>1, <1>5
    <2>2. TypeOK'
      BY <1>1, <1>3, <2>1
    <2>3. RefCounts'
      BY <1>0, <2>1 DEF RefCounts, RingRef
    <2>4. Lifetime' /\ LoopOK' /\ ActorOK' /\ AssertionsHold'
      BY <1>0, <2>1 DEF Lifetime, Referenced, LoopOK, ActorOK, AssertionsHold, isSet, canBeSet
    <2>5. SettledOK' /\ UnwantedIsCancelled'
      BY <1>0, <2>1 DEF SettledOK, UnwantedIsCancelled, isSet, canBeSet
    <2> QED
      BY <2>2, <2>3, <2>4, <2>5
  <1> QED
    BY <1>4, <1>5

(***************************************************************************)
(* The end of a callback loop.                                             *)
(***************************************************************************)
LEMMA LoopExitIInv ==
    ASSUME IInv, LoopExit
    PROVE  IInv'
  <1> USE DEF IInv, TypeOK
  <1>1. /\ firing # "none" /\ ring = <<>> /\ isSet /\ firing' = "none" /\ pinned' = {}
        /\ inCallback' \in BOOLEAN
        /\ UNCHANGED <<kind, futures, error_state, ring, futureHandles, actor_wait_state, cb>>
    BY DEF LoopExit, LoopOK
  <1>2. alive
    BY <1>1 DEF Lifetime, Referenced
  <1>3. /\ promises = Cardinality(promiseHandles)
        /\ futures = Cardinality(futureHandles)
    BY <1>1, <1>2, FiniteHandles DEF RefCounts, RingRef
  <1>4. PICK p \in promiseHandles : pinned = {p}
    BY <1>1 DEF LoopOK
  <1>5. CASE firing = "send"
    <2>1. UNCHANGED <<promises, promiseHandles, alive>>
      BY <1>5 DEF LoopExit
    <2>2. TypeOK' /\ RefCounts'
      BY <1>1, <2>1 DEF RefCounts, RingRef, Loops
    <2>3. Lifetime' /\ LoopOK' /\ ActorOK'
      BY <1>1, <1>2, <1>4, <2>1 DEF Lifetime, Referenced, LoopOK, ActorOK, isSet
    <2>4. Actor \notin promiseHandles
      BY <1>4, <1>5 DEF LoopOK, ActorOK
    <2>5. SettledOK' /\ AssertionsHold' /\ UnwantedIsCancelled'
      BY <1>1, <2>1, <2>4
      DEF SettledOK, AssertionsHold, UnwantedIsCancelled, isSet, canBeSet, Delivered, Errors, UNSET
    <2> QED
      BY <2>2, <2>3, <2>5
  <1>6. CASE firing # "send"
    <2>0. ASSUME firing = "delPromiseRef" PROVE Cardinality(promiseHandles) = 1
      <3>1. promiseHandles = {p}
        BY <1>4, <2>0 DEF LoopOK
      <3> QED
        BY <3>1, FS_Singleton
    <2>1. /\ promiseHandles' = promiseHandles \ {p}
          /\ promises' = Cardinality(promiseHandles) - 1
      <3>1. /\ promiseHandles' = promiseHandles \ {p}
            /\ promises' = IF firing = "delPromiseRef" THEN 0 ELSE promises - 1
        BY <1>4, <1>6 DEF LoopExit
      <3> QED
        BY <1>3, <2>0, <3>1
    <2>2. Cardinality(promiseHandles') = Cardinality(promiseHandles) - 1
      BY <1>4, <2>1, FiniteHandles, CardinalityRemove
    <2>3. /\ promises' \in Nat
          /\ promises' = 0 <=> promiseHandles' = {}
      BY <1>4, <2>1, <2>2, FiniteHandles, FS_RemoveElement, FS_CardinalityType, FS_EmptySet
    <2>4. futures = 0 <=> futureHandles = {}
      BY <1>3, FiniteHandles
    <2>5. alive' = ~(promises' = 0 /\ futures = 0)
      BY <1>6 DEF LoopExit
    <2>6. alive' \in BOOLEAN
      BY <2>5, Zenon
    <2>7. TypeOK'
      BY <1>1, <2>1, <2>3, <2>6 DEF Loops
    <2>8. RefCounts'
      BY <1>1, <1>3, <2>1, <2>2, FiniteHandles DEF RefCounts, RingRef
    <2>9. Lifetime'
      BY <1>1, <2>1, <2>3, <2>4, <2>5 DEF Lifetime, Referenced
    <2>10. LoopOK' /\ ActorOK'
      BY <1>1, <2>1 DEF LoopOK, ActorOK, isSet
    <2>11. Actor \notin promiseHandles'
      BY <1>4, <2>1, HandlesAssumption DEF LoopOK, ActorOK
    <2>12. SettledOK' /\ AssertionsHold' /\ UnwantedIsCancelled'
      BY <1>1, <2>11
      DEF SettledOK, AssertionsHold, UnwantedIsCancelled, isSet, canBeSet, Delivered, Errors, UNSET
    <2> QED
      BY <2>7, <2>8, <2>9, <2>10, <2>12
  <1> QED
    BY <1>5, <1>6

-----------------------------------------------------------------------------
(***************************************************************************)
(* Every step preserves the invariant: one case per action.                *)
(***************************************************************************)
LEMMA NextIInv == IInv /\ [Next]_vars => IInv'
  <1> SUFFICES ASSUME IInv, [Next]_vars PROVE IInv'
    OBVIOUS
  <1>1. ASSUME NEW p \in Promises, NEW q \in Promises, CopyPromise(p, q) PROVE IInv'
    BY <1>1, CopyPromiseIInv
  <1>2. ASSUME NEW p \in Promises, NEW f \in Futures, GetFuture(p, f) PROVE IInv'
    BY <1>2, AddFutureRefIInv DEF GetFuture
  <1>3. ASSUME NEW p \in Promises, DropPromise(p) PROVE IInv'
    BY <1>3, DropPromiseIInv
  <1>4. ASSUME NEW p \in Promises, Send(p) \/ SendError(p) \/ SendNever(p) PROVE IInv'
    BY <1>4, SendIInv
  <1>5. ASSUME NEW f \in Futures, NEW g \in Futures, CopyFuture(f, g) PROVE IInv'
    BY <1>5, AddFutureRefIInv DEF CopyFuture
  <1>6. ASSUME NEW f \in Futures, DropFuture(f) PROVE IInv'
    BY <1>6, DropFutureIInv
  <1>7. ASSUME NEW f \in Futures, CancelFuture(f) PROVE IInv'
    BY <1>7, CancelFutureIInv
  <1>8. ASSUME NEW f \in Futures, NEW c \in Callbacks, AddCallbackFront(f, c) \/ AddCallbackBack(f, c)
        PROVE  IInv'
    <2>1. ring \in Seq(Callbacks)
      BY DEF IInv, TypeOK
    <2>2. /\ <<c>> \o ring \in Seq(Callbacks) /\ <<c>> \o ring # <<>>
          /\ Append(ring, c) \in Seq(Callbacks) /\ Append(ring, c) # <<>>
      BY <2>1, RingGrows
    <2> QED
      BY <1>8, <2>2, AddCallbackIInv DEF AddCallbackFront, AddCallbackBack
  <1>9. ASSUME ActorWait \/ ActorResume PROVE IInv'
    BY <1>9, ActorWaitIInv
  <1>10. ASSUME ActorReturn \/ ActorThrow PROVE IInv'
    BY <1>10, FinishActorIInv DEF ActorReturn, ActorThrow, Delivered, Errors
  <1>11. ASSUME ActorReturnNever PROVE IInv'
    BY <1>11, ActorReturnNeverIInv
  <1>12. ASSUME NEW i \in DOMAIN ring, RemoveCallback(i) PROVE IInv'
    BY <1>12, DetachIInv DEF RemoveCallback, UserCode, IInv, TypeOK
  <1>13. ASSUME FireNext PROVE IInv'
    <2>1. alive /\ error_state \in Delivered
      BY <1>13 DEF FireNext, IInv, Lifetime, Referenced, LoopOK, isSet
    <2>2. 1 \in DOMAIN ring
      BY <1>13, LenProperties, EmptySeq DEF FireNext, IInv, TypeOK
    <2>3. inCallback' \in BOOLEAN
      BY <1>13, Zenon DEF FireNext
    <2> QED
      BY <1>13, <2>1, <2>2, <2>3, DetachIInv DEF FireNext
  <1>14. ASSUME LoopExit PROVE IInv'
    BY <1>14, LoopExitIInv
  <1>15. ASSUME UNCHANGED vars PROVE IInv'
    BY <1>15 DEF vars, IInv, TypeOK, RefCounts, RingRef, Lifetime, Referenced, LoopOK, ActorOK,
                 SettledOK, AssertionsHold, UnwantedIsCancelled, isSet, canBeSet
  <1> QED
    BY <1>1, <1>2, <1>3, <1>4, <1>5, <1>6, <1>7, <1>8, <1>9, <1>10, <1>11, <1>12, <1>13, <1>14,
       <1>15
    DEF Next, PromiseStep, FutureStep, ActorStep, WaiterStep, LoopStep

(***************************************************************************)
(* The inductive invariant holds in every reachable state.                 *)
(***************************************************************************)
THEOREM Invariance == Spec => []IInv
  BY InitIInv, NextIInv, PTL DEF Spec

-----------------------------------------------------------------------------
(***************************************************************************)
(* What a step does to the outcome and to the waiters, whichever action it *)
(* is: nothing, the one assignment, a registration, or a callback leaving  *)
(* the ring.                                                               *)
(***************************************************************************)
Quiet == UNCHANGED <<error_state, cb, ring>>

(***************************************************************************)
(* A step that assigns the variable.                                       *)
(***************************************************************************)
AssignsOnce ==
    canBeSet /\ error_state' \in Delivered \union {NEVER} /\ UNCHANGED <<cb, ring>>

(***************************************************************************)
(* A step that registers a callback.                                       *)
(***************************************************************************)
Registers ==
    \E f \in Futures, c \in Callbacks : AddCallbackFront(f, c) \/ AddCallbackBack(f, c)

(***************************************************************************)
(* A step in which a callback gives up.                                    *)
(***************************************************************************)
Leaves == \E i \in DOMAIN ring : RemoveCallback(i)

(***************************************************************************)
(* Every step assigns, registers, leaves, fires a callback or is quiet.    *)
(***************************************************************************)
LEMMA StepKinds ==
    ASSUME IInv, [Next]_vars
    PROVE  Quiet \/ AssignsOnce \/ Registers \/ Leaves \/ FireNext
  <1> USE DEF Quiet, AssignsOnce
  <1>1. ASSUME PromiseStep PROVE Quiet \/ AssignsOnce
    BY <1>1 DEF PromiseStep, CopyPromise, GetFuture, DropPromise, Send, SendError, SendNever,
                StartLoop, Delivered, Errors
  <1>2. ASSUME FutureStep PROVE Quiet \/ Registers
    BY <1>2 DEF FutureStep, CopyFuture, DropFuture, CancelFuture, Registers
  <1>3. ASSUME ActorStep PROVE Quiet \/ AssignsOnce
    BY <1>3 DEF ActorStep, ActorWait, ActorResume, ActorReturn, ActorThrow, ActorReturnNever,
                FinishActor, Die, StartLoop, Delivered, Errors
  <1>4. ASSUME WaiterStep PROVE Leaves
    BY <1>4 DEF WaiterStep, Leaves
  <1>5. ASSUME LoopStep PROVE Quiet \/ FireNext
    BY <1>5 DEF LoopStep, LoopExit
  <1>6. ASSUME UNCHANGED vars PROVE Quiet
    BY <1>6 DEF vars
  <1> QED
    BY <1>1, <1>2, <1>3, <1>4, <1>5, <1>6 DEF Next

(***************************************************************************)
(* No callback is linked twice, and ToldTheOutcome: together with IInv the *)
(* inductive form of "every waiter is told the one outcome".               *)
(***************************************************************************)
RingInjective == \A i, j \in 1..Len(ring) : ring[i] = ring[j] => i = j

(***************************************************************************)
(* The invariant with the parts about the callback ring.                   *)
(***************************************************************************)
RingInv == IInv /\ RingInjective /\ ToldTheOutcome

(***************************************************************************)
(* The ring is a sequence.                                                 *)
(***************************************************************************)
LEMMA RingDomain == ASSUME TypeOK PROVE DOMAIN ring = 1..Len(ring) /\ Len(ring) \in Nat
  BY LenProperties DEF TypeOK

(***************************************************************************)
(* It holds initially.                                                     *)
(***************************************************************************)
LEMMA InitRingInv == Init => RingInv
  <1> SUFFICES ASSUME Init PROVE RingInv
    OBVIOUS
  <1>1. IInv
    BY InitIInv
  <1>2. RingInjective
    BY EmptySeq DEF Init, RingInjective
  <1>3. ToldTheOutcome
    BY DEF Init, ToldTheOutcome, Delivered, Errors
  <1> QED
    BY <1>1, <1>2, <1>3 DEF RingInv

(***************************************************************************)
(* Every step keeps it.                                                    *)
(***************************************************************************)
LEMMA NextRingInv == RingInv /\ [Next]_vars => RingInv'
  <1> SUFFICES ASSUME RingInv, [Next]_vars PROVE RingInv'
    OBVIOUS
  <1> USE DEF RingInv
  <1>1. IInv' /\ TypeOK /\ TypeOK'
    BY NextIInv DEF IInv
  <1>2. CASE Quiet
    BY <1>1, <1>2 DEF Quiet, RingInjective, ToldTheOutcome
  <1>3. CASE AssignsOnce
    <2>1. \A c \in Callbacks : cb[c] \notin Delivered
      BY <1>3 DEF AssignsOnce, ToldTheOutcome, canBeSet, UNSET, Delivered, Errors
    <2> QED
      BY <1>1, <1>3, <2>1 DEF AssignsOnce, RingInjective, ToldTheOutcome
  <1>4. CASE Registers
    <2>1. PICK f \in Futures, c \in Callbacks : AddCallbackFront(f, c) \/ AddCallbackBack(f, c)
      BY <1>4 DEF Registers
    <2>2. /\ ~isSet /\ cb[c] = "idle" /\ cb' = [cb EXCEPT ![c] = "waiting"]
          /\ UNCHANGED error_state
          /\ ring' = <<c>> \o ring \/ ring' = Append(ring, c)
      BY <2>1 DEF AddCallbackFront, AddCallbackBack, AddCallback
    <2>3. \A i \in 1..Len(ring) : ring[i] # c
      BY <1>1, <2>2, RingDomain DEF ToldTheOutcome
    <2>4. \A d \in Callbacks : cb[d] \notin Delivered
      BY <2>2 DEF ToldTheOutcome, isSet
    <2>5. ring \in Seq(Callbacks) /\ Len(ring) \in Nat /\ Len(ring') = Len(ring) + 1
      BY <1>1, <2>2, RingGrows, RingDomain DEF TypeOK
    <2>6. /\ RingInjective'
          /\ \A d \in Callbacks : (\E i \in 1..Len(ring') : ring'[i] = d)
                                 <=> (d = c \/ \E i \in 1..Len(ring) : ring[i] = d)
      <3>1. CASE ring' = <<c>> \o ring
        <4>1. \A i \in 1..Len(ring') : ring'[i] = IF i = 1 THEN c ELSE ring[i - 1]
          BY <2>5, <3>1, RingGrows
        <4>2. RingInjective'
          <5>1. ASSUME NEW i \in 1..Len(ring'), NEW j \in 1..Len(ring'), ring'[i] = ring'[j], i # 1, j # 1
                PROVE  i = j
            <6>1. /\ i - 1 \in 1..Len(ring) /\ j - 1 \in 1..Len(ring)
                  /\ ring[i - 1] = ring[j - 1]
              BY <2>5, <4>1, <5>1
            <6> QED
              BY <5>1, <6>1 DEF RingInjective
          <5>2. ASSUME NEW j \in 1..Len(ring'), j # 1
                PROVE  ring'[j] # c
            <6>1. j - 1 \in 1..Len(ring) /\ ring'[j] = ring[j - 1]
              BY <2>5, <4>1, <5>2
            <6> QED
              BY <2>3, <6>1
          <5>3. ring'[1] = c
            BY <2>5, <4>1
          <5> QED
            BY <5>1, <5>2, <5>3 DEF RingInjective
        <4>3. ASSUME NEW d \in Callbacks, NEW i \in 1..Len(ring'), ring'[i] = d
              PROVE  d = c \/ \E j \in 1..Len(ring) : ring[j] = d
          BY <2>5, <4>1, <4>3
        <4>4. ASSUME NEW i \in 1..Len(ring)
              PROVE  i + 1 \in 1..Len(ring') /\ ring'[i + 1] = ring[i]
          BY <2>5, <4>1
        <4>5. 1 \in 1..Len(ring') /\ ring'[1] = c
          BY <2>5, <4>1
        <4> QED
          BY <4>2, <4>3, <4>4, <4>5
      <3>2. CASE ring' = Append(ring, c)
        <4>1. \A i \in 1..Len(ring') : ring'[i] = IF i = Len(ring) + 1 THEN c ELSE ring[i]
          BY <2>5, <3>2, RingGrows
        <4>2. RingInjective'
          BY <2>3, <2>5, <4>1 DEF RingInjective
        <4>3. ASSUME NEW d \in Callbacks, NEW i \in 1..Len(ring'), ring'[i] = d
              PROVE  d = c \/ \E j \in 1..Len(ring) : ring[j] = d
          BY <2>5, <4>1, <4>3
        <4>4. ASSUME NEW i \in 1..Len(ring)
              PROVE  i \in 1..Len(ring') /\ ring'[i] = ring[i]
          BY <2>5, <4>1
        <4>5. Len(ring) + 1 \in 1..Len(ring') /\ ring'[Len(ring) + 1] = c
          BY <2>5, <4>1
        <4> QED
          BY <4>2, <4>3, <4>4, <4>5
      <3> QED
        BY <2>2, <3>1, <3>2
    <2>7. cb \in [Callbacks -> {"idle", "waiting"} \union Delivered]
      BY <1>1 DEF TypeOK
    <2>8. DOMAIN ring = 1..Len(ring) /\ DOMAIN ring' = 1..Len(ring')
      BY <1>1, LenProperties DEF TypeOK
    <2>9. ToldTheOutcome'
      <3> SUFFICES ASSUME NEW d \in Callbacks
                   PROVE  /\ cb'[d] \notin Delivered
                          /\ cb'[d] = "waiting" <=> \E i \in 1..Len(ring') : ring'[i] = d
        BY <2>8 DEF ToldTheOutcome
      <3>1. CASE d = c
        <4>1. cb'[d] = "waiting"
          BY <2>2, <2>7, <3>1
        <4> QED
          BY <2>6, <3>1, <4>1 DEF Delivered, Errors
      <3>2. CASE d # c
        <4>1. cb'[d] = cb[d]
          BY <2>2, <2>7, <3>2
        <4> QED
          BY <2>4, <2>6, <2>8, <3>2, <4>1 DEF ToldTheOutcome
      <3> QED
        BY <3>1, <3>2
    <2> QED
      BY <1>1, <2>6, <2>9
  <1>5. ASSUME NEW i \in DOMAIN ring, NEW told \in {"idle"} \union Delivered,
               told \in Delivered => told = error_state,
               Detach(i, told), UNCHANGED error_state
        PROVE  RingInv'
    <2>1. /\ ring \in Seq(Callbacks) /\ i \in 1..Len(ring) /\ ring[i] \in Callbacks
          /\ ring' = RemoveAt(ring, i) /\ Len(ring') = Len(ring) - 1
          /\ cb' = [cb EXCEPT ![ring[i]] = told]
      BY <1>1, <1>5, RingDomain, ElementOfSeq, RemoveAtProperties DEF Detach, Unlink, TypeOK
    <2>2. /\ RingInjective'
          /\ \A d \in Callbacks : (\E j \in 1..Len(ring') : ring'[j] = d)
                                 <=> (d # ring[i] /\ \E j \in 1..Len(ring) : ring[j] = d)
      <3>1. \A j, k \in 1..Len(ring) : ring[j] = ring[k] => j = k
        BY DEF RingInjective
      <3>2. /\ \A j, k \in 1..(Len(ring) - 1) :
                 RemoveAt(ring, i)[j] = RemoveAt(ring, i)[k] => j = k
            /\ \A d \in Callbacks :
                 (\E j \in 1..(Len(ring) - 1) : RemoveAt(ring, i)[j] = d)
                   <=> (d # ring[i] /\ \E j \in 1..Len(ring) : ring[j] = d)
        <4>1. ring \in Seq(Callbacks) /\ i \in 1..Len(ring)
          BY <2>1
        <4> QED
          BY ONLY <3>1, <4>1, RemoveAtInjective
      <3> QED
        BY ONLY <2>1, <3>2 DEF RingInjective
    <2>3. cb \in [Callbacks -> {"idle", "waiting"} \union Delivered]
      BY <1>1 DEF TypeOK
    <2>4. DOMAIN ring = 1..Len(ring) /\ DOMAIN ring' = 1..Len(ring')
      BY <1>1, LenProperties DEF TypeOK
    <2>5. ToldTheOutcome'
      <3> SUFFICES ASSUME NEW d \in Callbacks
                   PROVE  /\ cb'[d] \in Delivered => cb'[d] = error_state
                          /\ cb'[d] = "waiting" <=> \E j \in 1..Len(ring') : ring'[j] = d
        BY <1>5, <2>4 DEF ToldTheOutcome
      <3>1. CASE d = ring[i]
        <4>1. cb'[d] = told
          BY <2>1, <2>3, <3>1
        <4>2. told # "waiting"
          BY <1>5 DEF Delivered, Errors
        <4> QED
          BY <1>5, <2>2, <3>1, <4>1, <4>2
      <3>2. CASE d # ring[i]
        <4>1. cb'[d] = cb[d]
          BY <2>1, <2>3, <3>2
        <4> QED
          BY <2>2, <2>4, <3>2, <4>1 DEF ToldTheOutcome
      <3> QED
        BY <3>1, <3>2
    <2> QED
      BY <1>1, <2>2, <2>5
  <1>6. CASE Leaves
    BY <1>5, <1>6 DEF Leaves, RemoveCallback, Delivered, Errors
  <1>7. CASE FireNext
    <2>1. 1 \in DOMAIN ring /\ error_state \in Delivered
      BY <1>1, <1>7, LenProperties, EmptySeq DEF FireNext, IInv, TypeOK, LoopOK, isSet
    <2> QED
      BY <1>5, <1>7, <2>1 DEF FireNext
  <1> QED
    BY <1>2, <1>3, <1>4, <1>6, <1>7, StepKinds

-----------------------------------------------------------------------------
(***************************************************************************)
(* The run's properties, for any number of handles and callbacks.          *)
(***************************************************************************)
THEOREM RingInvariance == Spec => []RingInv
  BY InitRingInv, NextRingInv, PTL DEF Spec

(***************************************************************************)
(* Every variable of a SAV stays in its type: a count is never negative.   *)
(***************************************************************************)
THEOREM TypeCorrect == Spec => []TypeOK
  <1>1. IInv => TypeOK
    BY DEF IInv
  <1> QED
    BY <1>1, Invariance, PTL

(***************************************************************************)
(* SAV::promises and SAV::futures count the handles and the ring.          *)
(***************************************************************************)
THEOREM CountsAreHandles == Spec => []RefCounts
  <1>1. IInv => RefCounts
    BY DEF IInv
  <1> QED
    BY <1>1, Invariance, PTL

(***************************************************************************)
(* destroy() runs exactly when the last reference is gone: no use after    *)
(* free, no leak.                                                          *)
(***************************************************************************)
THEOREM DestroyedWhenUnreferenced == Spec => []Lifetime
  <1>1. IInv => Lifetime
    BY DEF IInv
  <1> QED
    BY <1>1, Invariance, PTL

(***************************************************************************)
(* Nobody waits on a SAV whose promise can no longer be kept.              *)
(***************************************************************************)
THEOREM WaitersHaveAPromise == Spec => []NoOrphanWaiter
  <1>1. IInv => NoOrphanWaiter
    <2> SUFFICES ASSUME IInv, firing = "none", ring # <<>>
                 PROVE  error_state = NEVER \/ (error_state = UNSET /\ promiseHandles # {})
      BY DEF NoOrphanWaiter
    <2>1. alive /\ ~isSet
      BY DEF IInv, Lifetime, Referenced, SettledOK
    <2>2. error_state = NEVER \/ canBeSet
      BY <2>1 DEF IInv, TypeOK, isSet, canBeSet
    <2> QED
      BY <2>1, <2>2 DEF IInv, SettledOK, canBeSet
  <1> QED
    BY <1>1, Invariance, PTL

(***************************************************************************)
(* The assertions of delPromiseRef and of the actor's return never fail.   *)
(***************************************************************************)
THEOREM AssertionsNeverFail == Spec => []AssertionsHold
  <1>1. IInv => AssertionsHold
    BY DEF IInv
  <1> QED
    BY <1>1, Invariance, PTL

(***************************************************************************)
(* An actor nobody can hear any more has been cancelled by delFutureRef.   *)
(***************************************************************************)
THEOREM UnwantedActorIsCancelled == Spec => []UnwantedIsCancelled
  <1>1. IInv => UnwantedIsCancelled
    BY DEF IInv
  <1> QED
    BY <1>1, Invariance, PTL

(***************************************************************************)
(* Counts, lifetime, the code's assertions and cancellation stay right     *)
(* together, for any sets of handles and callbacks.                        *)
(***************************************************************************)
THEOREM SavIsSafe == Spec => []SavSafe
  <1>1. TypeOK /\ RefCounts /\ Lifetime /\ AssertionsHold /\ UnwantedIsCancelled => SavSafe
    BY DEF SavSafe
  <1> QED
    BY <1>1, TypeCorrect, CountsAreHandles, DestroyedWhenUnreferenced, AssertionsNeverFail,
       UnwantedActorIsCancelled, PTL

(***************************************************************************)
(* The callbacks that were told something were told the one outcome.       *)
(***************************************************************************)
THEOREM EveryoneHearsTheSame == Spec => []ToldTheOutcome
  <1>1. RingInv => ToldTheOutcome
    BY DEF RingInv
  <1> QED
    BY <1>1, RingInvariance, PTL

(***************************************************************************)
(* What one step does to the callbacks that wait, seen as a step of the    *)
(* contract: at most one callback changes, in one of three ways.           *)
(***************************************************************************)
LEMMA StepRefines ==
    ASSUME RingInv, [Next]_vars
    PROVE  [Contract!Next]_(Contract!vars)
  <1> USE DEF RingInv
  <1>0. TypeOK
    BY DEF IInv
  <1>1. CASE Quiet
    BY <1>1 DEF Quiet, Contract!vars
  <1>2. CASE AssignsOnce
    BY <1>2 DEF AssignsOnce, canBeSet, Contract!Next, Contract!Assign
  <1>3. CASE Registers
    <2>1. PICK f \in Futures, c \in Callbacks : AddCallbackFront(f, c) \/ AddCallbackBack(f, c)
      BY <1>3 DEF Registers
    <2>2. Contract!Register(c)
      BY <2>1 DEF AddCallbackFront, AddCallbackBack, AddCallback, isSet, Contract!Register
    <2> QED
      BY <2>2 DEF Contract!Next
  <1>4. ASSUME NEW i \in DOMAIN ring PROVE ring[i] \in Callbacks /\ cb[ring[i]] = "waiting"
    <2>1. ring[i] \in Callbacks
      BY <1>0, RingDomain, ElementOfSeq DEF TypeOK
    <2> QED
      BY <2>1 DEF ToldTheOutcome
  <1>5. CASE Leaves
    <2>1. PICK i \in DOMAIN ring : RemoveCallback(i)
      BY <1>5 DEF Leaves
    <2>2. Contract!Deregister(ring[i])
      BY <1>4, <2>1 DEF RemoveCallback, Detach, Contract!Deregister
    <2> QED
      BY <1>4, <2>2 DEF Contract!Next
  <1>6. CASE FireNext
    <2>1. 1 \in DOMAIN ring /\ error_state \in Delivered
      BY <1>0, <1>6, LenProperties, EmptySeq DEF FireNext, IInv, TypeOK, LoopOK, isSet
    <2>2. Contract!Deliver(ring[1])
      BY <1>4, <1>6, <2>1 DEF FireNext, Detach, Contract!Deliver
    <2> QED
      BY <1>4, <2>1, <2>2 DEF Contract!Next
  <1> QED
    BY <1>1, <1>2, <1>3, <1>5, <1>6, StepKinds

(***************************************************************************)
(* The SAV with its counts, ring and re-entrant loops implements the       *)
(* contract of a future.                                                   *)
(***************************************************************************)
THEOREM Refinement == Spec => ImplementsContract
  <1>1. Init => Contract!Init
    BY DEF Init, InitPromise, InitActor, InitReady, Contract!Init, Delivered, Errors
  <1>2. RingInv /\ [Next]_vars => [Contract!Next]_(Contract!vars)
    BY StepRefines
  <1> QED
    BY <1>1, <1>2, RingInvariance, PTL DEF Spec, ImplementsContract, Contract!Spec

(***************************************************************************)
(* A callback that has been told its outcome is never told another.        *)
(***************************************************************************)
THEOREM ToldAtMostOnce == Spec => ToldOnce
  <1>1. ASSUME RingInv, [Next]_vars, NEW c \in Callbacks, cb[c] \in Delivered
        PROVE  cb'[c] = cb[c]
    <2>1. cb \in [Callbacks -> {"idle", "waiting"} \union Delivered]
      BY <1>1 DEF RingInv, IInv, TypeOK
    <2>2. cb[c] # "waiting" /\ cb[c] # "idle"
      BY <1>1 DEF Delivered, Errors
    <2> QED
      BY <1>1, <2>1, <2>2, StepRefines
      DEF Contract!Next, Contract!vars, Contract!Assign, Contract!Register, Contract!Deregister,
          Contract!Deliver
  <1>2. RingInv /\ [Next]_vars => [\A c \in Callbacks : cb[c] \in Delivered => cb'[c] = cb[c]]_vars
    BY <1>1
  <1> QED
    BY <1>2, RingInvariance, PTL DEF Spec, ToldOnce
=============================================================================
