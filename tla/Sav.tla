-------------------------------- MODULE Sav --------------------------------
(***************************************************************************)
(* One single-assignment variable of flow (SAV<T>, flow/flow.h) with the   *)
(* Promise and Future handles, the ring of waiting callbacks and, when the *)
(* SAV belongs to an actor, that actor's wait state.                       *)
(*                                                                         *)
(* Flow is single threaded, so the difficulty is re-entrancy: send,        *)
(* sendError and the last delPromiseRef call every waiting callback from a *)
(* loop over the ring, and a callback runs arbitrary user code, which may  *)
(* copy and drop handles of this very SAV, cancel it, or unlink callbacks  *)
(* that the loop has not reached.  The loop is therefore broken into one   *)
(* step per callback; while a callback is on the stack the other           *)
(* operations interleave with the loop.                                    *)
(***************************************************************************)
EXTENDS Integers, Sequences, SequencesExt, FiniteSets

CONSTANTS Promises,  \* Promise<T> objects that may point to the SAV
          Futures,   \* Future<T> objects that may point to the SAV
          Callbacks, \* Callback<T> objects that may wait on the SAV
          Actor      \* the running actor, which owns one promise reference

ASSUME HandlesAssumption ==
    /\ IsFiniteSet(Promises)
    /\ IsFiniteSet(Futures)
    /\ Actor \notin Promises

VARIABLES
    kind,             \* who created the SAV: "promise", "actor", "ready"
    alive,            \* FALSE once destroy() has run
    promises,         \* SAV::promises
    futures,          \* SAV::futures
    error_state,      \* SAV::error_state
    ring,             \* callbacks from Callback::next of the SAV onwards
    promiseHandles,   \* Promise objects (and the actor) holding a reference
    futureHandles,    \* Future objects holding a reference
    firing,           \* which operation's callback loop is on the stack
    pinned,           \* the promise reference that operation runs through
    inCallback,       \* TRUE once that loop has entered user code
    actor_wait_state, \* Actor::actor_wait_state: -1 cancelled, 0, 1 waiting
    cb                \* per callback: "idle", "waiting" or what it was told

vars == <<kind, alive, promises, futures, error_state, ring, promiseHandles,
          futureHandles, firing, pinned, inCallback, actor_wait_state, cb>>

UNSET == "unset"
NEVER == "never"
Errors == {"error", "broken_promise", "actor_cancelled"}
Delivered == {"set"} \union Errors

Owners == Promises \union {Actor}
Loops == {"none", "send", "delPromiseRef", "sendAndDelPromiseRef"}

TypeOK ==
    /\ kind \in {"promise", "actor", "ready"}
    /\ alive \in BOOLEAN
    /\ promises \in Nat
    /\ futures \in Nat
    /\ error_state \in Delivered \union {UNSET, NEVER}
    /\ ring \in Seq(Callbacks)
    /\ promiseHandles \subseteq Owners
    /\ futureHandles \subseteq Futures
    /\ firing \in Loops
    /\ pinned \subseteq Owners
    /\ inCallback \in BOOLEAN
    /\ actor_wait_state \in {-1, 0, 1}
    /\ cb \in [Callbacks -> {"idle", "waiting"} \union Delivered]

canBeSet == error_state = UNSET
isSet == error_state \in Delivered

(***************************************************************************)
(* User code runs when no callback loop is on the stack, or inside a       *)
(* callback that such a loop has called.                                   *)
(***************************************************************************)
UserCode == alive /\ (firing = "none" \/ inCallback)

-----------------------------------------------------------------------------
\* The three ways a SAV comes to be: Promise(), a call of an actor, and
\* Future(value), Future(Error), Future(Never).

InitPromise ==
    /\ kind = "promise"
    /\ promises = 1 /\ futures = 0
    /\ error_state = UNSET
    /\ \E p \in Promises : promiseHandles = {p}
    /\ futureHandles = {}

InitActor ==
    /\ kind = "actor"
    /\ promises = 1 /\ futures = 1
    /\ error_state = UNSET
    /\ promiseHandles = {Actor}
    /\ \E f \in Futures : futureHandles = {f}

InitReady ==
    /\ kind = "ready"
    /\ promises = 0 /\ futures = 1
    /\ error_state \in {"set", "error", NEVER}
    /\ promiseHandles = {}
    /\ \E f \in Futures : futureHandles = {f}

Init ==
    /\ InitPromise \/ InitActor \/ InitReady
    /\ alive = TRUE
    /\ ring = <<>>
    /\ firing = "none"
    /\ pinned = {}
    /\ inCallback = FALSE
    /\ actor_wait_state = 0
    /\ cb = [c \in Callbacks |-> "idle"]

-----------------------------------------------------------------------------
\* Reference counting

(***************************************************************************)
(* cancel(): nothing for a plain SAV; a generated actor notes that it is   *)
(* cancelled.  If it was waiting it runs its handlers at once, otherwise   *)
(* the next wait statement throws: ActorThrow in both cases.               *)
(***************************************************************************)
cancel ==
    actor_wait_state' = IF kind = "actor" THEN -1 ELSE actor_wait_state

(***************************************************************************)
(* The count part of delFutureRef: the last reference cancels an unfinished*)
(* producer or destroys an abandoned SAV.                                  *)
(***************************************************************************)
delFutureRef ==
    /\ futures' = futures - 1
    /\ alive' = ~(futures = 1 /\ promises = 0)
    /\ IF futures = 1 /\ promises > 0 THEN cancel ELSE UNCHANGED actor_wait_state

(***************************************************************************)
(* Promise objects that user code may copy, drop or assign.  "Once there   *)
(* is only one promise, there is no one else with the right to change the  *)
(* promise reference count": not the one delPromiseRef is destroying.  Its *)
(* getFuture() may still be called (FlowLock's takers do).                 *)
(***************************************************************************)
Usable == IF firing = "delPromiseRef" THEN {} ELSE promiseHandles \ {Actor}

CopyPromise(p, q) ==
    /\ UserCode
    /\ p \in Usable /\ q \in Promises \ promiseHandles
    /\ promises' = promises + 1
    /\ promiseHandles' = promiseHandles \union {q}
    /\ UNCHANGED <<kind, alive, futures, error_state, ring, futureHandles, firing,
                   pinned, inCallback, actor_wait_state, cb>>

GetFuture(p, f) ==
    /\ UserCode
    /\ p \in promiseHandles \ {Actor} /\ f \in Futures \ futureHandles
    /\ futures' = futures + 1
    /\ futureHandles' = futureHandles \union {f}
    /\ UNCHANGED <<kind, alive, promises, error_state, ring, promiseHandles, firing,
                   pinned, inCallback, actor_wait_state, cb>>

CopyFuture(f, g) ==
    /\ UserCode
    /\ f \in futureHandles /\ g \in Futures \ futureHandles
    /\ futures' = futures + 1
    /\ futureHandles' = futureHandles \union {g}
    /\ UNCHANGED <<kind, alive, promises, error_state, ring, promiseHandles, firing,
                   pinned, inCallback, actor_wait_state, cb>>

DropFuture(f) ==
    /\ UserCode
    /\ f \in futureHandles
    /\ futureHandles' = futureHandles \ {f}
    /\ delFutureRef
    /\ UNCHANGED <<kind, promises, error_state, ring, promiseHandles, firing,
                   pinned, inCallback, cb>>

(***************************************************************************)
(* Future::cancel(), which keeps the handle.                               *)
(***************************************************************************)
CancelFuture(f) ==
    /\ UserCode
    /\ f \in futureHandles
    /\ cancel
    /\ UNCHANGED <<kind, alive, promises, futures, error_state, ring, promiseHandles,
                   futureHandles, firing, pinned, inCallback, cb>>

(***************************************************************************)
(* The beginning of a callback loop: the outcome is stored, then callbacks *)
(* are called one by one (FireNext), then the loop ends (LoopExit).        *)
(***************************************************************************)
StartLoop(op, owner, outcome) ==
    /\ error_state' = outcome
    /\ firing' = op
    /\ pinned' = {owner}
    /\ inCallback' = FALSE
    /\ UNCHANGED <<kind, alive, promises, futures, ring, promiseHandles, futureHandles,
                   actor_wait_state, cb>>

\* Fault: the last promise goes away silently.
DropPromiseUnbroken(p) ==
    /\ UserCode
    /\ p \in Usable \ pinned
    /\ promises' = promises - 1
    /\ promiseHandles' = promiseHandles \ {p}
    /\ alive' = ~(promises = 1 /\ futures = 0)
    /\ UNCHANGED <<kind, futures, error_state, ring, futureHandles, firing, pinned,
                   inCallback, actor_wait_state, cb>>

(***************************************************************************)
(* ~Promise.  The reference an enclosing loop runs through is not dropped  *)
(* by the callbacks of that loop: the callers of send keep it on their     *)
(* stack.                                                                  *)
(***************************************************************************)
DropPromise(p) ==
    /\ UserCode
    /\ p \in Usable \ pinned
    /\ IF promises = 1 /\ futures > 0 /\ canBeSet
         THEN StartLoop("delPromiseRef", p, "broken_promise")
         ELSE /\ promises' = promises - 1
              /\ promiseHandles' = promiseHandles \ {p}
              /\ alive' = ~(promises = 1 /\ futures = 0)
              /\ UNCHANGED <<kind, futures, error_state, ring, futureHandles, firing,
                             pinned, inCallback, actor_wait_state, cb>>

-----------------------------------------------------------------------------
\* Assignment

Send(p) ==
    /\ UserCode /\ p \in Usable /\ canBeSet
    /\ StartLoop("send", p, "set")

SendError(p) ==
    /\ UserCode /\ p \in Usable /\ canBeSet
    /\ StartLoop("send", p, "error")

\* Fault: Never() overwrites an outcome that was already delivered.
SendNeverUnchecked(p) ==
    /\ UserCode /\ p \in Usable
    /\ error_state' = NEVER
    /\ UNCHANGED <<kind, alive, promises, futures, ring, promiseHandles, futureHandles,
                   firing, pinned, inCallback, actor_wait_state, cb>>

SendNever(p) ==
    /\ UserCode /\ p \in Usable /\ canBeSet
    /\ error_state' = NEVER
    /\ UNCHANGED <<kind, alive, promises, futures, ring, promiseHandles, futureHandles,
                   firing, pinned, inCallback, actor_wait_state, cb>>

(***************************************************************************)
(* The actor's own code, between a resumption and the next wait.           *)
(***************************************************************************)
ActorRunning ==
    /\ alive
    /\ Actor \in promiseHandles \ pinned
    /\ actor_wait_state # 1

ActorWait ==
    /\ ActorRunning /\ actor_wait_state = 0
    /\ actor_wait_state' = 1
    /\ UNCHANGED <<kind, alive, promises, futures, error_state, ring, promiseHandles,
                   futureHandles, firing, pinned, inCallback, cb>>

ActorResume ==
    /\ alive /\ Actor \in promiseHandles /\ actor_wait_state = 1
    /\ actor_wait_state' = 0
    /\ UNCHANGED <<kind, alive, promises, futures, error_state, ring, promiseHandles,
                   futureHandles, firing, pinned, inCallback, cb>>

(***************************************************************************)
(* The actor is the only owner and nobody wants its result.                *)
(***************************************************************************)
Die ==
    /\ alive' = FALSE
    /\ promises' = 0
    /\ promiseHandles' = {}
    /\ UNCHANGED <<kind, futures, error_state, ring, futureHandles, firing, pinned,
                   inCallback, actor_wait_state, cb>>

FinishActor(outcome) ==
    /\ ActorRunning /\ canBeSet
    /\ IF promises = 1 /\ futures = 0
         THEN Die
         ELSE StartLoop("sendAndDelPromiseRef", Actor, outcome)

ActorReturn == FinishActor("set")

ActorThrow ==
    \E e \in {"error", "actor_cancelled"} :
        /\ e = "actor_cancelled" => actor_wait_state = -1
        /\ FinishActor(e)

ActorReturnNever ==
    /\ ActorRunning /\ canBeSet
    /\ error_state' = NEVER
    /\ promises' = promises - 1
    /\ promiseHandles' = promiseHandles \ {Actor}
    /\ alive' = ~(promises = 1 /\ futures = 0)
    /\ UNCHANGED <<kind, futures, ring, futureHandles, firing, pinned, inCallback,
                   actor_wait_state, cb>>

-----------------------------------------------------------------------------
\* Waiting

(***************************************************************************)
(* addCallbackAndDelFutureRef and addYieldedCallbackAndDelFutureRef: the   *)
(* waiter's Future becomes the ring's single reference, or is dropped when *)
(* the ring already has one.  A wait statement gets here only if the       *)
(* future is not ready.                                                    *)
(***************************************************************************)
AddCallback(f, c, newRing) ==
    /\ UserCode
    /\ f \in futureHandles /\ ~isSet /\ cb[c] = "idle"
    /\ futureHandles' = futureHandles \ {f}
    /\ IF ring # <<>> THEN delFutureRef ELSE UNCHANGED <<futures, alive, actor_wait_state>>
    /\ ring' = newRing
    /\ cb' = [cb EXCEPT ![c] = "waiting"]
    /\ UNCHANGED <<kind, promises, error_state, promiseHandles, firing, pinned, inCallback>>

AddCallbackFront(f, c) == AddCallback(f, c, <<c>> \o ring)
AddCallbackBack(f, c) == AddCallback(f, c, Append(ring, c))

\* Fault: the neighbour of the callback is unlinked.
UnlinkNeighbour(s, i) == IF i < Len(s) THEN RemoveAt(s, i + 1) ELSE Front(s)

(***************************************************************************)
(* Callback::remove of the i-th callback: unlink it and, if the ring is    *)
(* now empty, unwait() the SAV, which gives up the ring's reference.       *)
(***************************************************************************)
Unlink(s, i) == RemoveAt(s, i)

Detach(i, told) ==
    /\ cb' = [cb EXCEPT ![ring[i]] = told]
    /\ ring' = Unlink(ring, i)
    /\ IF Len(ring) = 1 THEN delFutureRef ELSE UNCHANGED <<futures, alive, actor_wait_state>>

(***************************************************************************)
(* A waiter leaves: its actor was cancelled or took another branch of a    *)
(* choose.                                                                 *)
(***************************************************************************)
RemoveCallback(i) ==
    /\ UserCode
    /\ i \in DOMAIN ring
    /\ Detach(i, "idle")
    /\ UNCHANGED <<kind, promises, error_state, promiseHandles, futureHandles, firing,
                   pinned, inCallback>>

\* Fault: the callback runs while it is still linked.
FireNextStillLinked ==
    /\ firing # "none" /\ ring # <<>>
    /\ cb' = [cb EXCEPT ![ring[1]] = error_state]
    /\ inCallback' = TRUE
    /\ UNCHANGED <<kind, alive, promises, futures, error_state, ring, promiseHandles,
                   futureHandles, firing, pinned, actor_wait_state>>

(***************************************************************************)
(* One turn of "while (next != this) next->fire(value)": the callback      *)
(* unlinks itself, then runs the code that was waiting.                    *)
(***************************************************************************)
FireNext ==
    /\ firing # "none" /\ ring # <<>>
    /\ Detach(1, error_state)
    /\ inCallback' = TRUE
    /\ UNCHANGED <<kind, promises, error_state, promiseHandles, futureHandles, firing, pinned>>

\* Fault: callbacks are called once, by an if in place of a while.
LoopExitEarly ==
    /\ firing # "none" /\ inCallback
    /\ firing' = "none" /\ pinned' = {} /\ inCallback' = FALSE
    /\ IF firing = "send"
         THEN UNCHANGED <<promises, promiseHandles, alive>>
         ELSE /\ promises' = promises - 1
              /\ promiseHandles' = promiseHandles \ pinned
              /\ alive' = ~(promises' = 0 /\ futures = 0)
    /\ UNCHANGED <<kind, futures, error_state, ring, futureHandles, actor_wait_state, cb>>

\* Fault: nobody destroys the SAV when the loop's reference was the last.
LoopExitLeaks ==
    /\ firing # "none" /\ ring = <<>>
    /\ firing' = "none" /\ pinned' = {} /\ inCallback' = FALSE
    /\ IF firing = "send"
         THEN UNCHANGED <<promises, promiseHandles>>
         ELSE /\ promises' = promises - 1
              /\ promiseHandles' = promiseHandles \ pinned
    /\ UNCHANGED <<kind, alive, futures, error_state, ring, futureHandles,
                   actor_wait_state, cb>>

(***************************************************************************)
(* The ring is empty: what the operation does after its loop.              *)
(***************************************************************************)
LoopExit ==
    /\ firing # "none" /\ ring = <<>>
    /\ firing' = "none" /\ pinned' = {} /\ inCallback' = FALSE
    /\ IF firing = "send"
         THEN UNCHANGED <<promises, promiseHandles, alive>>
         ELSE /\ promises' = IF firing = "delPromiseRef" THEN 0 ELSE promises - 1
              /\ promiseHandles' = promiseHandles \ pinned
              /\ alive' = ~(promises' = 0 /\ futures = 0)
    /\ UNCHANGED <<kind, futures, error_state, ring, futureHandles, actor_wait_state, cb>>

-----------------------------------------------------------------------------
PromiseStep ==
    \E p \in Promises :
        \/ \E q \in Promises : CopyPromise(p, q)
        \/ \E f \in Futures : GetFuture(p, f)
        \/ DropPromise(p)
        \/ Send(p)
        \/ SendError(p)
        \/ SendNever(p)

FutureStep ==
    \E f \in Futures :
        \/ \E g \in Futures : CopyFuture(f, g)
        \/ DropFuture(f)
        \/ CancelFuture(f)
        \/ \E c \in Callbacks : AddCallbackFront(f, c) \/ AddCallbackBack(f, c)

ActorStep == ActorWait \/ ActorResume \/ ActorReturn \/ ActorThrow \/ ActorReturnNever

WaiterStep == \E i \in DOMAIN ring : RemoveCallback(i)

LoopStep == FireNext \/ LoopExit

Next == PromiseStep \/ FutureStep \/ ActorStep \/ WaiterStep \/ LoopStep

Spec == Init /\ [][Next]_vars

(***************************************************************************)
(* A callback always returns to the loop that called it, and a cancelled   *)
(* actor cannot wait again: every wait statement throws.                   *)
(***************************************************************************)
FairSpec == Spec /\ WF_vars(LoopStep) /\ WF_vars(ActorThrow)

-----------------------------------------------------------------------------
(***************************************************************************)
(* The counters of a live SAV are exactly its handles, "+1 if there are    *)
(* any callbacks" for futures, whatever the callbacks of a loop did.       *)
(***************************************************************************)
RingRef == IF ring = <<>> THEN 0 ELSE 1

RefCounts ==
    alive => /\ promises = Cardinality(promiseHandles)
             /\ futures = Cardinality(futureHandles) + RingRef

(***************************************************************************)
(* No use after free and no leak: the SAV is destroyed exactly when the    *)
(* last handle and the last callback are gone, so no handle, no waiter and *)
(* no callback loop ever points to a destroyed SAV.                        *)
(***************************************************************************)
Referenced == promiseHandles # {} \/ futureHandles # {} \/ ring # <<>> \/ firing # "none"

Lifetime == alive <=> Referenced

(***************************************************************************)
(* Nobody waits on a result that cannot come: outside a callback loop the  *)
(* waiters of a SAV have a promise that can still be kept, or Never().     *)
(***************************************************************************)
NoOrphanWaiter ==
    (firing = "none" /\ ring # <<>>) =>
        \/ error_state = NEVER
        \/ error_state = UNSET /\ promiseHandles # {}

(***************************************************************************)
(* Callbacks that were told something were told the SAV's one outcome, and *)
(* the ones marked waiting are the ones linked in the ring.                *)
(***************************************************************************)
ToldTheOutcome ==
    \A c \in Callbacks :
        /\ cb[c] \in Delivered => cb[c] = error_state
        /\ cb[c] = "waiting" <=> \E i \in DOMAIN ring : ring[i] = c

(***************************************************************************)
(* The assertions of the code: delPromiseRef's ASSERT(promises == 1) after *)
(* its loop, and ASSERT(canBeSet()) when an actor finishes.                *)
(***************************************************************************)
AssertionsHold ==
    /\ firing = "delPromiseRef" => promises = 1
    /\ (Actor \in promiseHandles \ pinned) => canBeSet

(***************************************************************************)
(* An actor whose result nobody can read any more has been cancelled.      *)
(***************************************************************************)
UnwantedIsCancelled ==
    (Actor \in promiseHandles /\ futures = 0) => actor_wait_state = -1

(***************************************************************************)
(* What a callback was told it is never told again, and never otherwise.   *)
(***************************************************************************)
ToldOnce ==
    [][\A c \in Callbacks : cb[c] \in Delivered => cb'[c] = cb[c]]_vars

(***************************************************************************)
(* A cancelled actor comes to an end.                                      *)
(***************************************************************************)
CancelledActorEnds == (actor_wait_state = -1) ~> (Actor \notin promiseHandles)

(***************************************************************************)
(* The SAV with its handles and its ring implements the abstract contract. *)
(***************************************************************************)
Contract == INSTANCE SingleAssignment
ImplementsContract == Contract!Spec

(***************************************************************************)
(* Whoever waits when the outcome is there is told of it, and an actor     *)
(* that is cancelled comes to an end.                                      *)
(***************************************************************************)
PromisesKept == Contract!EveryoneIsTold /\ CancelledActorEnds

(***************************************************************************)
(* The counts are the handles, the SAV lives exactly as long as one refers *)
(* to it, no assertion of the code fails and an unwanted actor is          *)
(* cancelled, whatever the callbacks of a loop do.                         *)
(***************************************************************************)
SavSafe == TypeOK /\ RefCounts /\ Lifetime /\ AssertionsHold /\ UnwantedIsCancelled
=============================================================================
