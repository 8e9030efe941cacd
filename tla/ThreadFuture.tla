---------------------------- MODULE ThreadFuture ----------------------------
(***************************************************************************)
(* onMainThread (flow/ThreadHelper.actor.h): a client thread has a         *)
(* function run on the network thread by the actor doOnMainThread, and     *)
(* shares the ThreadSingleAssignmentVar that will hold its result.         *)
(*                                                                         *)
(* A section under the variable's spin lock is one step.  What the code    *)
(* does outside the lock, reading the status before a cancel or a          *)
(* callback's call, telling the callbacks, and dropping a reference, is a  *)
(* step of its own.  Callbacks are named by the thread that waits.         *)
(***************************************************************************)
EXTENDS Integers, Sequences, FiniteSets, SequencesExt

CONSTANTS Clients,   \* client threads
          Owner,     \* the client that calls onMainThread
          Releases   \* whether clients give a value's memory back

Main == "main"

\* What the constants have to be.
ThreadFutureAssumption ==
    /\ IsFiniteSet(Clients) /\ {Main, "nobody"} \cap Clients = {}
    /\ Owner \in Clients /\ Releases \in BOOLEAN

VARIABLES
    status,      \* "unset", or the outcome: "value", "error", "cancelled", "released"
    first,       \* the outcome that was sent
    refs,        \* the reference count
    values,      \* valueReferenceCount
    cbs, multi,  \* the callback: none, one, or a ThreadMultiCallback
    func,        \* send's copy of a single callback
    actor,       \* doOnMainThread: "signal", "working", "firing", "returning", "done"
    tasks,       \* what waits for the network thread
    cancelling,  \* the client whose cancel runs there, or Main
    pc,          \* each client: "none", "has", "calling", "setting",
                 \* "blocked", "posting", "dropping" or "gone"
    reg,         \* its callback: "no", "set", "cleared" or "told"
    told,        \* what the callback was told
    got,         \* whether it holds a value reference
    cancelled,   \* clients that have cancelled the slow way
    destroyer    \* who destroyed the variable, or "nobody"

vars == <<status, first, refs, values, cbs, multi, func, actor, tasks, cancelling, pc, reg,
          told, got, cancelled, destroyer>>

Ready(s) == s # "unset"

\* The actor's reference, and the returned ThreadFuture's.
InitialRefs == 2

Init ==
    /\ status = "unset" /\ first = "unset"
    /\ refs = InitialRefs /\ values = 0
    /\ cbs = <<>> /\ multi = FALSE /\ func = <<>>
    /\ actor = "signal" /\ tasks = <<Main>> /\ cancelling = Main
    /\ pc = [c \in Clients |-> IF c = Owner THEN "has" ELSE "none"]
    /\ reg = [c \in Clients |-> "no"] /\ told = [c \in Clients |-> "unset"]
    /\ got = [c \in Clients |-> FALSE]
    /\ cancelled = {} /\ destroyer = "nobody"

Goto(c, l) == pc' = [pc EXCEPT ![c] = l]

Delref(who) ==
    /\ refs' = refs - 1
    /\ destroyer' = IF refs = 1 THEN who ELSE destroyer

-----------------------------------------------------------------------------
(***************************************************************************)
(* The network thread.                                                     *)
(***************************************************************************)
MainIdle == actor \notin {"firing", "returning"} /\ cancelling = Main

\* send and sendError: the outcome, and the callback to tell outside the lock.
Send(outcome) ==
    /\ status' = outcome /\ first' = outcome
    /\ func' = IF multi THEN <<>> ELSE cbs
    /\ cbs' = IF multi THEN cbs ELSE <<>>
    /\ actor' = "firing"

\* The signal arrives and f is called.
RunSignal ==
    /\ MainIdle /\ tasks # <<>> /\ Head(tasks) = Main
    /\ tasks' = Tail(tasks)
    /\ actor' = IF actor = "signal" THEN "working" ELSE actor
    /\ UNCHANGED <<status, first, refs, values, cbs, multi, func, cancelling, pc, reg, told,
                   got, cancelled, destroyer>>

\* What f returned becomes ready.
FunctionEnds ==
    /\ MainIdle /\ actor = "working"
    /\ \E o \in {"value", "error"} : Send(o)
    /\ UNCHANGED <<refs, values, multi, tasks, cancelling, pc, reg, told, got, cancelled,
                   destroyer>>

\* Fault: the task only drops its reference.
CancelActorNot ==
    UNCHANGED <<status, first, cbs, func, actor>>

\* cancelFuture.cancel(): the actor, if it still waits, sends actor_cancelled.
CancelActor ==
    IF actor \in {"signal", "working"} THEN Send("cancelled")
    ELSE UNCHANGED <<status, first, cbs, func, actor>>

RunCancel ==
    /\ MainIdle /\ tasks # <<>> /\ Head(tasks) # Main
    /\ tasks' = Tail(tasks) /\ cancelling' = Head(tasks)
    /\ CancelActor
    /\ UNCHANGED <<refs, values, multi, pc, reg, told, got, cancelled, destroyer>>

\* The end of that task: the reference cancel() was called with.
CancelDelref ==
    /\ cancelling # Main /\ actor \notin {"firing", "returning"}
    /\ Delref(Main) /\ cancelling' = Main
    /\ UNCHANGED <<status, first, values, cbs, multi, func, actor, tasks, pc, reg, told, got,
                   cancelled>>

Tell(c, what) ==
    /\ reg' = [reg EXCEPT ![c] = IF @ = "cleared" THEN @ ELSE "told"]
    /\ told' = [told EXCEPT ![c] = IF @ = "unset" THEN what ELSE "twice"]

\* A blocked thread's callback sets its event.
Wake(c) == pc' = [pc EXCEPT ![c] = IF @ = "blocked" THEN "has" ELSE @]

\* The single callback, or those of the ThreadMultiCallback from the back.
FireCallback ==
    /\ actor = "firing" /\ func \o cbs # <<>>
    /\ \E c \in {Last(func \o cbs)} : Tell(c, first) /\ Wake(c)
    /\ IF func # <<>> THEN func' = Front(func) /\ UNCHANGED cbs
       ELSE cbs' = Front(cbs) /\ UNCHANGED func
    /\ UNCHANGED <<status, first, refs, values, multi, actor, tasks, cancelling, got,
                   cancelled, destroyer>>

\* return Void(): the actor sends its own promise and forgets it.
Returns == UNCHANGED <<status, refs, destroyer>>

ActorReturns ==
    /\ actor = "firing" /\ func \o cbs = <<>>
    /\ actor' = "returning" /\ Returns
    /\ UNCHANGED <<first, values, cbs, multi, func, tasks, cancelling, pc, reg, told, got,
                   cancelled>>

\* destroyResultAfterReturning.
ActorDelref ==
    /\ actor = "returning" /\ actor' = "done"
    /\ Delref(Main)
    /\ UNCHANGED <<status, first, values, cbs, multi, func, tasks, cancelling, pc, reg, told,
                   got, cancelled>>

-----------------------------------------------------------------------------
(***************************************************************************)
(* The client threads.                                                     *)
(***************************************************************************)
Copy(c, d) ==
    /\ pc[c] = "has" /\ pc[d] = "none"
    /\ refs' = refs + 1 /\ Goto(d, "has")
    /\ UNCHANGED <<status, first, values, cbs, multi, func, actor, tasks, cancelling, reg,
                   told, got, cancelled, destroyer>>

Local == UNCHANGED <<first, refs, func, actor, tasks, cancelling, cancelled, destroyer>>

\* Fault: the status read before the lock was taken decides.
SetsCallbackUnchecked(s) == TRUE

SetsCallback(s) == ~Ready(s)

\* Under the lock: call the callback afterwards, or set it (a second one makes
\* a ThreadMultiCallback of both).
CallOrSet(c, next) ==
    IF SetsCallback(status)
    THEN /\ cbs' = Append(cbs, c) /\ multi' = (multi \/ cbs # <<>>)
         /\ reg' = [reg EXCEPT ![c] = "set"] /\ Goto(c, next)
         /\ UNCHANGED told
    ELSE Goto(c, "calling") /\ UNCHANGED <<cbs, multi, reg, told>>

CallOrSetAsCallback(c) ==
    /\ pc[c] = "has" /\ reg[c] = "no"
    /\ CallOrSet(c, "has")
    /\ UNCHANGED <<status, values, got>> /\ Local

\* After the lock is left the status is read again.
CallNow(c) ==
    /\ pc[c] = "calling"
    /\ Tell(c, status) /\ Goto(c, "has")
    /\ UNCHANGED <<status, values, cbs, multi, got>> /\ Local

\* blockUntilReady: a look without the lock, then a callback that sets an event.
BlockUntilReady(c) ==
    /\ pc[c] = "has" /\ reg[c] = "no" /\ ~Ready(status)
    /\ Goto(c, "setting")
    /\ UNCHANGED <<status, values, cbs, multi, reg, told, got>> /\ Local

BlockCallback(c) ==
    /\ pc[c] = "setting"
    /\ CallOrSet(c, "blocked")
    /\ UNCHANGED <<status, values, got>> /\ Local

MayClear(s) == ~Ready(s)

\* clearCallback: the last callback takes the place of the one removed.
Cleared(s, c) ==
    LET n == CHOOSE m \in DOMAIN s : s[m] = c
    IN IF n = Len(s) THEN Front(s) ELSE [Front(s) EXCEPT ![n] = Last(s)]

ClearCallback(c) ==
    /\ pc[c] = "has" /\ reg[c] = "set" /\ MayClear(status)
    /\ reg' = [reg EXCEPT ![c] = "cleared"]
    /\ cbs' = IF c \in ToSet(cbs) THEN Cleared(cbs, c) ELSE cbs
    /\ UNCHANGED <<status, values, multi, pc, told, got>> /\ Local

Get(c) ==
    /\ Releases /\ pc[c] = "has" /\ ~got[c] /\ status = "value"
    /\ values' = values + 1 /\ got' = [got EXCEPT ![c] = TRUE]
    /\ UNCHANGED <<status, cbs, multi, pc, reg, told>> /\ Local

\* releaseMemory and cleanupUnsafe; its addref and the delref of its cancel,
\* which finds the variable ready, cancel out.
ReleaseMemory(c) ==
    /\ pc[c] = "has" /\ got[c]
    /\ values' = values - 1 /\ got' = [got EXCEPT ![c] = FALSE]
    /\ status' = IF values = 1 /\ status = "value" THEN "released" ELSE status
    /\ UNCHANGED <<cbs, multi, pc, reg, told>> /\ Local

\* cancel() looks at the status without the lock.
Cancel(c) ==
    /\ pc[c] = "has" /\ Goto(c, IF Ready(status) THEN "dropping" ELSE "posting")
    /\ UNCHANGED <<status, values, cbs, multi, reg, told, got>> /\ Local

PostCancel(c) ==
    /\ pc[c] = "posting" /\ Goto(c, "gone")
    /\ tasks' = Append(tasks, c) /\ cancelled' = cancelled \cup {c}
    /\ UNCHANGED <<status, first, refs, values, cbs, multi, func, actor, cancelling, reg, told,
                   got, destroyer>>

\* ~ThreadFuture.
Drop(c) ==
    /\ pc[c] = "has" /\ Goto(c, "dropping")
    /\ UNCHANGED <<status, values, cbs, multi, reg, told, got>> /\ Local

DropRef(c) ==
    /\ pc[c] = "dropping" /\ Goto(c, "gone")
    /\ Delref(c)
    /\ UNCHANGED <<status, first, values, cbs, multi, func, actor, tasks, cancelling, reg,
                   told, got, cancelled>>

\* What the network thread goes on with of itself, and how a client finishes
\* the call it is in.  Nothing makes f's future ready.
NetworkStep ==
    RunSignal \/ RunCancel \/ CancelDelref \/ FireCallback \/ ActorReturns \/ ActorDelref

CallStep(c) == CallNow(c) \/ BlockCallback(c) \/ PostCancel(c) \/ DropRef(c)

ClientNext(c) ==
    \/ \E d \in Clients : Copy(c, d)
    \/ CallOrSetAsCallback(c) \/ BlockUntilReady(c)
    \/ ClearCallback(c) \/ Get(c) \/ ReleaseMemory(c) \/ Cancel(c) \/ Drop(c)

Next == NetworkStep \/ FunctionEnds \/ \E c \in Clients : CallStep(c) \/ ClientNext(c)

Spec == Init /\ [][Next]_vars

-----------------------------------------------------------------------------
Outcomes == {"unset", "value", "error", "cancelled", "released"}

TypeOK ==
    /\ status \in Outcomes /\ first \in Outcomes
    /\ refs \in 0..(2 + Cardinality(Clients)) /\ values \in 0..Cardinality(Clients)
    /\ ToSet(cbs) \subseteq Clients /\ ToSet(func) \subseteq Clients
    /\ actor \in {"signal", "working", "firing", "returning", "done"}
    /\ destroyer \in Clients \cup {Main, "nobody"}

\* Whoever is still going to touch the variable.
InUse ==
    \/ actor # "done" \/ cancelling # Main
    \/ \E c \in Clients : pc[c] \notin {"none", "gone"}
    \/ \E n \in DOMAIN tasks : tasks[n] # Main

(***************************************************************************)
(* The variable is destroyed exactly when nobody will touch it again,      *)
(* however a cancel that reads the status without the lock races with the  *)
(* send, and its callbacks have been told by then (the destructor asserts  *)
(* that none is left).                                                     *)
(***************************************************************************)
Lifetime ==
    /\ (destroyer = "nobody") = InUse
    /\ destroyer # "nobody" => cbs = <<>>

(***************************************************************************)
(* The destructor drops cancelFuture, a Future whose counts are not        *)
(* atomic: a client thread runs it only when the actor has returned and    *)
(* forgotten its promise.                                                  *)
(***************************************************************************)
NoForeignCancel == destroyer \in Clients => actor = "done"

(***************************************************************************)
(* A callback is told at most once, and never after clearCallback returned *)
(* true.                                                                   *)
(***************************************************************************)
ToldOnce ==
    \A c \in Clients : /\ told[c] # "twice"
                       /\ reg[c] = "cleared" => told[c] = "unset"

(***************************************************************************)
(* Every callback is told the outcome that was sent, whether it waited or  *)
(* came after it; one that came after it may find a value's memory given   *)
(* back already.                                                           *)
(***************************************************************************)
ToldTheOutcome ==
    \A c \in Clients :
        \/ told[c] \in {"unset", first}
        \/ Releases /\ first = "value" /\ told[c] = "released"

(***************************************************************************)
(* While callOrSetAsCallback is on its way from the lock to the callback,  *)
(* the status it will read does not change.  releaseMemory in another      *)
(* thread breaks this.                                                     *)
(***************************************************************************)
ReadyIsStable ==
    [][\A c \in Clients : pc[c] = "calling" /\ pc'[c] = "calling" => status' = status]_vars

(***************************************************************************)
(* A thread in blockUntilReady gets on when there is an outcome, although  *)
(* it may have looked just before.                                         *)
(***************************************************************************)
Blocked(c) == pc[c] \in {"setting", "blocked"} /\ Ready(status)
Woken(c) == pc[c] = "has"

(***************************************************************************)
(* If one of the threads has cancelled and all have let go, the variable   *)
(* is destroyed, even if f would never have returned.                      *)
(***************************************************************************)
Abandoned == cancelled # {} /\ \A c \in Clients : pc[c] \in {"none", "gone"}
Destroyed == destroyer # "nobody"

(***************************************************************************)
(* All of this at once, whichever threads race.                            *)
(***************************************************************************)
ThreadFutureSafe == TypeOK /\ Lifetime /\ NoForeignCancel /\ ToldOnce /\ ToldTheOutcome
=============================================================================
