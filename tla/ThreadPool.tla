----------------------------- MODULE ThreadPool -----------------------------
(***************************************************************************)
(* The generic thread pool (flow/IThreadPool.cpp): the network thread adds *)
(* threads, posts actions, stops the pool and drops it; the threads take   *)
(* actions from a boost::asio::io_service.                                 *)
(***************************************************************************)
EXTENDS Integers, Sequences, FiniteSets, SequencesExt

CONSTANTS Threads, Actions,
          ExplicitStop   \* whether stop() is called before the pool is dropped

\* Where a thread is when it runs no action.
Places == {"absent", "init", "idle", "exiting", "stopped"}

\* What the constants have to be.
ThreadPoolAssumption ==
    /\ IsFiniteSet(Threads) /\ IsFiniteSet(Actions) /\ ExplicitStop \in BOOLEAN
    /\ Actions \cap Places = {}

VARIABLES
    held,      \* the network thread has a reference to the pool
    refs,      \* its reference count
    mode,      \* "Run" or "Shutdown"
    ios,       \* the actions posted and not taken
    deleted,   \* the pool has been destroyed
    threads,   \* the pool's vector of threads
    thr,       \* each thread: its place, or the action it runs
    act,       \* each action: "new", "posted", "running", "done" or "cancelled"
    joining    \* the number of the thread stop() waits for (those before it
               \* are deleted), or 0

vars == <<held, refs, mode, ios, deleted, threads, thr, act, joining>>

Init ==
    /\ held = TRUE /\ refs = 1 /\ mode = "Run" /\ ios = <<>> /\ deleted = FALSE
    /\ threads = <<>> /\ thr = [t \in Threads |-> "absent"]
    /\ act = [a \in Actions |-> "new"]
    /\ joining = 0

-----------------------------------------------------------------------------
(***************************************************************************)
(* The network thread, which does nothing else while it is in stop().      *)
(***************************************************************************)
AddThread(t) ==
    /\ held /\ joining = 0 /\ thr[t] = "absent" /\ mode = "Run"
    /\ threads' = Append(threads, t) /\ thr' = [thr EXCEPT ![t] = "init"]
    /\ UNCHANGED <<held, refs, mode, ios, deleted, act, joining>>

Post(a) ==
    /\ held /\ joining = 0 /\ act[a] = "new"
    /\ ios' = Append(ios, a) /\ act' = [act EXCEPT ![a] = "posted"]
    /\ UNCHANGED <<held, refs, mode, deleted, threads, thr, joining>>

\* stop(): a reference for itself, ios.stop(), and then every thread in turn.
EnterStop(r) == mode' = "Shutdown" /\ refs' = r + 1 /\ joining' = 1

Stop ==
    /\ ExplicitStop /\ held /\ joining = 0 /\ mode = "Run"
    /\ EnterStop(refs)
    /\ UNCHANGED <<held, ios, deleted, threads, thr, act>>

\* Reference::~Reference: delref calls stop() when the count reaches 0.
Drop ==
    /\ held /\ joining = 0
    /\ held' = FALSE
    /\ IF mode = "Run" THEN EnterStop(refs - 1)
       ELSE refs' = refs - 1 /\ UNCHANGED <<mode, joining>>
    /\ UNCHANGED <<ios, deleted, threads, thr, act>>

\* Fault: stop() does not wait.
JoinedAtOnce(t) == TRUE

\* stopped.block() returns.
Joined(t) == thr[t] = "stopped"

Join ==
    /\ joining \in DOMAIN threads /\ Joined(threads[joining])
    /\ joining' = joining + 1
    /\ UNCHANGED <<held, refs, mode, ios, deleted, threads, thr, act>>

\* ~ActionWrapper of what the io_service still holds when it is destroyed.
Cancelled(queue) == [a \in Actions |-> IF a \in ToSet(queue) THEN "cancelled" ELSE act[a]]

\* The end of stop(): the last reference destroys the pool.
StopReturns ==
    /\ joining > Len(threads)
    /\ joining' = 0 /\ refs' = refs - 1
    /\ IF refs = 1 THEN deleted' = TRUE /\ ios' = <<>> /\ act' = Cancelled(ios)
       ELSE UNCHANGED <<deleted, ios, act>>
    /\ UNCHANGED <<held, mode, threads, thr>>

-----------------------------------------------------------------------------
(***************************************************************************)
(* A thread of the pool.  init() and an action may throw.                  *)
(***************************************************************************)
Goto(t, l) == thr' = [thr EXCEPT ![t] = l]
Own == UNCHANGED <<held, refs, mode, deleted, threads, joining>>

InitThread(t) ==
    /\ thr[t] = "init"
    /\ \E l \in {"idle", "exiting"} : Goto(t, l)
    /\ UNCHANGED <<ios, act>> /\ Own

\* run_one() with something to do ...
TakeAction(t) ==
    /\ thr[t] = "idle" /\ mode = "Run" /\ ios # <<>>
    /\ Goto(t, Head(ios)) /\ ios' = Tail(ios)
    /\ act' = [act EXCEPT ![Head(ios)] = "running"]
    /\ Own

\* ... or stopped, when it returns 0.
LeaveLoop(t) ==
    /\ thr[t] = "idle" /\ mode = "Shutdown"
    /\ Goto(t, "exiting")
    /\ UNCHANGED <<ios, act>> /\ Own

EndAction(t) ==
    /\ thr[t] \in Actions
    /\ Goto(t, IF mode = "Shutdown" THEN "exiting" ELSE "idle")
    /\ act' = [act EXCEPT ![thr[t]] = "done"]
    /\ UNCHANGED ios /\ Own

\* The catch block is left for the end of run().
OnError == "exiting"

\* The wrapper still has the action and cancels it.
ActionThrows(t) ==
    /\ thr[t] \in Actions
    /\ Goto(t, OnError)
    /\ act' = [act EXCEPT ![thr[t]] = "cancelled"]
    /\ UNCHANGED ios /\ Own

\* delete userObject; stopped.set().
SetStopped(t) ==
    /\ thr[t] = "exiting" /\ Goto(t, "stopped")
    /\ UNCHANGED <<ios, act>> /\ Own

ThreadStep(t) ==
    InitThread(t) \/ TakeAction(t) \/ LeaveLoop(t) \/ EndAction(t) \/ ActionThrows(t)
    \/ SetStopped(t)

Next ==
    \/ \E t \in Threads : AddThread(t) \/ ThreadStep(t)
    \/ \E a \in Actions : Post(a)
    \/ Stop \/ Drop \/ Join \/ StopReturns

Spec == Init /\ [][Next]_vars

\* Threads run, actions end, and a wait that can end does.
FairSpec == Spec /\ WF_vars(Join \/ StopReturns) /\ \A t \in Threads : WF_vars(ThreadStep(t))

-----------------------------------------------------------------------------
TypeOK ==
    /\ held \in BOOLEAN /\ refs \in 0..2 /\ mode \in {"Run", "Shutdown"}
    /\ ToSet(ios) \subseteq Actions /\ joining \in 0..(Cardinality(Threads) + 1)
    /\ act \in [Actions -> {"new", "posted", "running", "done", "cancelled"}]

(***************************************************************************)
(* No thread looks at the pool's io_service or mode when the pool has been *)
(* destroyed, and no Thread is deleted before its thread has left run().   *)
(***************************************************************************)
NoUseAfterFree ==
    \A n \in DOMAIN threads : n < joining \/ deleted => thr[threads[n]] = "stopped"

(***************************************************************************)
(* An action is in one place: in the io_service from post() on, then with  *)
(* the one thread that runs it, then called or cancelled; so none is run   *)
(* twice, and none is both called and cancelled, however threads die.      *)
(***************************************************************************)
ActionsOnce ==
    /\ IsInjective(ios)
    /\ \A a \in Actions : act[a] = "posted" <=> a \in ToSet(ios)
    /\ \A a \in Actions : act[a] = "running" <=> \E t \in Threads : thr[t] = a
    /\ \A t, u \in Threads : thr[t] \in Actions /\ thr[u] = thr[t] => u = t

(***************************************************************************)
(* stop() returns: it waits for threads in turn while they finish in any   *)
(* order, wait in run_one, or have died of an error.                       *)
(***************************************************************************)
Stopping == joining > 0

(***************************************************************************)
(* An action posted to a pool that is dropped is called or cancelled, so   *)
(* that its ThreadReturnPromise answers.                                   *)
(***************************************************************************)
Owed(a) == ~held /\ act[a] \in {"posted", "running"}
Settled(a) == act[a] \in {"done", "cancelled"}
CalledOrCancelled == \A a \in Actions : Owed(a) ~> Settled(a)

(***************************************************************************)
(* When the pool is destroyed, every action that was posted has been       *)
(* called or cancelled; and a pool that is only dropped is destroyed       *)
(* before delref returns, so that nothing posted to it is left over.  The  *)
(* second is what an explicit stop() breaks.                               *)
(***************************************************************************)
NothingLeftOver ==
    deleted \/ (~ExplicitStop /\ ~held /\ joining = 0)
        => \A a \in Actions : act[a] \in {"new", "done", "cancelled"}

(***************************************************************************)
(* No thread uses a pool that is gone, every action is in one place, and   *)
(* none is left over.                                                      *)
(***************************************************************************)
PoolSafe == TypeOK /\ NoUseAfterFree /\ ActionsOnce /\ NothingLeftOver
=============================================================================
