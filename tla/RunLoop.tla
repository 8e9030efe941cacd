------------------------------- MODULE RunLoop -------------------------------
(***************************************************************************)
(* What the tasks of the network thread may do to its run loop             *)
(* (flow/Net2.actor.cpp): delay, yield, check_yield, stop, and a task that *)
(* never stops issuing others.  How the loop sleeps and is woken is the    *)
(* subject of Net2Wakeup; here a push of another thread is one step.       *)
(*                                                                         *)
(* Times are relative: used is the time since updateNow, and a timer holds *)
(* what is left of it, so that the loop may run for ever.                  *)
(***************************************************************************)
EXTENDS Integers, Sequences, FiniteSets, SequencesExt, Functions

CONSTANTS Tasks,      \* objects that may be queued, each again when it is not
          TaskID,     \* their priorities
          Shift,      \* 2^32: a priority is taskID * Shift - tasksIssued
          MaxIssued,  \* where the model's tasksIssued stays: order is then the queue's
          Slice,      \* FLOW_KNOBS->TSC_YIELD_TIME
          MaxUsed,    \* bound on the time of one turn of the loop
          Seconds     \* arguments of delay

\* What the constants have to be.
RunLoopAssumption ==
    /\ TaskID \in [Tasks -> Nat] /\ Shift \in Nat /\ MaxIssued \in Nat /\ Slice \in Nat
    /\ MaxUsed > Slice /\ Seconds \subseteq 1..MaxUsed

VARIABLES
    phase,         \* "top", "sleep", "react", "tasks", "running" or "returned"
    ready,         \* Net2::ready, in the order of pushes: [task, priority]
    timers,        \* Net2::timers: of each task in it [at, due, priority]
    threadReady,   \* tasks other threads posted
    issued, used, currentTaskID, numYields, stopped,
    owes,          \* of a task that yield queued: those it must let run first
    overtaken,     \* tasks that had to run first and did not
    early          \* delays that ended before their time

vars == <<phase, ready, timers, threadReady, issued, used, currentTaskID, numYields, stopped, owes, overtaken, early>>

Init ==
    /\ phase = "top" /\ ready = <<>> /\ timers = <<>> /\ threadReady = <<>>
    /\ issued = 0 /\ used = 0 /\ currentTaskID = 0 /\ numYields = 0 /\ stopped = FALSE
    /\ owes = [t \in Tasks |-> {}] /\ overtaken = {} /\ early = {}

Queued == {ready[i].task : i \in DOMAIN ready}
Idle(t) == t \notin Queued \cup DOMAIN timers \cup ToSet(threadReady)

-----------------------------------------------------------------------------
(***************************************************************************)
(* The priority queue.                                                     *)
(***************************************************************************)
Stamp(k) == IF issued + k < MaxIssued THEN issued + k ELSE MaxIssued
OrderedTask(t, k) == [task |-> t, priority |-> TaskID[t] * Shift - Stamp(k)]

\* ready.top(): of the highest priority, and of those the first
IsTop(q, i) ==
    /\ i \in DOMAIN q
    /\ \A j \in DOMAIN q : q[j].priority <= q[i].priority /\ (q[j].priority = q[i].priority => i <= j)

\* Fault: the tasks of other threads wait for the next turn of the loop.
DrainNothing == ready

\* processThreadReady
Drained == ready \o [k \in DOMAIN threadReady |-> OrderedTask(threadReady[k], k)]

processThreadReady ==
    /\ ready' = Drained /\ issued' = Stamp(Len(Drained) - Len(ready))
    /\ threadReady' = IF Drained = ready THEN threadReady ELSE <<>>

-----------------------------------------------------------------------------
(***************************************************************************)
(* run().                                                                  *)
(***************************************************************************)
ghosts == <<owes, overtaken, early>>

Top ==
    /\ phase = "top"
    /\ phase' = IF stopped THEN "returned"
                ELSE IF ready = <<>> /\ threadReady = <<>> THEN "sleep" ELSE "react"
    /\ UNCHANGED <<ready, timers, threadReady, issued, used, currentTaskID, numYields, stopped>> /\ UNCHANGED ghosts

\* sleepAndReact returns for a timer or for a push of another thread.
Wake ==
    /\ phase = "sleep" /\ (threadReady # <<>> \/ \E t \in DOMAIN timers : timers[t].at <= used)
    /\ phase' = "react"
    /\ UNCHANGED <<ready, timers, threadReady, issued, used, currentTaskID, numYields, stopped>> /\ UNCHANGED ghosts

\* Timers with at < now, after updateNow
Due == {t \in DOMAIN timers : timers[t].at < used}

React ==
    /\ phase = "react" /\ phase' = "tasks"
    /\ ready' = ready \o [k \in 1..Cardinality(Due) |-> [task |-> SetToSeq(Due)[k], priority |-> timers[SetToSeq(Due)[k]].priority]]
                      \o [k \in DOMAIN threadReady |-> OrderedTask(threadReady[k], k)]
    /\ timers' = [t \in (DOMAIN timers) \ Due |-> [timers[t] EXCEPT !.at = @ - used, !.due = @ - used]]
    /\ early' = early \cup {t \in Due : timers[t].due > used}
    /\ issued' = Stamp(Len(threadReady)) /\ threadReady' = <<>>
    /\ used' = 0 /\ numYields' = 0
    /\ UNCHANGED <<currentTaskID, stopped, owes, overtaken>>

Start(i) ==
    /\ phase = "tasks" /\ IsTop(ready, i) /\ phase' = "running"
    /\ ready' = RemoveAt(ready, i) /\ currentTaskID' = TaskID[ready[i].task]
    /\ overtaken' = overtaken \cup owes[ready[i].task]
    /\ owes' = [t \in Tasks |-> IF t = ready[i].task THEN {} ELSE owes[t] \ {ready[i].task}]
    /\ UNCHANGED <<timers, threadReady, issued, used, numYields, stopped, early>>

NoTask ==
    /\ phase = "tasks" /\ ready = <<>> /\ phase' = "top"
    /\ UNCHANGED <<ready, timers, threadReady, issued, used, currentTaskID, numYields, stopped>> /\ UNCHANGED ghosts

Expired == used > Slice

\* The task returns, and check_yield(TaskMaxPriority, true) decides.
End ==
    /\ phase = "running" /\ phase' = IF Expired THEN "top" ELSE "tasks"
    /\ processThreadReady /\ numYields' = IF Expired THEN 1 ELSE numYields
    /\ UNCHANGED <<timers, used, currentTaskID, stopped>> /\ UNCHANGED ghosts

-----------------------------------------------------------------------------
(***************************************************************************)
(* What a running task calls.                                              *)
(***************************************************************************)
\* delay(0), or onMainThread on this thread before the drain it makes
DelayZero(t) ==
    /\ phase = "running" /\ Idle(t)
    /\ ready' = Append(ready, OrderedTask(t, 1)) /\ issued' = Stamp(1)
    /\ UNCHANGED <<phase, timers, threadReady, used, currentTaskID, numYields, stopped>> /\ UNCHANGED ghosts

\* delay(seconds): at is counted from now(), the time of the last updateNow.
Delay(t, d) ==
    /\ phase = "running" /\ Idle(t)
    /\ timers' = [u \in DOMAIN timers \cup {t} |->
                    IF u = t THEN [at |-> d, due |-> used + d, priority |-> OrderedTask(t, 1).priority] ELSE timers[u]]
    /\ issued' = Stamp(1)
    /\ UNCHANGED <<phase, ready, threadReady, used, currentTaskID, numYields, stopped>> /\ UNCHANGED ghosts

Higher(t) == {u \in Queued \cup ToSet(threadReady) : TaskID[u] > TaskID[t]}

\* ready.top().priority > taskID << 32
Outranked(t) == \E i \in DOMAIN Drained : Drained[i].priority > TaskID[t] * Shift

\* yield: a delay(0) of the given priority.  The first two tests of
\* check_yield leave the tasks of other threads where they are; bigStack is
\* what the second one finds.
YieldWaits(t, bigStack) ==
    /\ phase = "running" /\ Idle(t)
    /\ IF numYields > 0 \/ bigStack
       THEN /\ ready' = Append(ready, OrderedTask(t, 1)) /\ issued' = Stamp(1)
            /\ UNCHANGED threadReady
       ELSE /\ Outranked(t) \/ Expired
            /\ ready' = Append(Drained, OrderedTask(t, Len(Drained) - Len(ready) + 1))
            /\ issued' = Stamp(Len(Drained) - Len(ready) + 1)
            /\ threadReady' = IF Drained = ready THEN threadReady ELSE <<>>
    /\ numYields' = IF numYields > 0 \/ (~bigStack /\ ~Outranked(t)) THEN 1 ELSE 0
    /\ owes' = [owes EXCEPT ![t] = Higher(t)]
    /\ UNCHANGED <<phase, timers, used, currentTaskID, stopped, overtaken, early>>

YieldPasses(t) ==
    /\ phase = "running" /\ Idle(t) /\ numYields = 0 /\ ~Outranked(t) /\ ~Expired
    /\ processThreadReady /\ currentTaskID' = TaskID[t]
    /\ overtaken' = overtaken \cup Higher(t)
    /\ UNCHANGED <<phase, timers, used, numYields, stopped, owes, early>>

\* stop() on this thread: the tasks that are queued are dropped, not deleted.
stopImmediately ==
    /\ phase = "running" /\ ~stopped /\ stopped' = TRUE /\ ready' = <<>> /\ timers' = <<>>
    /\ owes' = [t \in Tasks |-> {}]
    /\ UNCHANGED <<phase, threadReady, issued, used, currentTaskID, numYields, overtaken, early>>

-----------------------------------------------------------------------------
\* onMainThread on another thread
Post(t) ==
    /\ ~stopped /\ Idle(t) /\ threadReady' = Append(threadReady, t)
    /\ UNCHANGED <<phase, ready, timers, issued, used, currentTaskID, numYields, stopped>> /\ UNCHANGED ghosts

Tick ==
    /\ phase # "returned" /\ used < MaxUsed /\ used' = used + 1
    /\ UNCHANGED <<phase, ready, timers, threadReady, issued, currentTaskID, numYields, stopped>> /\ UNCHANGED ghosts

Loop == Top \/ Wake \/ React \/ (\E i \in DOMAIN ready : Start(i)) \/ NoTask \/ End
Next ==
    \/ Loop \/ Tick \/ stopImmediately
    \/ \E t \in Tasks : DelayZero(t) \/ Post(t) \/ YieldPasses(t)
                        \/ (\E d \in Seconds : Delay(t, d)) \/ (\E b \in BOOLEAN : YieldWaits(t, b))

Spec == Init /\ [][Next]_vars

-----------------------------------------------------------------------------
(***************************************************************************)
(* yield is done at once, or after the tasks of a higher priority that     *)
(* were queued when it was called, by other threads too, have been run.    *)
(***************************************************************************)
YieldGivesWay == overtaken = {}

(***************************************************************************)
(* A delay ends no earlier than its seconds after the call.                *)
(***************************************************************************)
DelayElapses == early = {}

(***************************************************************************)
(* Every delay ends, unless the network is stopped, though tasks may issue *)
(* others for ever.                                                        *)
(***************************************************************************)
Delayed(t) == t \in DOMAIN timers /\ ~stopped

(***************************************************************************)
(* run returns once the network is stopped, whatever tasks the last ones   *)
(* still issue.                                                            *)
(***************************************************************************)
Stopped == stopped
Returned == phase = "returned"
=============================================================================
