----------------------------- MODULE Net2Wakeup -----------------------------
(***************************************************************************)
(* The run loop of the network thread (Net2::run, flow/Net2.actor.cpp) and *)
(* onMainThread, by which any thread gives it a task, composed with the    *)
(* queue between them (threadReady) and the reactor it sleeps in.          *)
(*                                                                         *)
(* The loop decides to sleep while other threads push; a push that finds   *)
(* the consumer going to sleep posts an empty handler to the reactor.      *)
(* Tasks are queue items; those in Local are posted by a running task, on  *)
(* the network thread itself.                                              *)
(***************************************************************************)
EXTENDS ThreadSafeQueue

CONSTANTS Local,    \* tasks that tasks post with onMainThread
          Timed,    \* tasks of delays that were started before
          Urgent    \* tasks of the higher of two priorities

ASSUME LocalAssumption ==
    /\ Local \intersect Nodes = {}
    /\ Timed \intersect (Nodes \union Local) = {}
    /\ IsFiniteSet(Timed)

VARIABLES
    lpc,    \* where the run loop is
    caller, \* what processThreadReady returns to: "loop", "task" or "yield"
    timers, \* Net2::timers
    posted, \* there is a handler in the reactor's queue (ios.post)
    ready,  \* Net2::ready, in the order of tasksIssued
    ran     \* tasks that were run, in order

lvars == <<lpc, caller, timers, posted, ready, ran>>
vars == <<qvars, lvars>>

Tasks == Items \union Local \union Timed
Priority == [t \in Tasks |-> IF t \in Urgent THEN 2 ELSE 1] \* the taskID

LoopTypeOK ==
    /\ TypeOK
    /\ lpc \in {"top", "decide", "sleep", "nap", "react", "drain", "take", "run"}
    /\ caller \in {"loop", "task", "yield"}
    /\ timers \subseteq Timed
    /\ posted \in BOOLEAN
    /\ ready \in Seq(Tasks)
    /\ ran \in Seq(Tasks)

Init ==
    /\ QInit
    /\ lpc = "top"
    /\ caller = "loop"
    /\ timers = Timed
    /\ posted = FALSE
    /\ ready = <<>>
    /\ ran = <<>>

-----------------------------------------------------------------------------
\* onMainThread on another thread: threadReady.push, and wake if it says so

\* Fault: every push but the one that must wakes the reactor.
PostReturnsInverted(p) ==
    /\ PushReturns(p)
    /\ posted' = (posted \/ ~PushResult(p))
    /\ UNCHANGED <<lpc, caller, timers, ready, ran>>

PostBegins(p) == (\E n \in Items : Exchange(p, n)) /\ UNCHANGED lvars

PostLinks(p) == Link(p) /\ UNCHANGED lvars

PostReturns(p) ==
    /\ PushReturns(p)
    /\ posted' = (posted \/ PushResult(p))
    /\ UNCHANGED <<lpc, caller, timers, ready, ran>>

-----------------------------------------------------------------------------
\* The run loop

(***************************************************************************)
(* ready.empty() decides whether canSleep() is asked at all.               *)
(***************************************************************************)
Top ==
    /\ lpc = "top"
    /\ IF ready = <<>>
         THEN CallCanSleep /\ lpc' = "decide"
         ELSE UNCHANGED qvars /\ lpc' = "react"
    /\ UNCHANGED <<caller, timers, posted, ready, ran>>

\* Fault: the loop sleeps although a push came in between.
DecideBlindly ==
    /\ lpc = "decide" /\ cpc = "idle"
    /\ lpc' = IF timers # {} THEN "nap" ELSE "sleep"
    /\ UNCHANGED <<qvars, caller, timers, posted, ready, ran>>

(***************************************************************************)
(* With permission to sleep the loop sleeps until the first timer is due   *)
(* (nap), or until something is posted if there are no timers.             *)
(***************************************************************************)
Decide ==
    /\ lpc = "decide" /\ cpc = "idle"
    /\ lpc' = CASE ~maySleep -> "react"
                 [] maySleep /\ timers # {} -> "nap"
                 [] OTHER -> "sleep"
    /\ UNCHANGED <<qvars, caller, timers, posted, ready, ran>>

(***************************************************************************)
(* sleepAndReact: run_one() returns when there is a handler, then poll_one *)
(* empties the reactor's queue.  The timers that are due by then join      *)
(* ready, in which their tasks come first: they were issued earlier.       *)
(***************************************************************************)
React ==
    /\ lpc = "sleep" => posted
    /\ lpc \in {"sleep", "nap", "react"}
    /\ posted' = FALSE
    /\ lpc' = "drain"
    /\ caller' = "loop"
    /\ \E due \in SUBSET timers :
         /\ timers' = timers \ due
         /\ ready' = SetToSeq(due) \o ready
    /\ UNCHANGED <<qvars, ran>>

(***************************************************************************)
(* processThreadReady: pop until nothing is there.  Priority is completed  *)
(* with ++tasksIssued here, so the order in ready is the order of arrival. *)
(***************************************************************************)
Drain == lpc = "drain" /\ CallPop /\ lpc' = "take" /\ UNCHANGED <<caller, timers, posted, ready, ran>>

DrainTakes ==
    /\ lpc = "take" /\ cpc = "idle"
    /\ IF result # Null
         THEN ready' = Append(ready, result) /\ lpc' = "drain"
         ELSE UNCHANGED ready /\ lpc' = "run"
    /\ UNCHANGED <<qvars, caller, timers, posted, ran>>

(***************************************************************************)
(* The rest of onMainThread on the network thread: after processThreadReady*)
(* its own task is pushed on ready, the task that called it ends, and      *)
(* check_yield drains once more.                                           *)
(***************************************************************************)
LocalTasks == Local \ (ToSet(ready) \union ToSet(ran))

FinishLocal ==
    /\ lpc = "run" /\ caller = "task"
    /\ \E t \in LocalTasks : ready' = Append(ready, t)
    /\ caller' = "yield"
    /\ lpc' = "drain"
    /\ UNCHANGED <<qvars, timers, posted, ran>>

(***************************************************************************)
(* ready.top(): the highest taskID, and among equals the first issued.     *)
(***************************************************************************)
IsTop(i) ==
    \A j \in DOMAIN ready :
        \/ Priority[ready[j]] < Priority[ready[i]]
        \/ Priority[ready[j]] = Priority[ready[i]] /\ i <= j

(***************************************************************************)
(* Run the top task.  It may call onMainThread, which first drains the     *)
(* other threads' tasks; check_yield, after it, drains them anyway.        *)
(***************************************************************************)
RunTask ==
    /\ lpc = "run" /\ caller = "loop" /\ ready # <<>>
    /\ \E i \in DOMAIN ready :
         /\ IsTop(i)
         /\ ready' = RemoveAt(ready, i)
         /\ ran' = Append(ran, ready[i])
         /\ caller' = "yield" \/ (LocalTasks # {} /\ caller' = "task")
    /\ lpc' = "drain"
    /\ UNCHANGED <<qvars, timers, posted>>

(***************************************************************************)
(* The rest of check_yield: the loop goes on with the next task or, when   *)
(* its time is over, starts from the top.                                  *)
(***************************************************************************)
CheckYield ==
    /\ lpc = "run" /\ caller = "yield"
    /\ caller' = "loop"
    /\ lpc' \in {"run", "top"}
    /\ UNCHANGED <<qvars, timers, posted, ready, ran>>

RunEnds ==
    /\ lpc = "run" /\ caller = "loop" /\ ready = <<>>
    /\ lpc' = "top"
    /\ UNCHANGED <<qvars, caller, timers, posted, ready, ran>>

QueueStep == InCall /\ UNCHANGED lvars

LoopStep ==
    \/ Top \/ Decide \/ React \/ Drain \/ DrainTakes \/ FinishLocal \/ RunTask \/ CheckYield
    \/ RunEnds \/ QueueStep

Next == LoopStep \/ \E p \in Producers : PostBegins(p) \/ PostLinks(p) \/ PostReturns(p)

Spec == Init /\ [][Next]_vars

(***************************************************************************)
(* The network thread runs unless it sleeps, and a thread that has begun a *)
(* push finishes it.                                                       *)
(***************************************************************************)
FairSpec ==
    /\ Spec
    /\ WF_vars(LoopStep)
    /\ \A p \in Producers : WF_vars(PostLinks(p) \/ PostReturns(p))

-----------------------------------------------------------------------------
(***************************************************************************)
(* No lost wakeup: when the loop sleeps without a handler posted and with  *)
(* a task in the queue, a producer that must wake it is on its way.        *)
(***************************************************************************)
SleepIsWoken ==
    (lpc = "sleep" /\ ~posted /\ popped # pushed) =>
        \E p \in Producers : ppc[p] # "idle" /\ PushResult(p)

(***************************************************************************)
(* Every task other threads gave is in the queue, in ready or was run, in  *)
(* exactly one of them and once.                                           *)
(***************************************************************************)
InTransit == IF lpc = "take" /\ cpc = "idle" /\ result # Null THEN {result} ELSE {}

Own == Local \union Timed

TasksConserved ==
    /\ ToSet(popped) = (ToSet(ready) \union ToSet(ran) \union InTransit) \ Own
    /\ Len(popped) + Cardinality(Own \intersect (ToSet(ready) \union ToSet(ran)))
         = Len(ready) + Len(ran) + Cardinality(InTransit)

(***************************************************************************)
(* Tasks of one priority that came through the queue run in the order in   *)
(* which they were pushed.                                                 *)
(***************************************************************************)
Position(s, x) == CHOOSE i \in DOMAIN s : s[i] = x

RunInOrder ==
    \A i, j \in DOMAIN pushed :
        (i < j /\ Priority[pushed[i]] = Priority[pushed[j]] /\ pushed[j] \in ToSet(ran)) =>
            /\ pushed[i] \in ToSet(ran)
            /\ Position(ran, pushed[i]) < Position(ran, pushed[j])

(***************************************************************************)
(* Every task that is posted is run.                                       *)
(***************************************************************************)
EveryTaskRuns == \A t \in Items : (t \in ToSet(pushed)) ~> (t \in ToSet(ran))

(***************************************************************************)
(* All of this at once, with the queue's own memory safety.                *)
(***************************************************************************)
LoopSafe == LoopTypeOK /\ SleepIsWoken /\ TasksConserved /\ RunInOrder /\ QueueSafe
=============================================================================
