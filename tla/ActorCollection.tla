--------------------------- MODULE ActorCollection ---------------------------
(***************************************************************************)
(* actorCollection and SignalableActorCollection (flow/ActorCollection.h,  *)
(* flow/ActorCollection.actor.cpp): a collection holds futures that may be *)
(* added at any time, fails when one fails, and returns when the last one  *)
(* is ready.  A SignalableActorCollection keeps a future of its own, the   *)
(* stop signal, in the collection, so that it returns only once signalled; *)
(* a new collection may then take its place, and the result of the old one *)
(* may be added to it.  Collection 0 is a plain one, which never returns   *)
(* and keeps the times an actorCollection is given.                        *)
(***************************************************************************)
EXTENDS Integers, Sequences, FiniteSets, FiniteSetsExt

CONSTANTS Futures,       \* of the program
          Generations,   \* collections that follow each other: 1..n
          Used,          \* collections the program adds futures to: 0 and those of Generations
          MaxTime        \* bound on the clock

\* What the constants have to be.
ActorCollectionAssumption == Generations = 1..Cardinality(Generations) /\ MaxTime \in Nat

VARIABLES
    done, failed,   \* futures that are ready, and those with an error
    cur,            \* the collection in use
    state,          \* of each collection: "unused", "running", "returned", "error" or "cancelled"
    members,        \* futures each holds
    added,          \* futures ever added to it
    held,           \* collections whose result the program keeps
    now, lastChangeTime, idleTime, allTime,   \* the clock, and the plain collection's times
    idle            \* ticks during which the plain collection was empty

vars == <<done, failed, cur, state, members, added, held, now, lastChangeTime, idleTime, allTime, idle>>
times == <<now, lastChangeTime, idleTime, allTime, idle>>

Stop(g) == <<"stop", g>>
Result(g) == <<"result", g>>
Collections == {0} \cup Generations

\* init() of the first collection, which has its stop signal already.
Init ==
    /\ done = {} /\ failed = {} /\ cur = 1 /\ held = {}
    /\ state = [g \in Collections |-> IF g <= 1 THEN "running" ELSE "unused"]
    /\ members = [g \in Collections |-> IF g = 1 THEN {Stop(1)} ELSE {}] /\ added = members
    /\ now = 0 /\ lastChangeTime = 0 /\ idleTime = 0 /\ allTime = 0 /\ idle = 0

count(g) == Cardinality(members[g])
Ready(f) == f \in done \cup failed

-----------------------------------------------------------------------------
(***************************************************************************)
(* actorCollection: a future is added, and one of them is ready.           *)
(***************************************************************************)
\* The idle time at a change to n futures.
IdleAt(n) == IF n = 1 THEN idleTime + (now - lastChangeTime) ELSE idleTime

\* The times of the plain collection, when it has n futures after m.
Timed(g, m, n) ==
    IF g = 0 /\ ((m = 0 /\ n = 1) \/ n = 0)
    THEN /\ lastChangeTime' = now /\ allTime' = allTime + (now - lastChangeTime)
         /\ idleTime' = IdleAt(n)
         /\ UNCHANGED <<now, idle>>
    ELSE UNCHANGED times

AddTo(g, f) ==
    /\ members' = [members EXCEPT ![g] = @ \cup {f}] /\ added' = [added EXCEPT ![g] = @ \cup {f}]

Add(g, f) ==
    /\ state[g] = "running" /\ f \notin added[g]
    /\ AddTo(g, f) /\ Timed(g, count(g), count(g) + 1)
    /\ UNCHANGED <<done, failed, cur, state, held>>

\* Fault: it returns when there is one future left.
ReturnsAtOne(g) == g # 0 /\ count(g) <= 2

\* returnWhenEmptied
Returns(g) == g # 0 /\ count(g) = 1

Complete(g, f) ==
    /\ state[g] = "running" /\ f \in members[g] /\ f \in done
    /\ members' = [members EXCEPT ![g] = @ \ {f}]
    /\ state' = [state EXCEPT ![g] = IF Returns(g) THEN "returned" ELSE @]
    /\ done' = IF Returns(g) THEN done \cup {Result(g)} ELSE done
    /\ Timed(g, count(g), count(g) - 1)
    /\ UNCHANGED <<failed, cur, added, held>>

\* The error is thrown, and all futures the collection holds are cancelled.
Throw(g, f) ==
    /\ state[g] = "running" /\ f \in members[g] /\ f \in failed
    /\ state' = [state EXCEPT ![g] = "error"] /\ members' = [members EXCEPT ![g] = {}]
    /\ failed' = failed \cup {Result(g)}
    /\ UNCHANGED <<done, cur, added, held>> /\ UNCHANGED times

-----------------------------------------------------------------------------
(***************************************************************************)
(* SignalableActorCollection.                                              *)
(***************************************************************************)
\* signal(): the caller gets the collection's result, which keeps it.
signal ==
    /\ Stop(cur) \notin done /\ done' = done \cup {Stop(cur)} /\ held' = held \cup {cur}
    /\ UNCHANGED <<failed, cur, state, members, added>> /\ UNCHANGED times

\* Fault: the collection that was signalled is cancelled with its last owner.
CancelledAlways(g, keep) == state[g] = "running"

CancelledOnClear(g, keep) == g \notin keep /\ state[g] = "running"

\* clear(): init() makes a new collection; the old one is cancelled unless a
\* result of signal() keeps it.
Renew(keep, first) ==
    /\ cur + 1 \in Generations /\ cur' = cur + 1
    /\ state' = [state EXCEPT ![cur + 1] = "running", ![cur] = IF CancelledOnClear(cur, keep) THEN "cancelled" ELSE @]
    /\ members' = [members EXCEPT ![cur + 1] = {Stop(cur + 1)} \cup first,
                                  ![cur] = IF CancelledOnClear(cur, keep) THEN {} ELSE @]
    /\ added' = [added EXCEPT ![cur + 1] = {Stop(cur + 1)} \cup first]

clear == Renew(held, {}) /\ UNCHANGED <<done, failed, held>> /\ UNCHANGED times

signalAndReset ==
    /\ Stop(cur) \notin done /\ done' = done \cup {Stop(cur)} /\ held' = held \cup {cur}
    /\ Renew(held', {})
    /\ UNCHANGED failed /\ UNCHANGED times

signalAndCollapse ==
    /\ Stop(cur) \notin done /\ done' = done \cup {Stop(cur)} /\ held' = held \cup {cur}
    /\ Renew(held', {Result(cur)})
    /\ UNCHANGED failed /\ UNCHANGED times

-----------------------------------------------------------------------------
Finish(f) ==
    /\ ~Ready(f) /\ done' = done \cup {f}
    /\ UNCHANGED <<failed, cur, state, members, added, held>> /\ UNCHANGED times
Fail(f) ==
    /\ ~Ready(f) /\ failed' = failed \cup {f}
    /\ UNCHANGED <<done, cur, state, members, added, held>> /\ UNCHANGED times
Tick ==
    /\ now < MaxTime /\ now' = now + 1
    /\ idle' = idle + IF members[0] = {} /\ state[0] = "running" THEN 1 ELSE 0
    /\ UNCHANGED <<done, failed, cur, state, members, added, held, lastChangeTime, idleTime, allTime>>

Callbacks == \E g \in Collections : \E f \in members[g] : Complete(g, f) \/ Throw(g, f)
Next ==
    \/ \E f \in Futures : Finish(f) \/ Fail(f) \/ \E g \in {0, cur} \cap Used : Add(g, f)
    \/ Callbacks \/ signal \/ clear \/ signalAndReset \/ signalAndCollapse \/ Tick

\* A future that is ready calls its waiters.
Spec == Init /\ [][Next]_vars /\ WF_vars(Callbacks)

-----------------------------------------------------------------------------
(***************************************************************************)
(* A collection that has returned was signalled, and every future that was *)
(* ever added to it is ready, through the collections it collapsed too.    *)
(***************************************************************************)
RECURSIVE AllOf(_)
AllOf(g) == added[g] \cup UNION {AllOf(h) : h \in {h \in Generations : Result(h) \in added[g]}}
ReturnsWhenAllReady ==
    \A g \in Generations : state[g] = "returned" => AllOf(g) \subseteq done

(***************************************************************************)
(* A result that signal() has given becomes ready once all that was added  *)
(* is ready and nothing more is added, whatever collections follow.        *)
(***************************************************************************)
Signalled(g) == g \in held /\ \A f \in added[g] : Ready(f)
Answered(g) == state[g] \in {"returned", "error"} \/ \E f \in added[g] : ~Ready(f)

(***************************************************************************)
(* idleTime and allTime, brought up to the clock as a reader of them does, *)
(* are the time the collection was empty and all of the time.              *)
(***************************************************************************)
TimesRight ==
    state[0] = "running" =>
      /\ allTime + (now - lastChangeTime) = now
      /\ idleTime + (IF members[0] = {} THEN now - lastChangeTime ELSE 0) = idle

(***************************************************************************)
(* Both, for a collection of either kind.                                  *)
(***************************************************************************)
CollectionRight == ReturnsWhenAllReady /\ TimesRight
=============================================================================
