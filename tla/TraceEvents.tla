---------------------------- MODULE TraceEvents ----------------------------
(***************************************************************************)
(* A trace event from its constructor to its destructor, on the network    *)
(* thread (flow/Trace.cpp), the map of suppressed types, the throttle of   *)
(* frequent types (TransientThresholdMetricSample, flow/MetricSample.h)    *)
(* and the roles that annotate events.                                     *)
(*                                                                         *)
(* Strings are types and a size; the warnings the code emits on the way    *)
(* ("TraceEventThrottle_", "InvalidSuppression_", "TraceEventOverflow")    *)
(* are noted.  They are themselves suppressed for 5 seconds at a time,     *)
(* too rarely to be throttled under the knobs' values.                     *)
(***************************************************************************)
EXTENDS Integers, Sequences, FiniteSets, SequencesExt, FiniteSetsExt

CONSTANTS Types,         \* types of event
          Roles,
          Duration,      \* of a suppressFor, in ticks
          Expiry,        \* TRACE_EVENT_THROTTLER_SAMPLE_EXPIRY
          Units,         \* TRACE_EVENT_METRIC_UNITS_PER_SAMPLE
          Limit,         \* TRACE_EVENT_THROTTLER_MSG_LIMIT
          MaxSuppressions, \* MAX_TRACE_SUPPRESSIONS
          MaxSize,       \* TRACE_EVENT_MAX_SIZE, in details
          MaxTime, MaxEvents \* bounds on the time and the number of events

\* What the constants have to be.
TraceEventsAssumption ==
    /\ {Duration, Expiry, Limit, MaxSuppressions, MaxSize, MaxTime, MaxEvents} \subseteq Nat
    /\ Units \in Nat \ {0}

VARIABLES
    now,
    ev,           \* the event being built, or none
    endTime,      \* the map of suppressions: a partial function
    suppressedEventCount,
    sample, queue, thresholdCrossedSet,  \* the throttle
    asserted,     \* whether its assertions held so far
    roles, rolesString,
    nevents, warned,
    held, told,   \* per type: events suppressed, and reported by an event that was logged
    unreported,   \* per type: those whose count was taken and not logged
    forgotten,    \* per type: those whose count went with the map
    lastTurn,     \* per type: when one last had its turn, since the map was cleared
    dropped       \* events that suppressFor left enabled and that were not logged

evVars == <<ev, nevents, dropped>>
countVars == <<told, unreported>>
mapVars == <<endTime, suppressedEventCount, held, forgotten, lastTurn>>
supVars == <<mapVars, countVars>>
throttleVars == <<sample, queue, thresholdCrossedSet, asserted>>
roleVars == <<roles, rolesString>>
vars == <<now, evVars, supVars, throttleVars, roleVars, warned>>

None == {}

Init ==
    /\ now = 0 /\ ev = None /\ nevents = 0 /\ dropped = 0 /\ warned = FALSE
    /\ endTime = [t \in {} |-> 0] /\ suppressedEventCount = [t \in {} |-> 0]
    /\ held = [t \in Types |-> 0] /\ told = [t \in Types |-> 0] /\ unreported = [t \in Types |-> 0]
    /\ forgotten = [t \in Types |-> 0] /\ lastTurn = [t \in Types |-> -Duration]
    /\ sample = [t \in Types |-> 0] /\ queue = <<>> /\ thresholdCrossedSet = {} /\ asserted = TRUE
    /\ roles = [r \in Roles |-> 0] /\ rolesString = {}

\* ev is a set of at most one event.
The == CHOOSE e \in ev : TRUE

-----------------------------------------------------------------------------
(***************************************************************************)
(* TransientThresholdMetricSample                                          *)
(***************************************************************************)
isAboveThreshold(t) == t \in thresholdCrossedSet

\* addAndExpire(t, 1, now + Expiry), when the dice chose to sample it.
Sampled(t) ==
    \E val \in {sample[t] + Units} :
      /\ sample' = [sample EXCEPT ![t] = val]
      /\ IF val >= Limit
         THEN /\ thresholdCrossedSet' = thresholdCrossedSet \cup {t}
              /\ asserted' = (asserted /\ ((val - Units < Limit) = (t \notin thresholdCrossedSet)))
         ELSE UNCHANGED <<thresholdCrossedSet, asserted>>
      /\ queue' = Append(queue, [at |-> now + Expiry, type |-> t])

addAndExpire(t) == (1 < Units /\ UNCHANGED throttleVars) \/ Sampled(t)

CrossedDown(val) == val < Limit /\ val + Units >= Limit

\* One round of the loop of poll: q expires.
Expire(th, q) ==
    [sample |-> [th.sample EXCEPT ![q.type] = @ - Units],
     crossed |-> IF CrossedDown(th.sample[q.type] - Units) THEN th.crossed \ {q.type} ELSE th.crossed,
     ok |-> th.ok /\ (CrossedDown(th.sample[q.type] - Units) => q.type \in th.crossed)]

\* poll(), which flush calls.
Poll ==
    /\ queue # <<>> /\ Head(queue).at <= now
    /\ queue' = SelectSeq(queue, LAMBDA q : q.at > now)
    /\ \E th \in {FoldLeft(Expire, [sample |-> sample, crossed |-> thresholdCrossedSet,
                                   ok |-> asserted],
                           SelectSeq(queue, LAMBDA q : q.at <= now))} :
         sample' = th.sample /\ thresholdCrossedSet' = th.crossed /\ asserted' = th.ok
    /\ UNCHANGED <<now, evVars, supVars, roleVars, warned>>

-----------------------------------------------------------------------------
(***************************************************************************)
(* SuppressionMap::checkAndInsertSuppression                               *)
(***************************************************************************)
\* The map that is used: it is cleared when it is full.
Kept == IF Cardinality(DOMAIN endTime) >= MaxSuppressions THEN {} ELSE DOMAIN endTime

\* Fault: the count of suppressed events survives its report.
CountAfterKept(t) == IF t \in Kept THEN suppressedEventCount[t] ELSE 0

CountAfter(t) == 0

Due(t) == t \notin Kept \/ endTime[t] <= now

Before(t) == IF t \in Kept THEN suppressedEventCount[t] ELSE 0
Forget ==
    forgotten' = [t \in Types |-> forgotten[t] + IF t \in DOMAIN endTime \ Kept
                                                 THEN suppressedEventCount[t] ELSE 0]

\* The event has its turn, and takes the count of those that had not: to report
\* it, if its caller asked for that.
Pass(t, reports) ==
    /\ Forget
    /\ endTime' = [u \in Kept \cup {t} |-> IF u = t THEN now + Duration ELSE endTime[u]]
    /\ suppressedEventCount' =
         [u \in Kept \cup {t} |-> IF u = t THEN CountAfter(t) ELSE suppressedEventCount[u]]
    /\ unreported' = [unreported EXCEPT ![t] = @ + IF reports THEN 0 ELSE Before(t)]
    /\ lastTurn' = [u \in Types |-> IF u = t THEN now ELSE IF u \in Kept THEN lastTurn[u] ELSE -Duration]
    /\ UNCHANGED <<held, told>>

Suppress(t) ==
    /\ Forget
    /\ endTime' = [u \in Kept |-> endTime[u]]
    /\ suppressedEventCount' =
         [u \in Kept |-> suppressedEventCount[u] + IF u = t THEN 1 ELSE 0]
    /\ held' = [held EXCEPT ![t] = @ + 1]
    /\ UNCHANGED <<countVars, lastTurn>>

-----------------------------------------------------------------------------
(***************************************************************************)
(* TraceEvent                                                              *)
(***************************************************************************)
Construct ==
    /\ ev = None /\ nevents < MaxEvents /\ nevents' = nevents + 1
    /\ \E t \in Types, severe \in BOOLEAN :
         ev' = {[type |-> t, severe |-> severe, initialized |-> FALSE, enabled |-> TRUE,
                 size |-> 0, turn |-> FALSE, count |-> 0]}
    /\ UNCHANGED <<now, dropped, supVars, throttleVars, roleVars, warned>>

\* init() of event e, which becomes e2; severe says that severity is not below
\* MIN_TRACE_SEVERITY.  Its own details come with it.
InitTo(e, e2) ==
    IF e.initialized THEN ev' = {e2} /\ UNCHANGED <<throttleVars, warned>>
    ELSE LET Done(ok) == ev' = {[e2 EXCEPT !.initialized = TRUE, !.enabled = @ /\ ok, !.turn = @ /\ ok]}
         IN \/ ~(e.enabled /\ e.severe) /\ Done(FALSE) /\ UNCHANGED <<throttleVars, warned>>
            \/ /\ e.enabled /\ e.severe /\ isAboveThreshold(e.type)
               /\ Done(FALSE) /\ warned' = TRUE /\ UNCHANGED throttleVars
            \/ /\ e.enabled /\ e.severe /\ ~isAboveThreshold(e.type)
               /\ Done(TRUE) /\ addAndExpire(e.type) /\ UNCHANGED warned

\* error(actor_cancelled) without includeCancelled.
ErrorCancelled ==
    /\ ev # None /\ The.enabled
    /\ IF The.initialized THEN warned' = TRUE /\ UNCHANGED ev
       ELSE ev' = {[The EXCEPT !.enabled = FALSE]} /\ UNCHANGED warned
    /\ UNCHANGED <<now, nevents, dropped, supVars, throttleVars, roleVars>>

\* sample without logSampleRate.
Sample ==
    /\ ev # None /\ The.enabled
    /\ IF The.initialized THEN warned' = TRUE /\ UNCHANGED ev
       ELSE /\ \E chosen \in BOOLEAN : ev' = {[The EXCEPT !.enabled = chosen]}
            /\ UNCHANGED warned
    /\ UNCHANGED <<now, nevents, dropped, supVars, throttleVars, roleVars>>

\* detail: an event that grows too large is disabled.
Fits(size) == size <= MaxSize

Detail ==
    /\ ev # None /\ The.size <= MaxSize
    /\ \E e \in {[The EXCEPT !.size = @ + 1]} : InitTo(The, [e EXCEPT !.enabled = @ /\ Fits(e.size)])
    /\ UNCHANGED <<now, nevents, dropped, supVars, roleVars>>

suppressFor ==
    /\ ev # None /\ The.enabled
    /\ IF The.initialized
       THEN warned' = TRUE /\ UNCHANGED <<ev, supVars, throttleVars>>
       ELSE IF Due(The.type)
            THEN \E reports \in BOOLEAN :
                   /\ Pass(The.type, reports)
                   /\ InitTo(The, IF reports
                                  THEN [The EXCEPT !.turn = TRUE, !.count = Before(The.type), !.size = 1,
                                                   !.enabled = Fits(1)]
                                  ELSE [The EXCEPT !.turn = TRUE])
            ELSE Suppress(The.type) /\ InitTo([The EXCEPT !.enabled = FALSE], The)
    /\ UNCHANGED <<now, nevents, dropped, roleVars>>

\* The destructor: an event that is not initialized is, and one that is
\* enabled is written, with the count it carries; the count of another is lost.
Destruct ==
    /\ ev # None /\ The.initialized /\ ev' = None
    /\ dropped' = dropped + IF The.turn /\ ~The.enabled THEN 1 ELSE 0
    /\ IF The.enabled THEN told' = [told EXCEPT ![The.type] = @ + The.count] /\ UNCHANGED unreported
       ELSE unreported' = [unreported EXCEPT ![The.type] = @ + The.count] /\ UNCHANGED told
    /\ UNCHANGED <<now, nevents, mapVars, throttleVars, roleVars, warned>>

DestructInit ==
    /\ ev # None /\ ~The.initialized /\ InitTo(The, The)
    /\ UNCHANGED <<now, nevents, dropped, supVars, roleVars>>

-----------------------------------------------------------------------------
Shown(r) == {q \in Roles : roles'[q] > 0}

addRole(r) ==
    /\ roles[r] < 2 /\ roles' = [roles EXCEPT ![r] = @ + 1]
    /\ rolesString' = {q \in Roles : roles'[q] > 0}
    /\ UNCHANGED <<now, evVars, supVars, throttleVars, warned>>

removeRole(r) ==
    /\ roles[r] > 0 /\ roles' = [roles EXCEPT ![r] = @ - 1]
    /\ rolesString' = IF roles'[r] = 0 THEN Shown(r) ELSE rolesString
    /\ UNCHANGED <<now, evVars, supVars, throttleVars, warned>>

Tick ==
    /\ now < MaxTime /\ now' = now + 1
    /\ UNCHANGED <<evVars, supVars, throttleVars, roleVars, warned>>

Next ==
    \/ Construct \/ ErrorCancelled \/ Sample \/ Detail \/ suppressFor \/ DestructInit \/ Destruct
    \/ Poll \/ Tick \/ \E r \in Roles : addRole(r) \/ removeRole(r)

Spec == Init /\ [][Next]_vars

-----------------------------------------------------------------------------
(***************************************************************************)
(* The set of throttled types is exact: a type is in it while its sampled  *)
(* count, which is what is still queued, has reached the limit, and the    *)
(* assertions of add and poll never fail.                                  *)
(***************************************************************************)
Queued(t) == Len(SelectSeq(queue, LAMBDA q : q.type = t))
ThrottleExact ==
    /\ asserted /\ thresholdCrossedSet = {t \in Types : sample[t] >= Limit}
    /\ \A t \in Types : sample[t] = Units * Queued(t)

(***************************************************************************)
(* Every event that a suppression held back is counted in exactly one      *)
(* place: still in the map, in the event being built, or reported by one   *)
(* that was logged; or its count went when the full map was cleared, or    *)
(* was taken by an event that did not report it: because it was not asked  *)
(* to, below the minimum severity, throttled, or too large.                *)
(***************************************************************************)
InMap(t) == IF t \in DOMAIN endTime THEN suppressedEventCount[t] ELSE 0
Carried(t) == SumSet({e.count : e \in {e \in ev : e.type = t}})
SuppressedAreCounted ==
    \A t \in Types : held[t] = told[t] + Carried(t) + InMap(t) + unreported[t] + forgotten[t]

(***************************************************************************)
(* No event that was held back goes unreported otherwise than with the     *)
(* map.  It does not hold: the event that carries the count may itself be  *)
(* dropped, or not be asked to report.                                     *)
(***************************************************************************)
CountsReported == \A t \in Types : unreported[t] = 0

(***************************************************************************)
(* Two events of one type have their turns at least Duration apart, unless *)
(* the map was cleared between them.                                       *)
(***************************************************************************)
Spaced ==
    \A t \in Types : lastTurn'[t] > lastTurn[t] /\ Kept = DOMAIN endTime =>
        lastTurn'[t] >= lastTurn[t] + Duration

(***************************************************************************)
(* What events are annotated with is the set of roles held.                *)
(***************************************************************************)
RolesShown == rolesString = {r \in Roles : roles[r] > 0}

(***************************************************************************)
(* "We do not want any future calls on this trace event to disable it,     *)
(* because we have already counted it towards our suppression budget".     *)
(***************************************************************************)
TurnIsUsed == dropped = 0

(***************************************************************************)
(* All of this at once.                                                    *)
(***************************************************************************)
EventsRight == ThrottleExact /\ SuppressedAreCounted /\ RolesShown
=============================================================================
