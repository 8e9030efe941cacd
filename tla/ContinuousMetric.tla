-------------------------- MODULE ContinuousMetric --------------------------
(***************************************************************************)
(* ContinuousMetric, MetricHandle and MetricUtil (flow/TDMetric.actor.h):  *)
(* handles that are used like integers, each first with a metric of its    *)
(* own and later bound to a shared one by name, which logs its changes     *)
(* while it is enabled.  A logged pair (time, value) says which value the  *)
(* metric has had since when.  What a level does with its pairs is in      *)
(* EventMetrics; here only the pair that was logged last is kept.          *)
(***************************************************************************)
EXTENDS Integers

CONSTANTS Handles,
          MaxLevel,   \* MAX_METRIC_LEVEL
          MaxTime,    \* bound on the clock
          Values,     \* the values a metric is set to
          Throttles   \* whether the collection may refuse to log

Shared == "shared"
Metrics == Handles \cup {Shared}
Levels == 0..(MaxLevel - 1)

\* What the constants have to be.
ContinuousMetricAssumption ==
    /\ MaxLevel \in Nat \ {0} /\ MaxTime \in Nat /\ 0 \in Values /\ Values \subseteq Int
    /\ Throttles \in BOOLEAN /\ Shared \notin Handles

VARIABLES
    now,
    bound,      \* of each handle, its metric
    created,    \* whether the shared metric is in the collection
    value,      \* tv.value of each metric
    enabled, minLevel, time, recorded,  \* of the shared metric; time is tv.time
    field,      \* the pair that was logged last: a set of at most one
    latest,     \* what the database holds as the latest pair: a set of at most one
    held,       \* every (time, value) the shared metric has been at
    exact       \* tv.value has not changed since tv.time without tv.time

config == <<enabled, minLevel>>
log == <<time, recorded, field, exact>>
vars == <<now, bound, created, value, config, log, latest, held>>

Init ==
    /\ now = 1 /\ bound = [h \in Handles |-> h] /\ created = FALSE
    /\ value = [m \in Metrics |-> 0]
    /\ enabled = FALSE /\ minLevel = 0 /\ time = 0 /\ recorded = FALSE
    /\ field = {} /\ latest = {} /\ held = {} /\ exact = TRUE

Tick ==
    /\ now < MaxTime /\ now' = now + 1
    /\ held' = IF created THEN held \cup {<<now + 1, value[Shared]>>} ELSE held
    /\ UNCHANGED <<bound, created, value, config, log, latest>>

-----------------------------------------------------------------------------
\* init(name): a new metric begins with the value the handle has.
Initial(h) == value[bound[h]]

\* MetricHandle::init by getOrCreateInstance
BindHandle(h) ==
    /\ bound' = [bound EXCEPT ![h] = Shared]
    /\ IF created THEN UNCHANGED <<created, value, held>>
       ELSE /\ created' = TRUE /\ value' = [value EXCEPT ![Shared] = Initial(h)]
            /\ held' = {<<now, Initial(h)>>}
    /\ UNCHANGED <<now, config, log, latest>>

\* The level of a pair is drawn at random; without time since the last change
\* it is 0, or the highest.
LevelsOf(since) == IF since = 0 THEN {0, MaxLevel - 1} ELSE Levels

\* The outcomes of canLog: the least level, and the collection's throttling.
canLog(l, least) == IF l < least THEN {FALSE} ELSE IF Throttles THEN BOOLEAN ELSE {TRUE}

Unrecorded == FALSE

\* change(): logs the pair that ends now, and begins one.  A pair that may not
\* be logged goes on, with the value that is set next; "began" is then FALSE.
Change(least, began) ==
    IF time = 0
    THEN began /\ time' = now /\ recorded' = Unrecorded /\ UNCHANGED field
    ELSE \E l \in LevelsOf(now - time) : \E ok \in canLog(l, least) :
           /\ began = ok
           /\ field' = IF ok THEN {[time |-> time, value |-> value[Shared], exact |-> exact]} ELSE field
           /\ time' = IF ok THEN now ELSE time
           /\ recorded' = IF ok THEN Unrecorded ELSE recorded

\* setConfig, with onEnable and onDisable, which both call change().
setConfig(enable, least) ==
    /\ created /\ enabled' = enable /\ minLevel' = least
    /\ IF enable # enabled
       THEN \E began \in BOOLEAN : Change(least, began) /\ exact' = (exact \/ began)
       ELSE UNCHANGED log
    /\ UNCHANGED <<now, bound, created, value, latest, held>>

\* An enabled metric logs the value it had before it takes the new one.
LogsChange(v) ==
    IF enabled THEN \E began \in BOOLEAN : Change(minLevel, began) /\ exact' = began
    ELSE UNCHANGED <<time, recorded, field>> /\ exact' = FALSE

\* set, add and toggle, on a handle's metric; a set or add that changes
\* nothing logs nothing.
Set(h, v) ==
    /\ v # value[bound[h]] /\ value' = [value EXCEPT ![bound[h]] = v]
    /\ IF bound[h] = Shared THEN LogsChange(v) /\ held' = held \cup {<<now, v>>}
       ELSE UNCHANGED <<log, held>>
    /\ UNCHANGED <<now, bound, created, config, latest>>

\* flushData writes the latest value if it has changed since.  The fields are
\* flushed too, which changes nothing here.
flushData ==
    /\ created /\ recorded' = TRUE
    /\ latest' = IF recorded THEN latest ELSE {<<time, value[Shared]>>}
    /\ UNCHANGED <<now, bound, created, value, config, time, field, exact, held>>

Next ==
    \/ Tick \/ flushData
    \/ \E h \in Handles : BindHandle(h) \/ \E v \in Values : Set(h, v)
    \/ \E enable \in BOOLEAN, least \in Levels : setConfig(enable, least)

Spec == Init /\ [][Next]_vars

-----------------------------------------------------------------------------
(***************************************************************************)
(* A pair that was logged tells the truth: the metric had this value at    *)
(* this time.  Pairs during which a change was refused, or the metric was  *)
(* disabled, are excepted; these carry a later value than they say.        *)
(***************************************************************************)
LoggedTruth ==
    \A p \in field : p.exact => <<p.time, p.value>> \in held

(***************************************************************************)
(* The database's latest pair is the metric's, if it is enabled and says   *)
(* that it has been recorded, unless the last change was refused.          *)
(***************************************************************************)
LatestIsCurrent == (recorded /\ enabled /\ exact) => latest = {<<time, value[Shared]>>}

(***************************************************************************)
(* A handle keeps its value when it is bound to a metric that did not      *)
(* exist: its user may use it like a variable before and after.            *)
(***************************************************************************)
HandleKeepsValue ==
    \A h \in Handles : (bound'[h] # bound[h] /\ ~created) => value'[bound'[h]] = value[bound[h]]

(***************************************************************************)
(* Both, through changes of the level and throttling.                      *)
(***************************************************************************)
ReadingsTrue == LoggedTruth /\ LatestIsCurrent
=============================================================================
