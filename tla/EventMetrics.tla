---------------------------- MODULE EventMetrics ----------------------------
(***************************************************************************)
(* A DynamicEventMetric and its time series (flow/TDMetric.actor.h and     *)
(* flow/TDMetric.cpp): each field keeps, per level, a queue of blocks that *)
(* are written to a database as inserts and appends.  The metrics logger   *)
(* that flushes, and the database, are not part of the repository: it      *)
(* flushes up to the oldest roll time, or everything, and runs the         *)
(* callbacks before the next flush.                                        *)
(*                                                                         *)
(* Values are small integers, written as deltas; a header takes one unit   *)
(* of a block's size, as does a value.                                     *)
(***************************************************************************)
EXTENDS Integers, Sequences, FiniteSets, SequencesExt, FiniteSetsExt

CONSTANTS Names,        \* names of the fields an event can have
          Values,       \* their values; 0 is the default
          MaxLevel,     \* MAX_METRIC_LEVEL
          MaxSize,      \* MAX_METRIC_SIZE
          RollBytes,    \* the 1e6 of checkRoll
          StartQueue, Factor, \* METRIC_LIMIT_START_QUEUE_SIZE and _RESPONSE_FACTOR
          HadData,      \* whether an earlier process left data
          MaxTime, MaxFlushes

\* What the constants have to be.
EventMetricsAssumption ==
    /\ {MaxLevel, MaxSize, RollBytes, StartQueue, Factor, MaxTime, MaxFlushes} \subseteq Nat
    /\ 0 \in Values /\ Values \subseteq Nat /\ HadData \in BOOLEAN /\ Factor > 0 /\ MaxLevel > 0

Time == "Time"
Fields == Names \cup {Time}
Levels == 0..(MaxLevel - 1)
Forever == MaxTime + 1000   \* the largest uint64_t

VARIABLES
    now,
    enabled,
    lev,         \* FieldLevel of each field and level
    present,     \* fields that have been added
    value,       \* current values of the fields
    newFields,
    rollTimes, currentTimeBytes,
    pending,     \* field levels whose callback waits for the database, with its rollTime
    db,          \* the blocks in the database, by field and level
    logged,      \* values logged, by field and level
    stale,       \* an event was logged with a value that it did not have
    nflushes

vars == <<now, enabled, lev, present, value, newFields, rollTimes, currentTimeBytes, pending, db,
          logged, stale, nflushes>>

Zero == [count |-> 0, sum |-> 0]
Plus(g, h) == [count |-> g.count + h.count, sum |-> g.sum + h.sum]
Update(h, v) == [count |-> h.count + 1, sum |-> h.sum + v]

\* A block, with its header, or an append to the block with key appendStart.
MetricData(appendStart, hdr) ==
    [start |-> 0, rollTime |-> Forever, appendStart |-> appendStart, hdr |-> hdr, deltas |-> <<>>]
Length(m) == Cardinality(m.hdr) + Len(m.deltas)

FieldLevel ==
    [metrics |-> <<MetricData(0, {Zero})>>, appendUsed |-> 0, header |-> Zero,
     previousHeader |-> {}, lastTimeRequiringHeaderPatch |-> 0, prev |-> 0]

Decode(deltas) == [n \in DOMAIN deltas |-> FoldLeft(LAMBDA x, y : x + y, 0, SubSeq(deltas, 1, n))]
calculateHeader(b) == FoldLeft(Update, b.hdr, Decode(b.deltas))

Old == <<[key |-> 0, hdr |-> Zero, deltas |-> <<1>>]>>

Init ==
    /\ now = 1 /\ enabled = FALSE
    /\ lev = [f \in Fields |-> [l \in Levels |-> FieldLevel]]
    /\ present = {Time} /\ value = [f \in Names |-> 0] /\ newFields = FALSE
    /\ rollTimes = <<>> /\ currentTimeBytes = 0 /\ pending = {}
    /\ db = [f \in Fields |-> [l \in Levels |-> IF HadData THEN Old ELSE <<>>]]
    /\ logged = [f \in Fields |-> [l \in Levels |-> IF HadData THEN Decode(Old[1].deltas) ELSE <<>>]]
    /\ stale = FALSE /\ nflushes = 0

-----------------------------------------------------------------------------
(***************************************************************************)
(* FieldLevel                                                              *)
(***************************************************************************)
LevelLog(L, v, t) ==
    [L EXCEPT !.metrics[Len(L.metrics)].start = IF @ = 0 THEN t ELSE @,
              !.metrics[Len(L.metrics)].deltas = Append(@, v - L.prev),
              !.header = Update(@, v), !.prev = v]
Overflows(L) == Length(Last(L.metrics)) + L.appendUsed > MaxSize

FreshEncoder(L) == [L EXCEPT !.prev = 0]

HeaderOfNewBlock(L) == L.header

nextKey(L, t) ==
    LET m == Last(L.metrics) IN
    IF m.start = 0 /\ m.appendStart = 0 THEN L
    ELSE IF m.appendStart # 0 /\ Length(m) = 0
    THEN FreshEncoder([L EXCEPT !.metrics[Len(L.metrics)] =
                          [@ EXCEPT !.appendStart = 0, !.hdr = {HeaderOfNewBlock(L)}]])
    ELSE FreshEncoder([L EXCEPT !.metrics = Append([@ EXCEPT ![Len(@)].rollTime = t],
                                                   MetricData(0, {HeaderOfNewBlock(L)})),
                                !.appendUsed = 0])

rollMetric(L, t) ==
    LET m == Last(L.metrics) IN
    IF m.start = 0 THEN L
    ELSE [L EXCEPT !.metrics = Append([@ EXCEPT ![Len(@)].rollTime = t],
                                      MetricData(IF m.appendStart # 0 THEN m.appendStart
                                                 ELSE m.start, {})),
                   !.appendUsed = @ + Length(m)]

\* What flushUpdates writes for block m of level L: an append or an insert.
Patched(L, m) ==
    IF m.rollTime <= L.lastTimeRequiringHeaderPatch
    THEN Plus(CHOOSE h \in m.hdr : TRUE, CHOOSE h \in L.previousHeader : TRUE)
    ELSE CHOOSE h \in m.hdr : TRUE
WriteBlock(L, m, blocks) ==
    IF m.appendStart # 0
    THEN [n \in DOMAIN blocks |-> IF blocks[n].key = m.appendStart
                                  THEN [blocks[n] EXCEPT !.deltas = @ \o m.deltas] ELSE blocks[n]]
    ELSE Append(blocks, [key |-> m.start, hdr |-> Patched(L, m), deltas |-> m.deltas])

\* The writer of the last block has been moved out when the block is rolled.
Popped(L) ==
    IF Len(L.metrics) = 1
    THEN [L EXCEPT !.metrics = Tail(rollMetric([L EXCEPT !.metrics[1].hdr = {}, !.metrics[1].deltas = <<>>],
                                               L.metrics[1].rollTime).metrics)]
    ELSE [L EXCEPT !.metrics = Tail(@)]

Flushable(L, rollTime) == L.metrics[1].start # 0 /\ L.metrics[1].rollTime <= rollTime

\* flushUpdates: one after the other, at most as many blocks as there are.
FlushOne(s, n) ==
    IF Flushable(s.L, s.upTo)
    THEN [s EXCEPT !.L = Popped(@), !.blocks = WriteBlock(s.L, s.L.metrics[1], @)] ELSE s
flushUpdates(L, blocks, upTo) ==
    FoldLeft(FlushOne, [L |-> L, blocks |-> blocks, upTo |-> upTo], [n \in 1..Len(L.metrics) |-> n])

-----------------------------------------------------------------------------
(***************************************************************************)
(* TDMetricCollection, setConfig                                           *)
(***************************************************************************)
canLog(l) ==
    Len(rollTimes) < StartQueue \/ l > (Len(rollTimes) - StartQueue) \div Factor

SetConfig ==
    /\ enabled' = ~enabled
    /\ UNCHANGED <<now, lev, present, value, newFields, rollTimes, currentTimeBytes, pending, db,
                   logged, stale, nflushes>>

-----------------------------------------------------------------------------
(***************************************************************************)
(* An event with values e arrives: setFieldsAndLogFrom.  Fields it does    *)
(* not have keep the value they have.                                      *)
(***************************************************************************)
AfterSet(e) == [f \in Names |-> IF f \in DOMAIN e THEN e[f] ELSE value[f]]
Added(e) == DOMAIN e \ present

\* The event cannot be logged: values stay.
Refused(e) ==
    /\ value' = AfterSet(e) /\ newFields' = (newFields \/ Added(e) # {})
    /\ UNCHANGED <<lev, logged, rollTimes, currentTimeBytes, stale>>

\* All fields start a new block when there is a new one.
Aligned(e) ==
    [f \in Fields |-> IF (newFields \/ Added(e) # {}) /\ f \in present \cup DOMAIN e
                      THEN [l \in Levels |-> nextKey(lev[f][l], now)] ELSE lev[f]]
WithValues(L1, e, l) ==
    [f \in Fields |->
       IF f \in present \cup DOMAIN e
       THEN [L1[f] EXCEPT ![l] = LevelLog(@, IF f = Time THEN now ELSE AfterSet(e)[f], now)]
       ELSE L1[f]]
\* Fault: only the field that is full starts a new block.
NextKeysOne(L1, L2, e, l) ==
    [f \in Fields |-> IF f \in present \cup DOMAIN e /\ Overflows(L1[f][l])
                      THEN [L2[f] EXCEPT ![l] = nextKey(@, now)] ELSE L2[f]]

\* When one of the blocks was full, all fields start a new one.
NextKeys(L1, L2, e, l) ==
    [f \in Fields |-> IF f \in present \cup DOMAIN e
                         /\ \E g \in present \cup DOMAIN e : Overflows(L1[g][l])
                      THEN [L2[f] EXCEPT ![l] = nextKey(@, now)] ELSE L2[f]]
Rolled(L3, e) ==
    [f \in Fields |-> IF f \in present \cup DOMAIN e
                      THEN [l \in Levels |-> rollMetric(L3[f][l], now)] ELSE L3[f]]

Logged(e, l) ==
    \E L1 \in {Aligned(e)} : \E L2 \in {WithValues(L1, e, l)} : \E L3 \in {NextKeys(L1, L2, e, l)} :
    \E bytes \in {currentTimeBytes + Cardinality(present \cup DOMAIN e)} :
      /\ lev' = IF bytes > RollBytes THEN Rolled(L3, e) ELSE L3
      /\ currentTimeBytes' = IF bytes > RollBytes THEN 0 ELSE bytes
      /\ rollTimes' = IF bytes > RollBytes THEN Append(rollTimes, now) ELSE rollTimes
      /\ logged' = [f \in Fields |->
                      IF f \in present \cup DOMAIN e
                      THEN [logged[f] EXCEPT ![l] = Append(@, IF f = Time THEN now ELSE AfterSet(e)[f])]
                      ELSE logged[f]]
      /\ value' = [f \in Names |-> 0] /\ newFields' = FALSE
      /\ stale' = (stale \/ \E f \in (present \ {Time}) \ DOMAIN e : value[f] # 0)

Event ==
    /\ now < MaxTime /\ now' = now + 1
    /\ \E S \in SUBSET Names, l \in Levels : \E e \in [S -> Values] :
         /\ IF enabled /\ canLog(l) THEN Logged(e, l) ELSE Refused(e)
         /\ present' = present \cup S
    /\ UNCHANGED <<enabled, pending, db, nflushes>>

-----------------------------------------------------------------------------
(***************************************************************************)
(* flushData.  A level that does not know the series' old header waits for *)
(* the database first.                                                     *)
(***************************************************************************)
RollTime == IF rollTimes # <<>> THEN Head(rollTimes) ELSE Forever
HasData(f, l) == f \in present /\ lev[f][l].metrics[1].start # 0
Waits(f, l) == HasData(f, l) /\ lev[f][l].previousHeader = {}
Ready(f, l) == HasData(f, l) /\ lev[f][l].previousHeader # {}

Flush ==
    /\ pending = {} /\ nflushes < MaxFlushes /\ nflushes' = nflushes + 1
    /\ rollTimes' = IF rollTimes # <<>> THEN Tail(rollTimes) ELSE <<>>
    /\ pending' = {<<p[1], p[2], RollTime>> : p \in {q \in Fields \X Levels : Waits(q[1], q[2])}}
    /\ \E done \in {[f \in Fields |-> [l \in Levels |->
                       flushUpdates(lev[f][l], db[f][l], IF Ready(f, l) THEN RollTime ELSE -1)]]} :
         /\ lev' = [f \in Fields |-> [l \in Levels |-> done[f][l].L]]
         /\ db' = [f \in Fields |-> [l \in Levels |-> done[f][l].blocks]]
    /\ UNCHANGED <<now, enabled, present, value, newFields, currentTimeBytes, logged, stale>>

\* updatePreviousHeader, when getLastBlock has answered.
WithPreviousHeader(L, blocks) ==
    IF blocks # <<>>
    THEN [L EXCEPT !.previousHeader = {calculateHeader(Last(blocks))},
                   !.header = Plus(@, calculateHeader(Last(blocks))),
                   !.lastTimeRequiringHeaderPatch = Last(L.metrics).rollTime]
    ELSE [L EXCEPT !.previousHeader = {Zero}, !.lastTimeRequiringHeaderPatch = 0]

updatePreviousHeader(f, l, upTo) ==
    /\ <<f, l, upTo>> \in pending /\ pending' = pending \ {<<f, l, upTo>>}
    /\ \E done \in {flushUpdates(WithPreviousHeader(lev[f][l], db[f][l]), db[f][l], upTo)} :
         lev' = [lev EXCEPT ![f][l] = done.L] /\ db' = [db EXCEPT ![f][l] = done.blocks]
    /\ UNCHANGED <<now, enabled, present, value, newFields, rollTimes, currentTimeBytes, logged,
                   stale, nflushes>>

Next ==
    \/ SetConfig \/ Event \/ Flush
    \/ \E p \in pending : updatePreviousHeader(p[1], p[2], p[3])

Spec == Init /\ [][Next]_vars

-----------------------------------------------------------------------------
(***************************************************************************)
(* What the blocks in the database decode to, in the order of their keys,  *)
(* is what was logged: nothing is lost, repeated or mixed up by appends,   *)
(* rolls, overflows and late header updates.                               *)
(***************************************************************************)
Stored(f, l) == FlattenSeq([n \in DOMAIN db[f][l] |-> Decode(db[f][l][n].deltas)])
SeriesIntact == \A f \in Fields, l \in Levels : IsPrefix(Stored(f, l), logged[f][l])

(***************************************************************************)
(* The series of the fields of one event line up: a field that has a block *)
(* has it at a key where the time field has one, with as many values.      *)
(***************************************************************************)
Keys(f, l) ==
    {db[f][l][n].key : n \in DOMAIN db[f][l]}
    \cup {lev[f][l].metrics[n].start : n \in {k \in DOMAIN lev[f][l].metrics :
              lev[f][l].metrics[k].appendStart = 0 /\ lev[f][l].metrics[k].start # 0}}
ValuesAt(f, l, k) ==
    FoldLeft(LAMBDA x, b : x + (IF b.key = k THEN Len(b.deltas) ELSE 0), 0, db[f][l])
    + FoldLeft(LAMBDA x, m : x + (IF m.start # 0 /\ k = (IF m.appendStart # 0 THEN m.appendStart ELSE m.start)
                                  THEN Len(m.deltas) ELSE 0), 0, lev[f][l].metrics)
LinedUp ==
    \A f \in present, l \in Levels : \A k \in Keys(f, l) :
        k \in Keys(Time, l) /\ ValuesAt(f, l, k) = ValuesAt(Time, l, k)

(***************************************************************************)
(* The header of a block in the database counts, and sums, all the values  *)
(* of the series before it.                                                *)
(***************************************************************************)
BlockHeadersCurrent ==
    \A f \in Fields, l \in Levels : \A n \in DOMAIN db[f][l] :
        n > 1 => db[f][l][n].hdr = calculateHeader(db[f][l][n - 1])

(***************************************************************************)
(* A field an event does not have is logged with its default value, not    *)
(* with the value of an earlier event ("it is better to clear than use an  *)
(* old value").                                                            *)
(***************************************************************************)
NoOldValue == ~stale

(***************************************************************************)
(* What the database is given for a metric that it has no data of yet.     *)
(***************************************************************************)
MetricsIntact == SeriesIntact /\ LinedUp /\ BlockHeadersCurrent
=============================================================================
