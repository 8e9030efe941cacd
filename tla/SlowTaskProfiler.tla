-------------------------- MODULE SlowTaskProfiler --------------------------
(***************************************************************************)
(* The slow task profiler: a thread (checkThread, flow/Platform.cpp) looks *)
(* at intervals whether the run loop has finished a turn and, if not, has  *)
(* the network thread interrupted by SIGPROF, whose handler writes a       *)
(* backtrace into an array; at the end of each turn the loop               *)
(* (Net2::run, flow/Net2.actor.cpp) takes the array away and logs it.      *)
(* Lengths and offsets are counted in words.                               *)
(***************************************************************************)
EXTENDS Integers, Sequences, SequencesExt, FiniteSets

CONSTANTS Words,        \* net2backtraces_max
          Margin,       \* 50: the room below which no sample is taken
          Depths,       \* depths of the stacks
          MaxSignals,   \* signals handled, for the model
          MaxInterval   \* SLOWTASK_PROFILING_MAX_LOG_INTERVAL, in intervals

\* What the constants have to be.
SlowTaskAssumption ==
    Words \in Nat /\ Margin \in Nat /\ Margin > 2 /\ Depths \subseteq Nat /\ MaxSignals \in Nat /\ MaxInterval \in Nat

VARIABLES
    main,                     \* the network thread: "task", "sleep", "harvest", "swap", "unmask", "log"
    blocked, pending,         \* SIGPROF on it
    traces, other,            \* the samples in net2backtraces and other_backtraces
    offset, otherOffset,      \* net2backtraces_offset and the loop's other_offset
    overflow, count,          \* net2backtraces_overflow, net2backtraces_count
    logged, reported,         \* samples logged, countSlowTaskSignals
    lastSame, compared,       \* lastValue of the checking thread is net2liveness; it has compared them
    lastSignal, logInterval,  \* intervals since its last signal (0 if none), and its back-off
    taken, dropped            \* samples the handler wrote, and signals it had no room for since the harvest

vars == <<main, blocked, pending, traces, other, offset, otherOffset, overflow, count, logged, reported,
          lastSame, compared, lastSignal, logInterval, taken, dropped>>
arrays == <<traces, other, offset, otherOffset, overflow, count, logged, reported, taken, dropped>>
checker == <<lastSame, compared, lastSignal, logInterval>>

Init ==
    /\ main = "task" /\ blocked = FALSE /\ pending = FALSE
    /\ traces = <<>> /\ other = <<>> /\ offset = 0 /\ otherOffset = 0 /\ overflow = FALSE /\ count = 0
    /\ logged = <<>> /\ reported = 0 /\ taken = <<>> /\ dropped = 0
    /\ lastSame = TRUE /\ compared = FALSE /\ lastSignal = 0 /\ logInterval = 1

-----------------------------------------------------------------------------
(***************************************************************************)
(* checkThread                                                             *)
(***************************************************************************)
Handled == reported + count
Backoff(i) == IF 2 * i < MaxInterval THEN 2 * i ELSE MaxInterval

\* lastValue == net2liveness
Stuck == lastSame

\* After an interval
Check ==
    /\ ~compared /\ compared' = TRUE
    /\ IF Stuck
       THEN IF lastSignal = 0 \/ lastSignal >= logInterval
            THEN /\ pending' = (pending \/ Handled < MaxSignals) /\ lastSignal' = 1
                 /\ logInterval' = IF lastSignal > 0 THEN Backoff(logInterval) ELSE logInterval
            ELSE lastSignal' = lastSignal + 1 /\ UNCHANGED <<pending, logInterval>>
       ELSE lastSignal' = 0 /\ logInterval' = 1 /\ UNCHANGED pending
    /\ UNCHANGED <<main, blocked, lastSame>> /\ UNCHANGED arrays

\* lastValue = net2liveness
Remember ==
    /\ compared /\ compared' = FALSE /\ lastSame' = TRUE
    /\ UNCHANGED <<main, blocked, pending, lastSignal, logInterval>> /\ UNCHANGED arrays

-----------------------------------------------------------------------------
(***************************************************************************)
(* profileHandler, which runs on the network thread between any two steps. *)
(***************************************************************************)
\* backtrace(frames, max - offset - 2)
FramesOf(depth) == IF depth < Words - offset - 2 THEN depth ELSE Words - offset - 2

\* profilingEnabled is 0 while the thread sleeps in the reactor.
profileHandler(depth) ==
    /\ pending /\ ~blocked /\ pending' = FALSE
    /\ IF main = "sleep" THEN UNCHANGED arrays
       ELSE /\ count' = count + 1
            /\ IF Words - offset < Margin
               THEN overflow' = TRUE /\ dropped' = dropped + 1 /\ UNCHANGED <<traces, offset, taken>>
               ELSE /\ traces' = Append(traces, <<Handled, FramesOf(depth)>>)
                    /\ taken' = Append(taken, <<Handled, FramesOf(depth)>>)
                    /\ offset' = offset + FramesOf(depth) + 2
                    /\ UNCHANGED <<overflow, dropped>>
            /\ UNCHANGED <<other, otherOffset, logged, reported>>
    /\ UNCHANGED <<main, blocked>> /\ UNCHANGED checker

-----------------------------------------------------------------------------
(***************************************************************************)
(* The network thread.  A signal that is not blocked comes before its next *)
(* step.                                                                   *)
(***************************************************************************)
Goes(from, to) == (blocked \/ ~pending) /\ main = from /\ main' = to

Sleep == Goes("task", "sleep") /\ UNCHANGED <<blocked, pending>> /\ UNCHANGED arrays /\ UNCHANGED checker
Wake == Goes("sleep", "task") /\ UNCHANGED <<blocked, pending>> /\ UNCHANGED arrays /\ UNCHANGED checker

\* Fault: the signals are not blocked.
MaskNothing == FALSE

Masked == TRUE

TurnEnds ==
    /\ Goes("task", "harvest") /\ blocked' = Masked
    /\ UNCHANGED pending /\ UNCHANGED arrays /\ UNCHANGED checker

\* other_offset and the counts are read,
Harvest ==
    /\ Goes("harvest", "swap")
    /\ otherOffset' = offset /\ reported' = reported + count /\ count' = 0
    /\ UNCHANGED <<blocked, pending, traces, other, offset, overflow, logged, taken, dropped>> /\ UNCHANGED checker

\* and the arrays are swapped if there is a sample.
Swap ==
    /\ Goes("swap", "unmask")
    /\ IF otherOffset # 0
       THEN traces' = <<>> /\ other' = traces /\ offset' = 0
       ELSE UNCHANGED <<traces, other, offset>>
    /\ overflow' = FALSE /\ dropped' = 0
    /\ UNCHANGED <<blocked, pending, otherOffset, count, logged, reported, taken>> /\ UNCHANGED checker

Unmask ==
    /\ Goes("unmask", "log") /\ blocked' = FALSE
    /\ UNCHANGED pending /\ UNCHANGED arrays /\ UNCHANGED checker

\* Samples are logged up to other_offset, each found from the length of the
\* one before, and net2liveness gets a new value.
Log ==
    /\ main = "log" /\ otherOffset > 0 /\ (blocked \/ ~pending)
    /\ logged' = Append(logged, Head(other)) /\ other' = Tail(other)
    /\ otherOffset' = otherOffset - (Head(other)[2] + 2)
    /\ UNCHANGED <<main, blocked, pending, traces, offset, overflow, count, reported, taken, dropped>> /\ UNCHANGED checker

Live ==
    /\ Goes("log", "task") /\ otherOffset = 0 /\ lastSame' = FALSE
    /\ UNCHANGED <<blocked, pending, compared, lastSignal, logInterval>> /\ UNCHANGED arrays

Turn == TurnEnds \/ Harvest \/ Swap \/ Unmask \/ Log \/ Live

Next == Check \/ Remember \/ (\E d \in Depths : profileHandler(d)) \/ Sleep \/ Wake \/ Turn

\* The checking thread runs and signals are delivered; a task need not end.
Spec == Init /\ [][Next]_vars /\ WF_vars(Check \/ Remember) /\ WF_vars(\E d \in Depths : profileHandler(d))

-----------------------------------------------------------------------------
(***************************************************************************)
(* No sample reaches past the end of the array.                            *)
(***************************************************************************)
InBounds == offset <= Words /\ offset = FoldLeft(LAMBDA sum, s : sum + s[2] + 2, 0, traces)

(***************************************************************************)
(* Every sample that was taken has been logged or will be, in order, with  *)
(* the handler interrupting any step of the harvest; one that there was no *)
(* room for is reported as an overflow.                                    *)
(***************************************************************************)
SamplesConserved ==
    /\ logged \o (IF main \in {"unmask", "log"} /\ otherOffset > 0 THEN other ELSE <<>>) \o traces = taken
    /\ overflow = (dropped > 0)

(***************************************************************************)
(* A task that does not end is interrupted: it does not stay Unsampled.    *)
(***************************************************************************)
Unsampled(n) == main = "task" /\ Handled = n

(***************************************************************************)
(* Both, wherever the signal interrupts.                                   *)
(***************************************************************************)
TracesIntact == InBounds /\ SamplesConserved
=============================================================================
