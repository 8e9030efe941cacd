------------------------------ MODULE Profiler ------------------------------
(***************************************************************************)
(* The flow profiler (flow/Profiler.actor.cpp): a timer of the network     *)
(* thread raises SIGPROF, whose handler interrupts the thread anywhere and *)
(* pushes a sample to one of two buffers, while an actor of the same       *)
(* thread swaps the buffers and writes the other one to a file.  Stopping  *)
(* the profiler blocks the signal and deletes the timer; a new one may be  *)
(* started.                                                                *)
(***************************************************************************)
EXTENDS Integers, Sequences, SequencesExt, FiniteSets

CONSTANTS Profilers,   \* profilers that are started, one after the other: 1..n
          Capacity,    \* words a buffer holds
          MaxSamples,  \* signals handled
          Frames       \* lengths of a backtrace

\* What the constants have to be.
ProfilerAssumption ==
    /\ Profilers = 1..Cardinality(Profilers) /\ Capacity \in Nat /\ MaxSamples \in Nat /\ Frames \subseteq Nat

VARIABLES
    active, started,   \* active_profiler (0 if none), and how many there have been
    actor,             \* where profile() is: "none", "wait", "swap", "unblock", "write", "clear" or "returned"
    blocked, pending,  \* SIGPROF is blocked; the profiler whose timer raised it (0 if none)
    ticking,           \* the timer is set
    buffer, cur,       \* the two buffers, and which is output_buffer
    file,              \* words of the output file after its header
    accepted,          \* words the handler has pushed for the active profiler
    samples,           \* signals handled
    dangling           \* the handler was given a profiler that was deleted

vars == <<active, started, actor, blocked, pending, ticking, buffer, cur, file, accepted, samples, dangling>>

Init ==
    /\ active = 0 /\ started = 0 /\ actor = "none" /\ blocked = FALSE /\ pending = 0 /\ ticking = FALSE
    /\ buffer = <<<<>>, <<>>>> /\ cur = 1 /\ file = <<>> /\ accepted = <<>> /\ samples = 0 /\ dangling = FALSE

\* A signal that is not blocked is delivered before the thread goes on.
Uninterrupted == blocked \/ pending = 0

-----------------------------------------------------------------------------
(***************************************************************************)
(* startProfiling, stopProfiling and the destructor.                       *)
(***************************************************************************)
\* The file is truncated and the buffers are new.
Fresh(ticks) ==
    /\ Uninterrupted /\ active = 0 /\ started < Cardinality(Profilers)
    /\ started' = started + 1 /\ active' = started' /\ ticking' = ticks
    /\ buffer' = <<<<>>, <<>>>> /\ cur' = 1 /\ file' = <<>> /\ accepted' = <<>>
    /\ UNCHANGED <<blocked, pending, samples, dangling>>

startProfiling == Fresh(TRUE) /\ actor' = "wait"

\* The file cannot be opened, or there is no timer.
startFails == Fresh(FALSE) /\ actor' = "returned"

\* The signal may come after it was blocked and before the timer is deleted;
\* what becomes of a pending one then is not specified.
stopProfiling ==
    /\ Uninterrupted /\ active # 0 /\ actor \in {"wait", "returned"}
    /\ active' = 0 /\ actor' = "none" /\ ticking' = FALSE /\ blocked' = TRUE
    /\ pending' \in {0, pending} \cup (IF ticking THEN {active} ELSE {})
    /\ UNCHANGED <<started, buffer, cur, file, accepted, samples, dangling>>

-----------------------------------------------------------------------------
(***************************************************************************)
(* The timer and the handler, which runs between any two steps.            *)
(***************************************************************************)
Tick ==
    /\ ticking /\ pending = 0 /\ samples < MaxSamples /\ pending' = active
    /\ UNCHANGED <<active, started, actor, blocked, ticking, buffer, cur, file, accepted, samples, dangling>>

\* The time, the backtrace and the end of sample k, with n frames
Sample(k, n) == <<<<k, "time">>>> \o [i \in 1..n |-> <<k, "frame">>] \o <<<<k, "end">>>>

\* What push accepts of it
Accepted(b, words) ==
    SubSeq(words, 1, IF Len(b) + Len(words) <= Capacity THEN Len(words) ELSE Capacity - Len(b))

Pushed(words) ==
    /\ buffer' = [buffer EXCEPT ![cur] = @ \o Accepted(@, words)]
    /\ accepted' = accepted \o Accepted(buffer[cur], words)

\* profilingEnabled is 0 while the thread sleeps.
signal_handler(enabled) ==
    /\ ~blocked /\ pending # 0 /\ ~dangling /\ pending' = 0
    /\ dangling' = (pending # active) /\ samples' = samples + 1
    /\ IF enabled /\ pending = active
       THEN \E n \in Frames : Pushed(Sample(samples', n))
       ELSE UNCHANGED <<buffer, accepted>>
    /\ UNCHANGED <<active, started, actor, blocked, ticking, cur, file>>

-----------------------------------------------------------------------------
(***************************************************************************)
(* The loop of profile().                                                  *)
(***************************************************************************)
Goes(from, to) == Uninterrupted /\ actor = from /\ actor' = to

BlockSignal ==
    /\ Goes("wait", "swap") /\ blocked' = TRUE
    /\ UNCHANGED <<active, started, pending, ticking, buffer, cur, file, accepted, samples, dangling>>

Swapped == 3 - cur

Swap ==
    /\ Goes("swap", "unblock") /\ cur' = Swapped
    /\ UNCHANGED <<active, started, blocked, pending, ticking, buffer, file, accepted, samples, dangling>>

Unblocked == FALSE

UnblockSignal ==
    /\ Goes("unblock", "write") /\ blocked' = Unblocked
    /\ UNCHANGED <<active, started, pending, ticking, buffer, cur, file, accepted, samples, dangling>>

\* writeTo and flush
WriteTo ==
    /\ Goes("write", "clear") /\ file' = file \o buffer[3 - cur]
    /\ UNCHANGED <<active, started, blocked, pending, ticking, buffer, cur, accepted, samples, dangling>>

\* fwrite fails: the actor ends, the timer does not.
WriteFails ==
    /\ Goes("write", "returned")
    /\ UNCHANGED <<active, started, blocked, pending, ticking, buffer, cur, file, accepted, samples, dangling>>

\* otherBuffer->clear()
Cleared == 3 - cur

Clear ==
    /\ Goes("clear", "wait") /\ buffer' = [buffer EXCEPT ![Cleared] = <<>>]
    /\ UNCHANGED <<active, started, blocked, pending, ticking, cur, file, accepted, samples, dangling>>

profile == BlockSignal \/ Swap \/ UnblockSignal \/ WriteTo \/ Clear

Next ==
    \/ startProfiling \/ startFails \/ stopProfiling \/ Tick \/ WriteFails \/ profile
    \/ \E enabled \in BOOLEAN : signal_handler(enabled)

\* The delays of the actor end and its steps are run, timers tick, and
\* signals are delivered.
Spec == Init /\ [][Next]_vars /\ WF_vars(profile) /\ WF_vars(Tick) /\ WF_vars(\E enabled \in BOOLEAN : signal_handler(enabled))

-----------------------------------------------------------------------------
(***************************************************************************)
(* The file and the words that are yet to be written make what the handler *)
(* has pushed: nothing is lost, written twice or out of order, whichever   *)
(* step of the actor a signal interrupts.                                  *)
(***************************************************************************)
Unwritten == IF actor \in {"unblock", "write"} THEN buffer[3 - cur] \o buffer[cur] ELSE buffer[cur]
WrittenInOrder == active # 0 /\ actor # "returned" => file \o Unwritten = accepted

(***************************************************************************)
(* What was pushed reaches the file, unless the profiler stops or the file *)
(* fails; nothing holds once the handler has run for a deleted profiler.   *)
(***************************************************************************)
Held(n) == Len(accepted) >= n /\ actor = "wait" /\ ~dangling
Reached(n) == Len(file) >= n \/ dangling \/ actor \in {"none", "returned"}

(***************************************************************************)
(* The handler works whichever profilers there have been in the process.   *)
(***************************************************************************)
HandlerAlive == ~dangling
=============================================================================
