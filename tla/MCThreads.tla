----------------------------- MODULE MCThreads ------------------------------
(***************************************************************************)
(* What threads, signals, callbacks and sockets share: each component in a *)
(* small instance and each on its own.  part says which one a behaviour is *)
(* about.  The variables of ThreadFuture are here under their own names,   *)
(* so that the run checks the invariant that is proved; the slots are      *)
(* those of any other component.                                           *)
(***************************************************************************)
EXTENDS ThreadFuture, TLC

VARIABLES part, \* the component that runs
          s1, s2, s3, s4, s5, s6, s7, s8, s9, s10, s11, s12, s13, s14, s15, s16, s17, s18, s19, s20 \* its variables, in their order

allVars == <<part, vars, s1, s2, s3, s4, s5, s6, s7, s8, s9, s10, s11, s12, s13, s14, s15, s16,
             s17, s18, s19, s20>>

\* The slots from the nth on are not used.
Spare18 == s18 = 0 /\ s19 = 0 /\ s20 = 0
Spare17 == s17 = 0 /\ Spare18
Spare14 == s14 = 0 /\ s15 = 0 /\ s16 = 0 /\ Spare17
Spare13 == s13 = 0 /\ Spare14
Spare11 == s11 = 0 /\ s12 = 0 /\ Spare13
Spare10 == s10 = 0 /\ Spare11
Spare9 == s9 = 0 /\ Spare10
Idle18 == UNCHANGED <<s18, s19, s20>>
Idle17 == UNCHANGED <<s17>> /\ Idle18
Idle14 == UNCHANGED <<s14, s15, s16>> /\ Idle17
Idle13 == UNCHANGED <<s13>> /\ Idle14
Idle11 == UNCHANGED <<s11, s12>> /\ Idle13
Idle10 == UNCHANGED <<s10>> /\ Idle11
Idle9 == UNCHANGED <<s9>> /\ Idle10

-----------------------------------------------------------------------------
\* Client threads, which may give memory back, and the network thread.
Spare1 == s1 = 0 /\ s2 = 0 /\ s3 = 0 /\ s4 = 0 /\ s5 = 0 /\ s6 = 0 /\ s7 = 0 /\ s8 = 0 /\ Spare9
Idle1 == UNCHANGED <<s1, s2, s3, s4, s5, s6, s7, s8>> /\ Idle9
FutureInit == part = "future" /\ Spare1
FutureNext == part = "future" /\ Next /\ UNCHANGED part /\ Idle1

\* Two threads, magazines of two objects.
Alloc == INSTANCE FastAlloc WITH Threads <- {"t1", "t2"}, magazine_size <- 2, MaxPages <- 3,
    Sampling <- FALSE, Traces <- {}, threadInitialized <- s1, threadData <- s2, pc <- s3,
    magazines <- s4, partial_magazines <- s5, totalMemory <- s6, partialUnallocated <- s7,
    activeThreads <- s8, pages <- s9, live <- s10, memSample <- s11, backTraceLookup <- s12,
    lost <- s13
AllocInit == part = "alloc" /\ Alloc!Init /\ Spare14
AllocNext == part = "alloc" /\ Alloc!Next /\ UNCHANGED <<part, vars>> /\ Idle14

\* The same with events that sample getMagazine and traced objects.
Sampled == INSTANCE FastAlloc WITH Threads <- {"t1", "t2"}, magazine_size <- 2, MaxPages <- 2,
    Sampling <- TRUE, Traces <- {"h1"}, threadInitialized <- s1, threadData <- s2, pc <- s3,
    magazines <- s4, partial_magazines <- s5, totalMemory <- s6, partialUnallocated <- s7,
    activeThreads <- s8, pages <- s9, live <- s10, memSample <- s11, backTraceLookup <- s12,
    lost <- s13
SampledInit == part = "sampled alloc" /\ Sampled!Init /\ Spare14
SampledNext == part = "sampled alloc" /\ Sampled!Next /\ UNCHANGED <<part, vars>> /\ Idle14

\* Events before and after the log is opened, rolls and a file error.
Log == INSTANCE TraceLog WITH MaxEvents <- 3, MaxFlushes <- 3, MaxErrors <- 1, PreopenMax <- 2,
    RollSize <- 1, opened <- s1, buffer <- s2, loggedLength <- s3, overflow <- s4, batch <- s5,
    latest <- s6, posted <- s7, todo <- s8, files <- s9, fd <- s10, disk <- s11, barriers <- s12,
    ntriggered <- s13, ready <- s14, unblocked <- s15, accepted <- s16, nevents <- s17,
    nflushes <- s18, nerrors <- s19, covers <- s20
LogInit == part = "log" /\ Log!Init
LogNext == part = "log" /\ Log!Next /\ UNCHANGED <<part, vars>>

\* Two profilers, one after the other.
Prof == INSTANCE Profiler WITH Profilers <- 1..2, Capacity <- 5, MaxSamples <- 3, Frames <- 1..2,
    active <- s1, started <- s2, actor <- s3, blocked <- s4, pending <- s5, ticking <- s6,
    buffer <- s7, cur <- s8, file <- s9, accepted <- s10, samples <- s11, dangling <- s12
ProfInit == part = "profiler" /\ Prof!Init /\ Spare13
ProfNext == part = "profiler" /\ Prof!Next /\ UNCHANGED <<part, vars>> /\ Idle13

\* Room for ten words of stack traces.
Slow == INSTANCE SlowTaskProfiler WITH Words <- 10, Margin <- 3, Depths <- {1, 3, 8},
    MaxSignals <- 4, MaxInterval <- 3, main <- s1, blocked <- s2, pending <- s3, traces <- s4,
    other <- s5, offset <- s6, otherOffset <- s7, overflow <- s8, count <- s9, logged <- s10,
    reported <- s11, lastSame <- s12, compared <- s13, lastSignal <- s14, logInterval <- s15,
    taken <- s16, dropped <- s17
SlowInit == part = "slow task" /\ Slow!Init /\ Spare18
SlowNext == part = "slow task" /\ Slow!Next /\ UNCHANGED <<part, vars>> /\ Idle18

\* Three tasks of two neighbouring priorities.
Loop == INSTANCE RunLoop WITH Tasks <- 1..3, TaskID <- <<1, 2, 2>>, Shift <- 4, MaxIssued <- 2,
    Slice <- 1, MaxUsed <- 2, Seconds <- 1..2, phase <- s1, ready <- s2, timers <- s3,
    threadReady <- s4, issued <- s5, used <- s6, currentTaskID <- s7, numYields <- s8,
    stopped <- s9, owes <- s10, overtaken <- s11, early <- s12
LoopInit == part = "loop" /\ Loop!Init /\ Spare13
LoopNext == part = "loop" /\ Loop!Next /\ UNCHANGED <<part, vars>> /\ Idle13

\* Two threads that push three items.
Queue == INSTANCE ThreadSafeQueue WITH Producers <- {"p1", "p2"}, Items <- {"i1", "i2", "i3"},
    Stub <- "stub", Sleeping <- "sleeping", Null <- "null", head <- s1, tail <- s2, next <- s3,
    sleepy <- s4, ppc <- s5, pnode <- s6, pprev <- s7, cpc <- s8, ctail <- s9, cprev <- s10,
    again <- s11, result <- s12, maySleep <- s13, quiet <- s14, freed <- s15, pushed <- s16,
    popped <- s17
QueueInit == part = "queue" /\ Queue!QInit /\ Spare18
QueueNext == part = "queue" /\ Queue!QNext /\ UNCHANGED <<part, vars>> /\ Idle18

\* Buffers of two and one bytes with an empty one between, and one byte back.
Conn == INSTANCE Connection WITH Chain <- [a |-> <<2, 0, 1>>, b |-> <<1>>], Limits <- 1..3,
    ReadSizes <- 1..2, Room <- 2, MayClose <- {"a", "b"}, MayBreak <- TRUE, socket <- s1,
    broken <- s2, loop <- s3, ops <- s4, handlers <- s5, sent <- s6, wire <- s7, received <- s8
ConnInit == part = "connection" /\ Conn!Init /\ Spare9
ConnNext == part = "connection" /\ Conn!Next /\ UNCHANGED <<part, vars>> /\ Idle9

\* Two dialers by name, a listener, and the cache of local addresses.
Dial == INSTANCE Dialing WITH Dialers <- {"d1", "d2"}, Addresses <- {"x", "y", "z"}, MaxFound <- 2,
    CacheLimit <- 1, dial <- s1, answer <- s2, picked <- s3, socket <- s4, backlog <- s5,
    listener <- s6, accept <- s7, acceptOp <- s8, wild <- s9, cache <- s10
DialInit == part = "dialing" /\ Dial!Init /\ Spare11
DialNext == part = "dialing" /\ Dial!Next /\ UNCHANGED <<part, vars>> /\ Idle11

-----------------------------------------------------------------------------
AllInit ==
    /\ Init
    /\ FutureInit \/ AllocInit \/ SampledInit \/ LogInit \/ ProfInit \/ SlowInit \/ LoopInit
       \/ QueueInit \/ ConnInit \/ DialInit

AllNext ==
    \/ FutureNext \/ AllocNext \/ SampledNext \/ LogNext \/ ProfNext \/ SlowNext \/ LoopNext
    \/ QueueNext \/ ConnNext \/ DialNext

AllSpec == AllInit /\ [][AllNext]_allVars

ASSUME ConstantsAssumption ==
    /\ ThreadFutureAssumption
    /\ Alloc!FastAllocAssumption
    /\ Sampled!FastAllocAssumption
    /\ Log!TraceLogAssumption
    /\ Prof!ProfilerAssumption
    /\ Slow!SlowTaskAssumption
    /\ Loop!RunLoopAssumption
    /\ Conn!ConnectionAssumption
    /\ Dial!DialingAssumption

-----------------------------------------------------------------------------
(***************************************************************************)
(* No object is in two places, whichever thread releases it, and none is   *)
(* lost unless an event within getMagazine allocated or released in        *)
(* between; with and without such events the counts are the lengths of the *)
(* lists, and the account of a stack is of the objects held (FastAlloc).   *)
(***************************************************************************)
AllocatorSafe ==
    /\ part = "alloc" => Alloc!AllocatorSafe
    /\ part = "sampled alloc" => Sampled!AllocatorSafe

(***************************************************************************)
(* Events are written once and in order across rolls, closes and errors; a *)
(* flush that returned has written what came before it; rolled events are  *)
(* in every file (TraceLog).                                               *)
(***************************************************************************)
LogSafe ==
    part = "log" => Log!LogSafe

(***************************************************************************)
(* No sample that the profiler or the slow task profiler accepted is lost, *)
(* repeated or out of bounds, whichever step the signal interrupts.  Words *)
(* of the profiler that find its buffer full, and traces of the slow task  *)
(* profiler that do not fit, are dropped (Profiler, SlowTaskProfiler).     *)
(***************************************************************************)
SamplesIntact ==
    /\ part = "profiler" => Prof!WrittenInOrder
    /\ part = "slow task" => Slow!TracesIntact

(***************************************************************************)
(* yield() lets every task of a higher priority that was queued when it    *)
(* was called run first, those of other threads too; and what other        *)
(* threads push comes out in the order of their exchanges, no node being   *)
(* touched after it was freed (RunLoop, ThreadSafeQueue).                  *)
(***************************************************************************)
TasksInOrder ==
    /\ part = "loop" => Loop!YieldGivesWay
    /\ part = "queue" => Queue!QueueSafe

(***************************************************************************)
(* No byte of a connection is lost, repeated or out of order, however      *)
(* little a write or a read moves (Connection).                            *)
(***************************************************************************)
StreamInOrder ==
    part = "connection" => Conn!StreamInOrder

(***************************************************************************)
(* connect() picks among at least one address, leaves no socket open when  *)
(* it fails or its caller gives up, at whichever step of the lookup or of  *)
(* the connection, and the cache is bounded (Dialing).                     *)
(***************************************************************************)
DialingSafe ==
    part = "dialing" => Dial!DialingSafe
=============================================================================
