----------------------------- MODULE MCProgress -----------------------------
(***************************************************************************)
(* What has to happen in the end, each component in a small instance and   *)
(* each on its own: part says which one a behaviour is about.  The         *)
(* variables of ThreadPool are here under their own names, so that the run *)
(* checks the invariant that is proved; the slots are those of any other   *)
(* component.                                                              *)
(***************************************************************************)
EXTENDS ThreadPool, TLC

VARIABLES part, \* the component that runs
          s1, s2, s3, s4, s5, s6, s7, s8, s9, s10, s11, s12, s13, s14, s15, s16, s17, s18, s19, s20 \* its variables, in their order

allVars == <<part, vars, s1, s2, s3, s4, s5, s6, s7, s8, s9, s10, s11, s12, s13, s14, s15, s16,
             s17, s18, s19, s20>>

\* The slots from the nth on are not used.
Spare18 == s18 = 0 /\ s19 = 0 /\ s20 = 0
Spare17 == s17 = 0 /\ Spare18
Spare13 == s13 = 0 /\ s14 = 0 /\ s15 = 0 /\ s16 = 0 /\ Spare17
Spare11 == s11 = 0 /\ s12 = 0 /\ Spare13
Spare10 == s10 = 0 /\ Spare11
Spare9 == s9 = 0 /\ Spare10
Spare7 == s7 = 0 /\ s8 = 0 /\ Spare9
Idle18 == UNCHANGED <<s18, s19, s20>>
Idle17 == UNCHANGED <<s17>> /\ Idle18
Idle13 == UNCHANGED <<s13, s14, s15, s16>> /\ Idle17
Idle11 == UNCHANGED <<s11, s12>> /\ Idle13
Idle10 == UNCHANGED <<s10>> /\ Idle11
Idle9 == UNCHANGED <<s9>> /\ Idle10
Idle7 == UNCHANGED <<s7, s8>> /\ Idle9

-----------------------------------------------------------------------------
\* Three clients that want one permit, or up to three.
Lock == INSTANCE FlowLock WITH Clients <- {"c1", "c2", "c3"}, permits <- 2, Amounts <- {1},
    UpTo <- {1, 3}, alive <- s1, active <- s2, takers <- s3, granting <- s4, stage <- s5,
    asked <- s6, wanted <- s7, held <- s8
LockInit == part = "lock" /\ Lock!Init /\ Spare9
LockNext == part = "lock" /\ Lock!Next /\ UNCHANGED <<part, vars>> /\ Idle9

\* Two generations of a signalable collection.
Collection == INSTANCE ActorCollection WITH Futures <- {"f"} \X (1..2), Generations <- 1..2,
    Used <- 1..2, MaxTime <- 0, done <- s1, failed <- s2, cur <- s3, state <- s4, members <- s5,
    added <- s6, held <- s7, now <- s8, lastChangeTime <- s9, idleTime <- s10, allTime <- s11,
    idle <- s12
CollectionInit == part = "collection" /\ Collection!Init /\ Spare13
CollectionNext == part = "collection" /\ Collection!Next /\ UNCHANGED <<part, vars>> /\ Idle13

\* Two streams merged as they come.
Unordered == INSTANCE StreamMerge WITH Kind <- "unordered", Items <- {1, 2}, MaxItems <- 1,
    sent <- s1, read <- s2, inError <- s3, saved <- s4, open <- s5, output <- s6, outError <- s7,
    pc <- s8
UnorderedInit == part = "unordered" /\ Unordered!Init /\ Spare9
UnorderedNext == part = "unordered" /\ Unordered!Next /\ UNCHANGED <<part, vars>> /\ Idle9

\* Two increasing streams merged by key.
Ordered == INSTANCE StreamMerge WITH Kind <- "ordered", Items <- {1, 2}, MaxItems <- 2, sent <- s1,
    read <- s2, inError <- s3, saved <- s4, open <- s5, output <- s6, outError <- s7, pc <- s8
OrderedInit == part = "ordered" /\ Ordered!Init /\ Spare9
OrderedNext == part = "ordered" /\ Ordered!Next /\ UNCHANGED <<part, vars>> /\ Idle9

\* The actors that turn a stream into another.
Actors == INSTANCE StreamActors WITH Kinds <- {"map", "filter", "mapAsync", "asyncFilter", "yield"},
    MaxItems <- 3, kind <- s1, pc <- s2, input <- s3, inError <- s4, sent <- s5, futures <- s6,
    output <- s7, outError <- s8
ActorsInit == part = "actors" /\ Actors!Init /\ Spare9
ActorsNext == part = "actors" /\ Actors!Next /\ UNCHANGED <<part, vars>> /\ Idle9

\* One plain and two yielded callbacks.
Ring == INSTANCE YieldedFuture WITH Plain <- {"p"}, Yielded <- {"y1", "y2"}, Errors <- TRUE,
    source <- s1, ring <- s2, delayed <- s3, firing <- s4, error_state <- s5, result <- s6
RingInit == part = "yielded" /\ Ring!Init /\ Spare7
RingNext == part = "yielded" /\ Ring!Next /\ UNCHANGED <<part, vars>> /\ Idle7

\* Every small actor.
Small == INSTANCE FutureActors WITH kind <- s1, pc <- s2, saved <- s3, result <- s4, effects <- s5,
    in <- s6, first <- s7, cancelled <- s8
SmallInit == part = "small" /\ Small!Init /\ Spare9
SmallNext == part = "small" /\ Small!Next /\ UNCHANGED <<part, vars>> /\ Idle9

\* A variable that is copied, delayed and reset.
Var == INSTANCE AsyncVars WITH Values <- {0, 1, 2}, Reset <- 0, Depth <- 3, in <- s1, out <- s2,
    wait <- s3, resetDelay <- s4, stack <- s5, missed <- s6
VarInit == part = "var" /\ Var!Init /\ Spare7
VarNext == part = "var" /\ Var!Next /\ UNCHANGED <<part, vars>> /\ Idle7

\* The fuzz actors and the control flow tests.
Machine == INSTANCE ActorMachine WITH MaxBefore <- 1, MaxLater <- 1, MaxInputs <- 20, test <- s1,
    before <- s2, errorBefore <- s3, k <- s4, v <- s5, status <- s6, i <- s7, in <- s8, fut <- s9,
    out <- s10
MachineInit == part = "machine" /\ Machine!Init /\ Spare11
MachineNext == part = "machine" /\ Machine!Next /\ UNCHANGED <<part, vars>> /\ Idle11

\* Two client threads.
Future == INSTANCE ThreadFuture WITH Clients <- {"c1", "c2"}, Owner <- "c1", Releases <- FALSE,
    status <- s1, first <- s2, refs <- s3, values <- s4, cbs <- s5, multi <- s6, func <- s7,
    actor <- s8, tasks <- s9, cancelling <- s10, pc <- s11, reg <- s12, told <- s13, got <- s14,
    cancelled <- s15, destroyer <- s16
FutureInit == part = "future" /\ Future!Init /\ Spare17
FutureNext == part = "future" /\ Future!Next /\ UNCHANGED <<part, vars>> /\ Idle17

\* A pool of two threads that is dropped.
Pool == INSTANCE ThreadPool WITH Threads <- {"t1", "t2"}, Actions <- {"a1", "a2"},
    ExplicitStop <- FALSE, held <- s1, refs <- s2, mode <- s3, ios <- s4, deleted <- s5,
    threads <- s6, thr <- s7, act <- s8, joining <- s9
PoolInit == part = "pool" /\ Pool!Init /\ Spare10
PoolNext == part = "pool" /\ Pool!Next /\ UNCHANGED <<part, vars>> /\ Idle10

\* A pool that may be stopped before it is dropped.
Spare1 == s1 = 0 /\ s2 = 0 /\ s3 = 0 /\ s4 = 0 /\ s5 = 0 /\ s6 = 0 /\ Spare7
Idle1 == UNCHANGED <<s1, s2, s3, s4, s5, s6>> /\ Idle7
StoppedInit == part = "stopped pool" /\ Spare1
StoppedNext == part = "stopped pool" /\ Next /\ UNCHANGED part /\ Idle1

\* A log whose file may fail once.
Log == INSTANCE TraceLog WITH MaxEvents <- 2, MaxFlushes <- 2, MaxErrors <- 1, PreopenMax <- 1,
    RollSize <- 1, opened <- s1, buffer <- s2, loggedLength <- s3, overflow <- s4, batch <- s5,
    latest <- s6, posted <- s7, todo <- s8, files <- s9, fd <- s10, disk <- s11, barriers <- s12,
    ntriggered <- s13, ready <- s14, unblocked <- s15, accepted <- s16, nevents <- s17,
    nflushes <- s18, nerrors <- s19, covers <- s20
LogInit == part = "log" /\ Log!Init
LogNext == part = "log" /\ Log!Next /\ UNCHANGED <<part, vars>>

\* Two tasks and their delays.
Loop == INSTANCE RunLoop WITH Tasks <- 1..2, TaskID <- <<1, 2>>, Shift <- 4, MaxIssued <- 1,
    Slice <- 1, MaxUsed <- 2, Seconds <- {2}, phase <- s1, ready <- s2, timers <- s3,
    threadReady <- s4, issued <- s5, used <- s6, currentTaskID <- s7, numYields <- s8,
    stopped <- s9, owes <- s10, overtaken <- s11, early <- s12
LoopInit == part = "loop" /\ Loop!Init /\ Spare13
LoopNext == part = "loop" /\ Loop!Next /\ UNCHANGED <<part, vars>> /\ Idle13

\* Two profilers, one after the other.
Prof == INSTANCE Profiler WITH Profilers <- 1..2, Capacity <- 5, MaxSamples <- 2, Frames <- 1..2,
    active <- s1, started <- s2, actor <- s3, blocked <- s4, pending <- s5, ticking <- s6,
    buffer <- s7, cur <- s8, file <- s9, accepted <- s10, samples <- s11, dangling <- s12
ProfInit == part = "profiler" /\ Prof!Init /\ Spare13
ProfNext == part = "profiler" /\ Prof!Next /\ UNCHANGED <<part, vars>> /\ Idle13

\* Two signals.
Slow == INSTANCE SlowTaskProfiler WITH Words <- 10, Margin <- 3, Depths <- {1, 8}, MaxSignals <- 2,
    MaxInterval <- 2, main <- s1, blocked <- s2, pending <- s3, traces <- s4, other <- s5,
    offset <- s6, otherOffset <- s7, overflow <- s8, count <- s9, logged <- s10, reported <- s11,
    lastSame <- s12, compared <- s13, lastSignal <- s14, logInterval <- s15, taken <- s16,
    dropped <- s17
SlowInit == part = "slow task" /\ Slow!Init /\ Spare18
SlowNext == part = "slow task" /\ Slow!Next /\ UNCHANGED <<part, vars>> /\ Idle18

\* A connection that nobody closes.
Open == INSTANCE Connection WITH Chain <- [a |-> <<2, 0, 1>>, b |-> <<1>>], Limits <- {1, 3},
    ReadSizes <- {2}, Room <- 1, MayClose <- {}, MayBreak <- FALSE, socket <- s1, broken <- s2,
    loop <- s3, ops <- s4, handlers <- s5, sent <- s6, wire <- s7, received <- s8
OpenInit == part = "open" /\ Open!Init /\ Spare9
OpenNext == part = "open" /\ Open!Next /\ UNCHANGED <<part, vars>> /\ Idle9

\* A connection that one end may close.
Closing == INSTANCE Connection WITH Chain <- [a |-> <<1>>, b |-> <<2>>], Limits <- {2},
    ReadSizes <- {1}, Room <- 1, MayClose <- {"a"}, MayBreak <- FALSE, socket <- s1, broken <- s2,
    loop <- s3, ops <- s4, handlers <- s5, sent <- s6, wire <- s7, received <- s8
ClosingInit == part = "closing" /\ Closing!Init /\ Spare9
ClosingNext == part = "closing" /\ Closing!Next /\ UNCHANGED <<part, vars>> /\ Idle9

-----------------------------------------------------------------------------
AllInit ==
    /\ Init
    /\ \/ LockInit \/ CollectionInit \/ UnorderedInit \/ OrderedInit \/ ActorsInit \/ RingInit
       \/ SmallInit \/ VarInit \/ MachineInit \/ FutureInit \/ PoolInit \/ StoppedInit \/ LogInit
       \/ LoopInit \/ ProfInit \/ SlowInit \/ OpenInit \/ ClosingInit

AllNext ==
    \/ LockNext \/ CollectionNext \/ UnorderedNext \/ OrderedNext \/ ActorsNext \/ RingNext
    \/ SmallNext \/ VarNext \/ MachineNext \/ FutureNext \/ PoolNext \/ StoppedNext \/ LogNext
    \/ LoopNext \/ ProfNext \/ SlowNext \/ OpenNext \/ ClosingNext

AllSpec == AllInit /\ [][AllNext]_allVars

\* What the network thread, a writer or an actor does of itself.
Work ==
    \/ part = "lock" /\ Lock!LoopStep /\ UNCHANGED <<part, vars>> /\ Idle9
    \/ part = "collection" /\ Collection!Callbacks /\ UNCHANGED <<part, vars>> /\ Idle13
    \/ part = "unordered" /\ Unordered!ActorStep /\ UNCHANGED <<part, vars>> /\ Idle9
    \/ part = "ordered" /\ Ordered!ActorStep /\ UNCHANGED <<part, vars>> /\ Idle9
    \/ part = "actors" /\ Actors!ActorStep /\ UNCHANGED <<part, vars>> /\ Idle9
    \/ part = "yielded" /\ Ring!Step /\ UNCHANGED <<part, vars>> /\ Idle7
    \/ part = "small" /\ (Small!Begin \/ Small!Resume) /\ UNCHANGED <<part, vars>> /\ Idle9
    \/ part = "var" /\ (Var!RunWaiter \/ Var!SendReturns \/ Var!DelayedAfterDelay) /\ UNCHANGED <<part, vars>> /\ Idle7
    \/ part = "machine" /\ Machine!Next /\ UNCHANGED <<part, vars>> /\ Idle11
    \/ part = "future" /\ Future!NetworkStep /\ UNCHANGED <<part, vars>> /\ Idle17
    \/ part = "pool" /\ (Pool!Join \/ Pool!StopReturns) /\ UNCHANGED <<part, vars>> /\ Idle10
    \/ part = "stopped pool" /\ (Join \/ StopReturns) /\ UNCHANGED part /\ Idle1
    \/ part = "log" /\ Log!WriterStep /\ UNCHANGED <<part, vars>>
    \/ part = "loop" /\ Loop!Loop /\ UNCHANGED <<part, vars>> /\ Idle13
    \/ part = "profiler" /\ Prof!profile /\ UNCHANGED <<part, vars>> /\ Idle13
    \/ part = "slow task" /\ (Slow!Check \/ Slow!Remember) /\ UNCHANGED <<part, vars>> /\ Idle18

\* The nth of the others that work beside it: a client, a thread of the pool,
\* the reader or the writer of an end, the clock, the reactor, a signal.
Side == <<<<"a", "read">>, <<"a", "write">>, <<"b", "read">>, <<"b", "write">>>>

Turn(n) ==
    \/ part = "future" /\ n < 3 /\ Future!CallStep(<<"c1", "c2">>[n]) /\ UNCHANGED <<part, vars>> /\ Idle17
    \/ part = "pool" /\ n < 3 /\ Pool!ThreadStep(<<"t1", "t2">>[n]) /\ UNCHANGED <<part, vars>> /\ Idle10
    \/ part = "stopped pool" /\ n < 3 /\ ThreadStep(<<"t1", "t2">>[n]) /\ UNCHANGED part /\ Idle1
    \/ part = "open" /\ Open!EndStep(Side[n][1], Side[n][2]) /\ UNCHANGED <<part, vars>> /\ Idle9
    \/ part = "closing" /\ Closing!EndStep(Side[n][1], Side[n][2]) /\ UNCHANGED <<part, vars>> /\ Idle9
    \/ part = "actors" /\ n = 1 /\ Actors!Answers /\ UNCHANGED <<part, vars>> /\ Idle9
    \/ part = "log" /\ n = 1 /\ Log!CloseEnds /\ UNCHANGED <<part, vars>>
    \/ part = "loop" /\ n = 1 /\ Loop!Tick /\ UNCHANGED <<part, vars>> /\ Idle13
    \/ part = "slow task" /\ n = 1 /\ (\E d \in {1, 8} : Slow!profileHandler(d)) /\ UNCHANGED <<part, vars>> /\ Idle18
    \/ part = "profiler" /\ n = 1 /\ Prof!Tick /\ UNCHANGED <<part, vars>> /\ Idle13
    \/ part = "profiler" /\ n = 2 /\ (\E enabled \in BOOLEAN : Prof!signal_handler(enabled)) /\ UNCHANGED <<part, vars>> /\ Idle13

\* What goes on although others interrupt it again and again: the nth client of
\* the lock, and the delay of resetAfter.
Often(n) ==
    \/ part = "lock" /\ Lock!GoOn(<<"c1", "c2", "c3">>[n]) /\ UNCHANGED <<part, vars>> /\ Idle9
    \/ part = "var" /\ n = 1 /\ Var!ResetDelayEnds /\ UNCHANGED <<part, vars>> /\ Idle7

(***************************************************************************)
(* Only one component runs in a behaviour, so that the fairness of several *)
(* shares a conjunct.  The clients of a lock are strongly fair because     *)
(* granting, an instant inside one call, interrupts the enabledness of     *)
(* what they are about to do; the delay of resetAfter because every change *)
(* starts it anew.                                                         *)
(***************************************************************************)
AllFairSpec ==
    /\ AllSpec
    /\ WF_allVars(Work)
    /\ \A n \in 1..4 : WF_allVars(Turn(n))
    /\ \A n \in 1..3 : SF_allVars(Often(n))

ASSUME ConstantsAssumption ==
    /\ Collection!ActorCollectionAssumption
    /\ Unordered!MergeAssumption
    /\ Ordered!MergeAssumption
    /\ Actors!StreamActorsAssumption
    /\ Ring!YieldedFutureAssumption
    /\ Var!AsyncVarsAssumption
    /\ Machine!ActorMachineAssumption
    /\ Future!ThreadFutureAssumption
    /\ Pool!ThreadPoolAssumption
    /\ ThreadPoolAssumption
    /\ Log!TraceLogAssumption
    /\ Loop!RunLoopAssumption
    /\ Prof!ProfilerAssumption
    /\ Slow!SlowTaskAssumption
    /\ Open!ConnectionAssumption
    /\ Closing!ConnectionAssumption

-----------------------------------------------------------------------------
(***************************************************************************)
(* With requests for one permit, no queued taker of a FlowLock starves     *)
(* although later callers may barge in, unless permits were lost with a    *)
(* cancelled releaseWhen (FlowLock). Clients are alike: one is watched.    *)
(***************************************************************************)
QueuedIsServed ==
    (part = "lock" /\ Lock!Queued("c1")) ~> (part = "lock" => ~Lock!Queued("c1") \/ Lock!PermitsLost)

(***************************************************************************)
(* A signalled collection answers; both merges and the stream actors end   *)
(* when their inputs have; every callback of a yielded future fires; a     *)
(* cancelled actor ends; a variable under resetAfter comes back; every     *)
(* test actor returns (ActorCollection, StreamMerge, StreamActors,         *)
(* YieldedFuture, FutureActors, AsyncVars, ActorMachine).                  *)
(***************************************************************************)
ActorOwes(n) ==
    \/ part = "collection" /\ Collection!Signalled(n)
    \/ part = "unordered" /\ Unordered!BothEnd
    \/ part = "ordered" /\ Ordered!BothEnd
    \/ part = "actors" /\ Actors!InputEnded
    \/ part = "yielded" /\ Ring!Due(<<"p", "y1">>[n])
    \/ part = "small" /\ Small!CancelRequested
    \/ part = "var" /\ Var!Changed
    \/ part = "machine" /\ ~Machine!Returned

ActorPaid(n) ==
    /\ part = "collection" => Collection!Answered(n)
    /\ part = "unordered" => Unordered!Told
    /\ part = "ordered" => Ordered!Told
    /\ part = "actors" => ~Actors!Running
    /\ part = "yielded" => ~Ring!Due(<<"p", "y1">>[n])
    /\ part = "small" => Small!Ended
    /\ part = "var" => ~Var!Changed
    /\ part = "machine" => Machine!Returned

ActorsAnswer ==
    \A n \in 1..2 : ActorOwes(n) ~> ActorPaid(n)

(***************************************************************************)
(* A thread in blockUntilReady gets on, a variable that is cancelled and   *)
(* let go is destroyed, stop() of a pool returns, and an action of a pool  *)
(* that is dropped is called or cancelled (ThreadFuture, ThreadPool).      *)
(***************************************************************************)
ThreadOwes(n) ==
    \/ part = "future" /\ n < 3 /\ Future!Blocked(<<"c1", "c2">>[n])
    \/ part = "future" /\ n = 3 /\ Future!Abandoned
    \/ part = "pool" /\ n < 3 /\ Pool!Owed(<<"a1", "a2">>[n])
    \/ part = "pool" /\ n = 3 /\ Pool!Stopping
    \/ part = "stopped pool" /\ Stopping

ThreadPaid(n) ==
    /\ part = "future" /\ n < 3 => Future!Woken(<<"c1", "c2">>[n])
    /\ part = "future" /\ n = 3 => Future!Destroyed
    /\ part = "pool" /\ n < 3 => Pool!Settled(<<"a1", "a2">>[n])
    /\ part = "pool" /\ n = 3 => ~Pool!Stopping
    /\ part = "stopped pool" => ~Stopping

ThreadsReturn ==
    \A n \in 1..3 : ThreadOwes(n) ~> ThreadPaid(n)

(***************************************************************************)
(* A delay ends unless the network is stopped, run() returns once it is,   *)
(* no flush and no close of the trace log waits for ever, even if writes   *)
(* fail for ever, unless close() of a file does, pushed samples reach the  *)
(* file, and a task that does not end is sampled (RunLoop, TraceLog,       *)
(* Profiler, SlowTaskProfiler).                                            *)
(***************************************************************************)
LoopOwes(n) ==
    \/ part = "loop" /\ n < 3 /\ Loop!Delayed(n)
    \/ part = "loop" /\ n = 3 /\ Loop!Stopped
    \/ part = "log" /\ n < 3 /\ Log!Flushing(n)
    \/ part = "log" /\ n = 3 /\ Log!Closing
    \/ part = "profiler" /\ Prof!Held(2 * n)
    \/ part = "slow task" /\ n < 3 /\ Slow!Unsampled(n - 1)

LoopPaid(n) ==
    /\ part = "loop" /\ n < 3 => ~Loop!Delayed(n)
    /\ part = "loop" /\ n = 3 => Loop!Returned
    /\ part = "log" /\ n < 3 => ~Log!Flushing(n)
    /\ part = "log" /\ n = 3 => ~Log!Closing
    /\ part = "profiler" => Prof!Reached(2 * n)
    /\ part = "slow task" /\ n < 3 => ~Slow!Unsampled(n - 1)

LoopsGoOn ==
    \/ <>[](part = "log" /\ Log!Stuck)
    \/ \A n \in 1..3 : LoopOwes(n) ~> LoopPaid(n)

(***************************************************************************)
(* While nobody closes a connection everything that was to be written      *)
(* arrives; and once the reader or the writer of an end has failed, the    *)
(* other does not go on waiting for its probe (Connection).                *)
(***************************************************************************)
BytesArrive ==
    /\ <>(part = "open" => Open!Arrived("a") /\ Open!Arrived("b"))
    /\ \A n \in 1..4 :
         (part = "closing" /\ \E k \in {"read", "write"} : Closing!Failed(Side[n][1], k))
            ~> (part = "closing" => ~Closing!Probing(Side[n][1], Side[n][2]))
=============================================================================
