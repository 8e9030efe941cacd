------------------------------ MODULE MCActors ------------------------------
(***************************************************************************)
(* The classes and actors that live on the network thread, each in a small *)
(* instance and each on its own: part says which one a behaviour is about. *)
(* The variables of QuorumFuture are here under their own names, so that   *)
(* the run checks the invariant that is proved; the slots are those of any *)
(* other component.                                                        *)
(***************************************************************************)
EXTENDS QuorumFuture, TLC

CONSTANT Watchers \* of an AsyncMap; alike

VARIABLES part, \* the component that runs
          s1, s2, s3, s4, s5, s6, s7, s8, s9, s10, s11, s12 \* its variables, in their order

allVars == <<part, vars, s1, s2, s3, s4, s5, s6, s7, s8, s9, s10, s11, s12>>

\* The slots from the nth on are not used.
Spare11 == s11 = 0 /\ s12 = 0
Spare9 == s9 = 0 /\ s10 = 0 /\ Spare11
Spare7 == s7 = 0 /\ s8 = 0 /\ Spare9
Spare4 == s4 = 0 /\ s5 = 0 /\ s6 = 0 /\ Spare7
Idle11 == UNCHANGED <<s11, s12>>
Idle9 == UNCHANGED <<s9, s10>> /\ Idle11
Idle7 == UNCHANGED <<s7, s8>> /\ Idle9
Idle4 == UNCHANGED <<s4, s5, s6>> /\ Idle7

-----------------------------------------------------------------------------
\* Every quorum of the results; where it does not run, one that needs none.
Spare1 == s1 = 0 /\ s2 = 0 /\ s3 = 0 /\ Spare4
Idle1 == UNCHANGED <<s1, s2, s3>> /\ Idle4
QuorumInit == part = "quorum" /\ Init /\ Spare1
QuorumNext == part = "quorum" /\ Next /\ UNCHANGED part /\ Idle1
NoQuorum == required = 0 /\ result = [x \in Results |-> "pending"] /\ Init

\* Every small actor with every order of its inputs, timer and cancel.
Small == INSTANCE FutureActors WITH kind <- s1, pc <- s2, saved <- s3, result <- s4, effects <- s5,
    in <- s6, first <- s7, cancelled <- s8
SmallInit == part = "small" /\ Small!Init /\ Spare9
SmallNext == part = "small" /\ Small!Next /\ UNCHANGED <<part, vars>> /\ Idle9

\* The actors that turn a stream into another.
Actors == INSTANCE StreamActors WITH Kinds <- {"map", "filter", "mapAsync", "asyncFilter", "yield"},
    MaxItems <- 4, kind <- s1, pc <- s2, input <- s3, inError <- s4, sent <- s5, futures <- s6,
    output <- s7, outError <- s8
ActorsInit == part = "actors" /\ Actors!Init /\ Spare9
ActorsNext == part = "actors" /\ Actors!Next /\ UNCHANGED <<part, vars>> /\ Idle9

\* Two streams merged as they come.
Unordered == INSTANCE StreamMerge WITH Kind <- "unordered", Items <- {1, 2, 3}, MaxItems <- 2,
    sent <- s1, read <- s2, inError <- s3, saved <- s4, open <- s5, output <- s6, outError <- s7,
    pc <- s8
UnorderedInit == part = "unordered" /\ Unordered!Init /\ Spare9
UnorderedNext == part = "unordered" /\ Unordered!Next /\ UNCHANGED <<part, vars>> /\ Idle9

\* Two increasing streams merged by key.
Ordered == INSTANCE StreamMerge WITH Kind <- "ordered", Items <- {1, 2, 3}, MaxItems <- 2,
    sent <- s1, read <- s2, inError <- s3, saved <- s4, open <- s5, output <- s6, outError <- s7,
    pc <- s8
OrderedInit == part = "ordered" /\ Ordered!Init /\ Spare9
OrderedNext == part = "ordered" /\ Ordered!Next /\ UNCHANGED <<part, vars>> /\ Idle9

\* One plain and three yielded callbacks.
Ring == INSTANCE YieldedFuture WITH Plain <- {"p"}, Yielded <- {"y1", "y2", "y3"}, Errors <- TRUE,
    source <- s1, ring <- s2, delayed <- s3, firing <- s4, error_state <- s5, result <- s6
RingInit == part = "yielded" /\ Ring!Init /\ Spare7
RingNext == part = "yielded" /\ Ring!Next /\ UNCHANGED <<part, vars>> /\ Idle7

\* Watchers of two keys, with a change inside a change.
Map == INSTANCE AsyncMap WITH Keys <- {1, 2}, Values <- {0, 1}, Watchers <- Watchers, Ids <- 1..6,
    Depth <- 2, Yielded <- FALSE, items <- s1, watch <- s2, firing <- s3, destructing <- s4,
    lastSet <- s5, erasedLate <- s6
MapInit == part = "map" /\ Map!Init /\ Spare7
MapNext == part = "map" /\ Map!Next /\ UNCHANGED <<part, vars>> /\ Idle7

\* The same for YieldedAsyncMap and one key.
YieldedMap == INSTANCE AsyncMap WITH Keys <- {1}, Values <- {0, 1}, Watchers <- Watchers,
    Ids <- 1..6, Depth <- 2, Yielded <- TRUE, items <- s1, watch <- s2, firing <- s3,
    destructing <- s4, lastSet <- s5, erasedLate <- s6
YieldedMapInit == part = "yielded map" /\ YieldedMap!Init /\ Spare7
YieldedMapNext == part = "yielded map" /\ YieldedMap!Next /\ UNCHANGED <<part, vars>> /\ Idle7

\* A variable that is copied, delayed and reset.
Var == INSTANCE AsyncVars WITH Values <- {0, 1, 2}, Reset <- 0, Depth <- 4, in <- s1, out <- s2,
    wait <- s3, resetDelay <- s4, stack <- s5, missed <- s6
VarInit == part = "var" /\ Var!Init /\ Spare7
VarNext == part = "var" /\ Var!Next /\ UNCHANGED <<part, vars>> /\ Idle7

\* Two AndFutures that are given three futures.
And == INSTANCE AndFuture WITH Given <- {1, 2, 3}, Objects <- {"p", "q"}, state <- s1,
    futures <- s2, added <- s3
AndInit == part = "and" /\ And!Init /\ Spare4
AndNext == part = "and" /\ And!Next /\ UNCHANGED <<part, vars>> /\ Idle4

\* Three generations of a signalable collection.
Collection == INSTANCE ActorCollection WITH Futures <- {"f"} \X (1..2), Generations <- 1..3,
    Used <- 1..3, MaxTime <- 0, done <- s1, failed <- s2, cur <- s3, state <- s4, members <- s5,
    added <- s6, held <- s7, now <- s8, lastChangeTime <- s9, idleTime <- s10, allTime <- s11,
    idle <- s12
CollectionInit == part = "collection" /\ Collection!Init
CollectionNext == part = "collection" /\ Collection!Next /\ UNCHANGED <<part, vars>>

\* A plain collection and the clock.
Times == INSTANCE ActorCollection WITH Futures <- {"f"} \X (1..3), Generations <- {1}, Used <- {0},
    MaxTime <- 4, done <- s1, failed <- s2, cur <- s3, state <- s4, members <- s5, added <- s6,
    held <- s7, now <- s8, lastChangeTime <- s9, idleTime <- s10, allTime <- s11, idle <- s12
TimesInit == part = "plain" /\ Times!Init
TimesNext == part = "plain" /\ Times!Next /\ UNCHANGED <<part, vars>>

\* The fuzz actors and the control flow tests.
Machine == INSTANCE ActorMachine WITH MaxBefore <- 3, MaxLater <- 3, MaxInputs <- 20, test <- s1,
    before <- s2, errorBefore <- s3, k <- s4, v <- s5, status <- s6, i <- s7, in <- s8, fut <- s9,
    out <- s10
MachineInit == part = "machine" /\ Machine!Init /\ Spare11
MachineNext == part = "machine" /\ Machine!Next /\ UNCHANGED <<part, vars>> /\ Idle11

-----------------------------------------------------------------------------
OtherInit ==
    \/ SmallInit \/ ActorsInit \/ UnorderedInit \/ OrderedInit \/ RingInit \/ MapInit
    \/ YieldedMapInit \/ VarInit \/ AndInit \/ CollectionInit \/ TimesInit \/ MachineInit

AllInit == QuorumInit \/ (NoQuorum /\ OtherInit)

AllNext ==
    \/ QuorumNext \/ SmallNext \/ ActorsNext \/ UnorderedNext \/ OrderedNext \/ RingNext \/ MapNext
    \/ YieldedMapNext \/ VarNext \/ AndNext \/ CollectionNext \/ TimesNext \/ MachineNext

AllSpec == AllInit /\ [][AllNext]_allVars

ASSUME ConstantsAssumption ==
    /\ QuorumAssumption
    /\ Actors!StreamActorsAssumption
    /\ Unordered!MergeAssumption
    /\ Ordered!MergeAssumption
    /\ Ring!YieldedFutureAssumption
    /\ Map!AsyncMapAssumption
    /\ YieldedMap!AsyncMapAssumption
    /\ Var!AsyncVarsAssumption
    /\ And!AndFutureAssumption
    /\ Collection!ActorCollectionAssumption
    /\ Times!ActorCollectionAssumption
    /\ Machine!ActorMachineAssumption

-----------------------------------------------------------------------------
\* Watchers are alike.
Symmetric == Permutations(Watchers)

(***************************************************************************)
(* The combinators compute what their names and comments say, in every     *)
(* order of inputs, timer and cancellation (FutureActors).                 *)
(***************************************************************************)
CombinatorsRight ==
    part = "small" => Small!CombinatorsRight

(***************************************************************************)
(* The stream actors and both merges lose, repeat and reorder nothing, and *)
(* end only when everything was handled (StreamActors, StreamMerge).       *)
(***************************************************************************)
StreamsKeepOrder ==
    /\ part = "actors" => Actors!StreamActorsRight
    /\ part = "unordered" => Unordered!MergeRight
    /\ part = "ordered" => Ordered!MergeRight

(***************************************************************************)
(* A callback of a yielded future that waits is in exactly one ring, and   *)
(* only yielded ones move to the delay (YieldedFuture).                    *)
(***************************************************************************)
YieldedSafe ==
    part = "yielded" => Ring!YieldedSafe

(***************************************************************************)
(* No watcher of an AsyncMap is forgotten, no value undone by one that is  *)
(* cancelled, no entry touched in the destructor; and the copies of an     *)
(* AsyncVar are current (AsyncMap, AsyncVars).                             *)
(***************************************************************************)
WatchersSafe ==
    /\ part = "map" => Map!WatchersSafe
    /\ part = "yielded map" => YieldedMap!WatchersSafe
    /\ part = "var" => Var!CopiesRight

(***************************************************************************)
(* An AndFuture answers for all that it was given, although it forgets     *)
(* what has succeeded (AndFuture).                                         *)
(***************************************************************************)
AndFutureRight ==
    part = "and" => And!AndFutureRight

(***************************************************************************)
(* A collection that has returned was signalled and all that was added is  *)
(* ready; its times are right (ActorCollection).                           *)
(***************************************************************************)
CollectionRight ==
    /\ part = "collection" => Collection!CollectionRight
    /\ part = "plain" => Times!CollectionRight

(***************************************************************************)
(* Every test actor puts out what its test expects, whenever its inputs    *)
(* and its error arrive (ActorMachine).                                    *)
(***************************************************************************)
AsExpected ==
    part = "machine" => Machine!AsExpected
=============================================================================
