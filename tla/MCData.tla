------------------------------- MODULE MCData -------------------------------
(***************************************************************************)
(* Data structures, pure functions, and what the trace and metric services *)
(* keep, each in a small instance and each on its own: part says which one *)
(* a behaviour is about, and the slots are its variables.                  *)
(***************************************************************************)
EXTENDS Integers, Sequences, FiniteSets, TLC

VARIABLES part, \* the component that runs
          s1, s2, s3, s4, s5, s6, s7, s8, s9, s10, s11, s12, s13, s14, s15, s16, s17, s18 \* its variables, in their order

vars == <<part, s1, s2, s3, s4, s5, s6, s7, s8, s9, s10, s11, s12, s13, s14, s15, s16, s17,
          s18>>

\* The slots from the nth on are not used.
Spare14 == s14 = 0 /\ s15 = 0 /\ s16 = 0 /\ s17 = 0 /\ s18 = 0
Spare13 == s13 = 0 /\ Spare14
Spare10 == s10 = 0 /\ s11 = 0 /\ s12 = 0 /\ Spare13
Spare9 == s9 = 0 /\ Spare10
Spare6 == s6 = 0 /\ s7 = 0 /\ s8 = 0 /\ Spare9
Spare5 == s5 = 0 /\ Spare6
Spare4 == s4 = 0 /\ Spare5
Spare3 == s3 = 0 /\ Spare4
Spare2 == s2 = 0 /\ Spare3
Idle14 == UNCHANGED <<s14, s15, s16, s17, s18>>
Idle13 == UNCHANGED <<s13>> /\ Idle14
Idle10 == UNCHANGED <<s10, s11, s12>> /\ Idle13
Idle9 == UNCHANGED <<s9>> /\ Idle10
Idle6 == UNCHANGED <<s6, s7, s8>> /\ Idle9
Idle5 == UNCHANGED <<s5>> /\ Idle6
Idle4 == UNCHANGED <<s4>> /\ Idle5
Idle3 == UNCHANGED <<s3>> /\ Idle4
Idle2 == UNCHANGED <<s2>> /\ Idle3

-----------------------------------------------------------------------------
\* Vectors of items for the insert of many, all increasing.
Increasing == {<<<<i, 1>>, <<i + 2, 1>>, <<i + 5, 1>>>> : i \in 1..4}
Sorted == {<<<<i, 2>>, <<3, 1>>, <<k, 2>>>> : i \in 1..2, k \in 4..6}

\* "Four score and seven years ago", of driver5, and its seeds, in half words.
FourScore == <<70, 111, 117, 114, 32, 115, 99, 111, 114, 101, 32, 97, 110, 100, 32, 115, 101, 118, 101,
               110, 32, 121, 101, 97, 114, 115, 32, 97, 103, 111>>
HashKeys == {FourScore, [i \in 1..27 |-> 255], [i \in 1..25 |-> (i * 97) % 256]}
HashSeeds == {<<<<0, 0>>, <<0, 0>>>>, <<<<0, 0>>, <<0, 1>>>>, <<<<0, 1>>, <<0, 0>>>>,
              <<<<57005, 48879>>, <<57005, 48879>>>>}

\* The directories, the file and the links of the test.
Home == <<"home">>
Backups == <<"home", "simfdb", "backups">>
Dirs == {<<>>, <<"home">>, <<"home", "simfdb">>, Backups, Backups \o <<"one">>,
         Backups \o <<"one", "two">>, Backups \o <<"one", "two", "three">>}
Files == {Backups \o <<"log">>}
Links ==
    [l \in {Backups \o <<"four">>, Backups \o <<"five">>} |->
       IF l[4] = "four" THEN <<"one", "/", "two">> ELSE <<"..", "/", "backups", "/", "four">>]
Starts == {<<>>, <<"/">>, <<"simfdb", "/", "backups", "/">>}
Names == {".", "..", "one", "two", "five", "x", "log", "~"}

\* Arenas with sizes around the limits of tiny, small and large blocks; and two
\* deques with words of four bits: the limit the test reaches at 2^30.
Mem == INSTANCE Containers WITH Arenas <- {"a1", "a2"}, Sizes <- {10, 59, 8173}, MaxBlocks <- 4,
    MaxOps <- 5, blocks <- s1, impl <- s2, mem <- s3, stack <- s4, ops <- s5, W <- 4,
    FirstSize <- 1, Values <- {1, 2}, Deques <- {"a", "b"}, deque <- s1, ref <- s2, misuse <- s3
MemInit == part = "arena" /\ Mem!ArenaInit /\ Spare6
MemNext == part = "arena" /\ Mem!ArenaNext /\ UNCHANGED part /\ Idle6
RingInit == part = "deque" /\ Mem!DequeInit /\ Spare4
RingNext == part = "deque" /\ Mem!DequeNext /\ UNCHANGED part /\ Idle4

\* Nine keys, and inserts of three keys at a time.
Tree == INSTANCE IndexedSet WITH N <- 9, Metrics <- {1}, Vectors <- Increasing, Prefetch <- 2,
    root <- s1, map <- s2, asserted <- s3, exact <- s4
TreeInit == part = "tree" /\ Tree!Init /\ Spare5
TreeNext == part = "tree" /\ Tree!Next /\ UNCHANGED part /\ Idle5

\* Six keys with metrics.
Sums == INSTANCE IndexedSet WITH N <- 6, Metrics <- {1, 2}, Vectors <- Sorted, Prefetch <- 2,
    root <- s1, map <- s2, asserted <- s3, exact <- s4
SumsInit == part = "sums" /\ Sums!Init /\ Spare5
SumsNext == part = "sums" /\ Sums!Next /\ UNCHANGED part /\ Idle5

\* Packets of up to three bytes in buffers of two, and two reconnects.
Packet == INSTANCE Packets WITH DATA_SIZE <- 2, Buffers <- 1..8, MaxPacket <- 3, MaxPackets <- 3,
    MaxConnects <- 2, heap <- s1, unsent_first <- s2, unsent_last <- s3, reliable <- s4, wire <- s5,
    stream <- s6, nbytes <- s7, npackets <- s8, nconnects <- s9
PacketInit == part = "packets" /\ Packet!Init /\ Spare10
PacketNext == part = "packets" /\ Packet!Next /\ UNCHANGED part /\ Idle10

\* Two callers replace a file that exists; and paths in the tree that the
\* test makes, with a file in it.
File == INSTANCE Platform WITH Callers <- {"p1", "p2"}, Exists <- TRUE, pc <- s1, info <- s2,
    thrown <- s3, names <- s4, survivors <- s5, content <- s6, durable <- s7, mode <- s8,
    Names <- Names, Starts <- Starts, MaxGrowth <- 6, Cwd <- Home,
    Dirs <- Dirs, Files <- Files, Links <- Links, path <- s1, growth <- s2
FileInit == part = "file" /\ File!ReplaceInit /\ Spare9
FileNext == part = "file" /\ File!ReplaceNext /\ UNCHANGED part /\ Idle9
PathInit == part = "paths" /\ File!PathInit /\ Spare3
PathNext == part = "paths" /\ File!PathNext /\ UNCHANGED part /\ Idle3

\* All integers of four bytes of three bits, and three keys of up to 30 bytes,
\* among them that of driver5.
Enc == INSTANCE Encodings WITH B <- 3, W <- 4, x <- s1, Keys <- HashKeys, Seeds <- HashSeeds,
    buffer <- s1, length <- s2, seed <- s3
IntsInit == part = "ints" /\ Enc!InitInt /\ Spare2
IntsNext == part = "ints" /\ Enc!NextInt /\ UNCHANGED part /\ Idle2
HashInit == part = "hash" /\ Enc!InitHash /\ Spare4
HashNext == part = "hash" /\ Enc!NextHash /\ UNCHANGED part /\ Idle4

\* Two types of event with throttling and suppression, and a role.
Events == INSTANCE TraceEvents WITH Types <- {"a", "b"}, Roles <- {"r"}, Duration <- 2, Expiry <- 2,
    Units <- 2, Limit <- 4, MaxSuppressions <- 2, MaxSize <- 1, MaxTime <- 3, MaxEvents <- 3,
    now <- s1, ev <- s2, endTime <- s3, suppressedEventCount <- s4, sample <- s5, queue <- s6,
    thresholdCrossedSet <- s7, asserted <- s8, roles <- s9, rolesString <- s10, nevents <- s11,
    warned <- s12, held <- s13, told <- s14, forgotten <- s15, lastTurn <- s16, dropped <- s17,
    unreported <- s18
EventsInit == part = "events" /\ Events!Init
EventsNext == part = "events" /\ Events!Next /\ UNCHANGED part

\* One field, one level, blocks of one value and three flushes.
Metric == INSTANCE EventMetrics WITH Names <- {"a"}, Values <- {0, 1}, MaxLevel <- 1, MaxSize <- 1,
    RollBytes <- 4, StartQueue <- 2, Factor <- 1, HadData <- FALSE, MaxTime <- 6, MaxFlushes <- 3,
    now <- s1, enabled <- s2, lev <- s3, present <- s4, value <- s5, newFields <- s6,
    rollTimes <- s7, currentTimeBytes <- s8, pending <- s9, db <- s10, logged <- s11, stale <- s12,
    nflushes <- s13
MetricInit == part = "metric" /\ Metric!Init /\ Spare14
MetricNext == part = "metric" /\ Metric!Next /\ UNCHANGED part /\ Idle14

\* Two handles of one continuous metric.
Level == INSTANCE ContinuousMetric WITH Handles <- {"h1", "h2"}, MaxLevel <- 2, MaxTime <- 2,
    Values <- {0, 1}, Throttles <- TRUE, now <- s1, bound <- s2, created <- s3, value <- s4,
    enabled <- s5, minLevel <- s6, time <- s7, recorded <- s8, field <- s9, latest <- s10,
    held <- s11, exact <- s12
LevelInit == part = "level" /\ Level!Init /\ Spare13
LevelNext == part = "level" /\ Level!Next /\ UNCHANGED part /\ Idle13

-----------------------------------------------------------------------------
Init == MemInit \/ RingInit \/ TreeInit \/ SumsInit \/ PacketInit \/ FileInit \/ IntsInit \/
        HashInit \/ PathInit \/ EventsInit \/ MetricInit \/ LevelInit
Next == MemNext \/ RingNext \/ TreeNext \/ SumsNext \/ PacketNext \/ FileNext \/ IntsNext \/
        HashNext \/ PathNext \/ EventsNext \/ MetricNext \/ LevelNext
Spec == Init /\ [][Next]_vars

ASSUME ConstantsAssumption ==
    /\ Mem!ArenaAssumption /\ Mem!DequeAssumption
    /\ Tree!IndexedSetAssumption
    /\ Sums!IndexedSetAssumption
    /\ Packet!PacketsAssumption
    /\ File!AtomicReplaceAssumption /\ File!PathsAssumption
    /\ Enc!EncodingsAssumption
    /\ Events!TraceEventsAssumption
    /\ Metric!EventMetricsAssumption
    /\ Level!ContinuousMetricAssumption

-----------------------------------------------------------------------------
(***************************************************************************)
(* What an arena allocated stays in memory while it or a dependent needs   *)
(* it, no piece overlaps another, counts are references and nothing leaks  *)
(* (Containers).                                                           *)
(***************************************************************************)
ArenaSafe ==
    part = "arena" => Mem!ArenaSafe

(***************************************************************************)
(* A deque holds what was pushed and not popped, each element alive once,  *)
(* and no index wraps around the word (Containers).                        *)
(***************************************************************************)
DequeRight ==
    part = "deque" => Mem!DequeRight

(***************************************************************************)
(* After inserts of one and of many and erases of any range the tree is an *)
(* AVL tree of the items, with right totals, each erased node freed once,  *)
(* and the searches agree with the set (IndexedSet).                       *)
(***************************************************************************)
TreeRight ==
    /\ part = "tree" => Tree!TreeRight
    /\ part = "sums" => Sums!TreeRight /\ Sums!SearchesAgree

(***************************************************************************)
(* What was sent and what is unsent are the stream, reliable packets keep  *)
(* their bytes, and references are exact, across reconnects (Packets).     *)
(***************************************************************************)
PacketsRight ==
    part = "packets" => Packet!PacketsRight

(***************************************************************************)
(* Whatever step fails and whenever the machine stops, the file has the    *)
(* old contents or those of one caller (Platform).                         *)
(***************************************************************************)
ReplaceAtomic ==
    part = "file" => File!ReplaceAtomic

(***************************************************************************)
(* The pure functions agree with their references: integers are read back  *)
(* and sort, hashes do not depend on place or order and have the values of *)
(* driver5, and paths lead where they mean (Encodings, Platform).          *)
(***************************************************************************)
ReferenceAgrees ==
    /\ part = "ints" => Enc!EncodingRight
    /\ part = "hash" => Enc!HashesAgree /\ (s1 = FourScore => Enc!KnownVectors)
    /\ part = "paths" => File!PathsRight

(***************************************************************************)
(* The throttled types are exactly those over the limit, the count of the  *)
(* suppressed events is nowhere doubled and goes only with the event that  *)
(* took it or with the map, turns of a type are spaced, and the roles      *)
(* shown are those held (TraceEvents).                                     *)
(***************************************************************************)
EventsRight ==
    /\ [](part = "events" => Events!EventsRight)
    /\ [][part = "events" => Events!Spaced]_vars

(***************************************************************************)
(* What the database is given for a metric decodes to what was logged,     *)
(* lined up and with current headers (EventMetrics); a continuous metric   *)
(* logs true readings, and binding a handle keeps its value                *)
(* (ContinuousMetric).                                                     *)
(***************************************************************************)
MetricsRight ==
    /\ [](part = "metric" => Metric!MetricsIntact)
    /\ [](part = "level" => Level!ReadingsTrue)
    /\ [][part = "level" => Level!HandleKeepsValue]_vars
=============================================================================
