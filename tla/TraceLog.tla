------------------------------ MODULE TraceLog ------------------------------
(***************************************************************************)
(* The trace log (flow/Trace.cpp, flow/FileTraceLogWriter.cpp): events are *)
(* buffered under a mutex, flushed by the network thread as actions of a   *)
(* writer thread, and written to files that are rolled.  A flush returns a *)
(* barrier; an error of open() or write() unblocks the barriers that are   *)
(* posted, an error of close() none.                                       *)
(*                                                                         *)
(* An event is a number, and whether it is tracked (trackLatest) and a     *)
(* copy made for a new file.  There is one tracking key.                   *)
(***************************************************************************)
EXTENDS Integers, Sequences, SequencesExt, FiniteSets

CONSTANTS MaxEvents,    \* bound on the events
          MaxFlushes,   \* bound on the flushes
          MaxErrors,    \* bound on the spells of file errors
          PreopenMax,   \* TRACE_LOG_MAX_PREOPEN_BUFFER, in events
          RollSize      \* rollsize, in events

\* What the constants have to be.
TraceLogAssumption ==
    {MaxEvents, MaxFlushes, MaxErrors, PreopenMax, RollSize} \subseteq Nat

VARIABLES
    opened,       \* "no", "yes", "closing" or "closed"
    buffer,       \* eventBuffer
    loggedLength, overflow,
    batch,        \* g_traceBatch
    latest,       \* latestEventCache: the tracked event, or none
    posted,       \* actions posted to the writer thread
    todo,         \* what it still has to do of its current action
    files,        \* the files written, each a sequence of items
    fd,           \* whether the system has its descriptor open
    disk,         \* "ok" or "failing"
    barriers,     \* the list of barriers, and how many of them are triggered
    ntriggered,
    ready,        \* barriers that are set
    unblocked,    \* barriers set by an error
    accepted,     \* every event that went into the buffer
    nevents, nflushes, nerrors,
    covers        \* for each barrier the events accepted when it was posted

vars == <<opened, buffer, loggedLength, overflow, batch, latest, posted, todo, files, fd, disk,
          barriers, ntriggered, ready, unblocked, accepted, nevents, nflushes, nerrors, covers>>

logVars == <<opened, buffer, loggedLength, overflow, batch, latest, accepted, nevents>>
writerVars == <<todo, files, fd, disk, ntriggered, ready, unblocked, nerrors>>
barrierVars == <<posted, barriers, nflushes, covers>>

Init ==
    /\ opened = "no" /\ buffer = <<>> /\ loggedLength = 0 /\ overflow = 0 /\ batch = <<>>
    /\ latest = <<>> /\ posted = <<>> /\ todo = <<>> /\ files = <<>> /\ fd = FALSE
    /\ disk = "ok" /\ barriers = <<>> /\ ntriggered = 0 /\ ready = {} /\ unblocked = {}
    /\ accepted = <<>> /\ nevents = 0 /\ nflushes = 0 /\ nerrors = 0 /\ covers = <<>>

Event(n, tracked) == [op |-> "event", id |-> n, tracked |-> tracked, rolled |-> FALSE]
Item(op) == [op |-> op, id |-> 0, tracked |-> FALSE, rolled |-> FALSE]

-----------------------------------------------------------------------------
(***************************************************************************)
(* writeEvent, by any thread.  close() keeps the mutex until it is done.   *)
(***************************************************************************)
\* The copies made for a new file are not counted.
bufferLength(buf) == Len(SelectSeq(buf, LAMBDA e : ~e.rolled))

Overflows(pending) == opened # "yes" /\ (overflow > 0 \/ bufferLength(pending) + 1 > PreopenMax)

WriteEvent ==
    /\ opened # "closing" /\ nevents < MaxEvents
    /\ nevents' = nevents + 1
    /\ \E tracked \in BOOLEAN :
         IF Overflows(buffer)
         THEN overflow' = overflow + 1 /\ UNCHANGED <<buffer, accepted, latest>>
         ELSE \E e \in {Event(nevents', tracked)} :
                /\ buffer' = Append(buffer, e) /\ accepted' = Append(accepted, e.id)
                /\ latest' = IF tracked THEN <<e>> ELSE latest
                /\ UNCHANGED overflow
    /\ UNCHANGED <<opened, loggedLength, batch>> /\ UNCHANGED <<writerVars, barrierVars>>

\* TraceBatch::addEvent, addAttach, addBuggify, without the automatic dump.
AddToBatch ==
    /\ nevents < MaxEvents /\ opened \in {"no", "yes"}
    /\ nevents' = nevents + 1 /\ batch' = Append(batch, Event(nevents', FALSE))
    /\ UNCHANGED <<opened, buffer, loggedLength, overflow, latest, accepted>>
    /\ UNCHANGED <<writerVars, barrierVars>>

(***************************************************************************)
(* flush() of the events in buf: they, a roll if the file is large enough, *)
(* and a barrier are posted; the tracked event goes into the new file.     *)
(***************************************************************************)
Rolled == [n \in DOMAIN latest |-> [latest[n] EXCEPT !.rolled = TRUE]]

\* Fault: the barrier overtakes the events.
FlushActionsSwapped(buf, roll, last) ==
    <<[op |-> "barrier", events |-> <<>>], [op |-> "write", events |-> buf]>> \o last

FlushActions(buf, roll, last) ==
    <<[op |-> "write", events |-> buf]>>
    \o (IF roll THEN <<[op |-> "roll", events |-> <<>>]>> ELSE <<>>)
    \o last \o <<[op |-> "barrier", events |-> <<>>]>>

\* open() posts its action before anything else is posted.
OpenAction == IF opened = "no" THEN <<[op |-> "open", events |-> <<>>]>> ELSE <<>>

PostBarrier(acts) ==
    /\ posted' = posted \o OpenAction \o acts
    /\ nflushes' = nflushes + 1 /\ barriers' = Append(barriers, nflushes')
    /\ covers' = Append(covers, Len(accepted'))

Rest(buf, roll) == IF roll THEN Rolled ELSE <<>>

FlushBuffer(buf) ==
    IF buf = <<>>
    THEN /\ posted' = posted \o OpenAction
         /\ UNCHANGED <<buffer, loggedLength, barriers, nflushes, covers>>
    ELSE \E roll \in {RollSize > 0 /\ bufferLength(buf) + loggedLength > RollSize} :
           /\ loggedLength' = IF roll THEN 0 ELSE loggedLength + bufferLength(buf)
           /\ buffer' = Rest(buf, roll)
           /\ PostBarrier(FlushActions(buf, roll, <<>>))

Flush ==
    /\ opened = "yes" /\ nflushes < MaxFlushes
    /\ UNCHANGED accepted /\ FlushBuffer(buffer)
    /\ UNCHANGED <<opened, overflow, batch, latest, nevents>> /\ UNCHANGED writerVars

Ids(events) == [n \in DOMAIN events |-> events[n].id]

\* TraceBatch::dump, after the events of extra.
DumpAfter(extra) ==
    /\ accepted' = accepted \o Ids(extra \o batch)
    /\ FlushBuffer(buffer \o extra \o batch)
    /\ batch' = <<>>

\* openTraceFile: events from before are kept, those lost are reported, and
\* the batch is dumped.  (It is the first thing a program does: what other
\* threads write during it is as if written before.)
Open ==
    /\ opened = "no" /\ opened' = "yes" /\ overflow' = 0 /\ nflushes < MaxFlushes
    /\ DumpAfter(IF overflow > 0 THEN <<Event(0, FALSE)>> ELSE <<>>)
    /\ UNCHANGED <<latest, nevents>> /\ UNCHANGED writerVars

Dump ==
    /\ opened = "yes" /\ nflushes < MaxFlushes
    /\ DumpAfter(<<>>)
    /\ UNCHANGED <<opened, overflow, latest, nevents>> /\ UNCHANGED writerVars

\* close() waits for its barrier with the mutex held.
Close ==
    /\ opened = "yes" /\ opened' = "closing"
    /\ UNCHANGED accepted
    /\ PostBarrier(FlushActions(buffer, FALSE, <<[op |-> "close", events |-> <<>>]>>))
    /\ buffer' = <<>> /\ loggedLength' = loggedLength + bufferLength(buffer)
    /\ UNCHANGED <<overflow, batch, latest, nevents>> /\ UNCHANGED writerVars

CloseEnds ==
    /\ opened = "closing" /\ nflushes \in ready /\ opened' = "closed"
    /\ UNCHANGED <<buffer, loggedLength, overflow, batch, latest, accepted, nevents>>
    /\ UNCHANGED <<writerVars, barrierVars>>

-----------------------------------------------------------------------------
(***************************************************************************)
(* The writer thread.  Each file operation is repeated until it succeeds.  *)
(***************************************************************************)
OpenSteps == <<Item("create"), Item("header")>>
CloseSteps == <<Item("footer"), Item("closefd")>>

Steps(a) ==
    CASE a.op = "open"    -> OpenSteps
      [] a.op = "write"   -> a.events
      [] a.op = "roll"    -> CloseSteps \o OpenSteps
      [] a.op = "close"   -> CloseSteps
      [] a.op = "barrier" -> <<Item("pop")>>

TakeAction ==
    /\ todo = <<>> /\ posted # <<>>
    /\ todo' = Steps(Head(posted)) /\ posted' = Tail(posted)
    /\ UNCHANGED <<files, fd, disk, barriers, ntriggered, ready, unblocked, nflushes, nerrors,
                   covers>>
    /\ UNCHANGED logVars

IsFileStep == todo # <<>> /\ Head(todo).op \notin {"pop", "closefd"}

\* open and write.
FileStep ==
    /\ IsFileStep /\ disk = "ok" /\ todo' = Tail(todo)
    /\ IF Head(todo).op = "create" THEN files' = Append(files, <<>>) /\ fd' = TRUE
       ELSE files' = [files EXCEPT ![Len(files)] = Append(@, Head(todo))] /\ UNCHANGED fd
    /\ UNCHANGED <<disk, ntriggered, ready, unblocked, nerrors, barrierVars>> /\ UNCHANGED logVars

AtClose == todo # <<>> /\ Head(todo).op = "closefd"

CloseFile ==
    /\ AtClose /\ disk = "ok" /\ fd /\ todo' = Tail(todo)
    /\ fd' = FALSE
    /\ UNCHANGED <<files, disk, ntriggered, ready, unblocked, nerrors, barrierVars>>
    /\ UNCHANGED logVars

\* __close fails, and is called again after a while: the descriptor may be open
\* still, or gone, and then every further call fails.  Nobody is unblocked.
Stuck == AtClose /\ (disk = "failing" \/ ~fd)

CloseError ==
    /\ Stuck /\ fd' \in {fd, FALSE}
    /\ UNCHANGED <<todo, files, disk, ntriggered, ready, unblocked, nerrors, barrierVars>>
    /\ UNCHANGED logVars

\* Fault: an error unblocks nobody.
TriggeredNot == {}

\* BarrierList::triggerAll, from lastError.
Triggered == {barriers[n] : n \in (ntriggered + 1)..Len(barriers)}

\* The operation fails, with an error other than EINTR, and will be repeated.
FileError ==
    /\ IsFileStep /\ disk = "failing"
    /\ ready' = ready \cup Triggered /\ unblocked' = unblocked \cup (Triggered \ ready)
    /\ ntriggered' = Len(barriers)
    /\ UNCHANGED <<todo, files, fd, disk, nerrors, barrierVars>> /\ UNCHANGED logVars

\* BarrierList::pop.
PopBarrier ==
    /\ todo # <<>> /\ Head(todo).op = "pop" /\ todo' = Tail(todo)
    /\ ready' = ready \cup {Head(barriers)} /\ barriers' = Tail(barriers)
    /\ ntriggered' = IF ntriggered > 0 THEN ntriggered - 1 ELSE 0
    /\ UNCHANGED <<files, fd, disk, unblocked, nerrors, posted, nflushes, covers>>
    /\ UNCHANGED logVars

DiskChanges ==
    /\ \/ disk = "ok" /\ nerrors < MaxErrors /\ disk' = "failing" /\ nerrors' = nerrors + 1
       \/ disk = "failing" /\ disk' = "ok" /\ UNCHANGED nerrors
    /\ UNCHANGED <<todo, files, fd, ntriggered, ready, unblocked, barrierVars>> /\ UNCHANGED logVars

WriterStep == TakeAction \/ FileStep \/ CloseFile \/ FileError \/ PopBarrier

Next ==
    \/ WriteEvent \/ AddToBatch \/ Open \/ Flush \/ Dump \/ Close \/ CloseEnds
    \/ WriterStep \/ CloseError \/ DiskChanges

Spec == Init /\ [][Next]_vars

\* The writer thread runs; the disk may fail for ever, and what a failing close
\* does to the descriptor is left to the system.
FairSpec == Spec /\ WF_vars(WriterStep) /\ WF_vars(CloseEnds)

-----------------------------------------------------------------------------
Items(f) == SelectSeq(f, LAMBDA x : x.op = "event")
Originals(f) == SelectSeq(Items(f), LAMBDA x : ~x.rolled)
Written == FlattenSeq([n \in DOMAIN files |-> [m \in DOMAIN Originals(files[n]) |-> Originals(files[n])[m].id]])

(***************************************************************************)
(* Every event accepted is written once and in order, across rolls, closes *)
(* and repeated file operations.                                           *)
(***************************************************************************)
InOrder == IsPrefix(Written, accepted)

(***************************************************************************)
(* A file starts with its header; a file that another follows ends with    *)
(* its footer.                                                             *)
(***************************************************************************)
WellFormed ==
    \A n \in DOMAIN files :
      /\ \A m \in DOMAIN files[n] : (files[n][m].op = "header") = (m = 1)
      /\ n < Len(files) => Last(files[n]).op = "footer"

(***************************************************************************)
(* When a barrier is set, all that was accepted before its flush is        *)
(* written, unless a file error unblocked it.                              *)
(***************************************************************************)
FlushedWhenReady == \A b \in ready \ unblocked : Len(Written) >= covers[b]

(***************************************************************************)
(* A tracked event that is in a file is also, itself or as a copy or as a  *)
(* later one, in every following file that is complete.                    *)
(***************************************************************************)
Tracked(f) == \E n \in DOMAIN Items(f) : Items(f)[n].tracked
Complete(n) == files[n] # <<>> /\ Last(files[n]).op = "footer"
TrackedInEveryFile ==
    \A n \in DOMAIN files : \A m \in 1..(n - 1) :
        Tracked(files[m]) /\ Complete(n) => Tracked(files[n])

(***************************************************************************)
(* "Otherwise a permanent write error would make the program block         *)
(* forever": no flush, and no close, waits for ever, even if the disk      *)
(* never works.  It holds only as long as the writer does not stay in the  *)
(* loop of FileTraceLogWriter::close for ever (Stuck), where nothing       *)
(* unblocks the barriers.                                                  *)
(***************************************************************************)
Flushing(b) == b <= nflushes /\ b \notin ready
Closing == opened = "closing"
FlushReturns == \A b \in 1..(MaxFlushes + 1) : Flushing(b) ~> ~Flushing(b)

(***************************************************************************)
(* All of this at once, whatever fails and whenever the log is closed.     *)
(***************************************************************************)
LogSafe == InOrder /\ WellFormed /\ FlushedWhenReady /\ TrackedInEveryFile
=============================================================================
