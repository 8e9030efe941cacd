------------------------------ MODULE FastAlloc ------------------------------
(***************************************************************************)
(* FastAllocator<Size> (flow/FastAlloc.h, flow/FastAlloc.cpp): each thread *)
(* allocates from and releases to a free list of its own, and exchanges    *)
(* whole magazines with a global store under a mutex.  A critical section  *)
(* and the thread-local work around it are one step; the system's          *)
(* allocation of a page, and the trace event that samples it, are outside. *)
(***************************************************************************)
EXTENDS Integers, Sequences, SequencesExt, FiniteSets, FiniteSetsExt

CONSTANTS Threads,
          magazine_size,
          MaxPages,     \* bound on the pages taken from the system
          Sampling,     \* whether getMagazine may log a GetMagazineSample event
          Traces        \* hashes of sampled stacks; none unless ALLOC_INSTRUMENTATION

\* What the constants have to be.
FastAllocAssumption ==
    magazine_size \in Nat \ {0} /\ MaxPages \in Nat /\ Sampling \in BOOLEAN /\ IsFiniteSet(Threads)

VARIABLES
    threadInitialized, threadData,   \* per thread
    pc,                              \* where a thread is in getMagazine
    magazines, partial_magazines,    \* the global store
    totalMemory, partialUnallocated, activeThreads,   \* its counters, in objects
    pages,                           \* pages the system has given
    live,                            \* objects the program holds
    lost,                            \* objects getMagazine dropped from a free list; history only
    memSample, backTraceLookup       \* sampled objects, and the account of each stack

vars == <<threadInitialized, threadData, pc, magazines, partial_magazines, totalMemory,
          partialUnallocated, activeThreads, pages, live, lost, memSample, backTraceLookup>>
store == <<magazines, partial_magazines, totalMemory, partialUnallocated>>
samples == <<memSample, backTraceLookup>>

NoMagazine == <<>>
Page(k) == [i \in 1..magazine_size |-> (k - 1) * magazine_size + i]
NoData == [freelist |-> NoMagazine, count |-> 0, alternate |-> NoMagazine]

Init ==
    /\ threadInitialized = [t \in Threads |-> FALSE] /\ threadData = [t \in Threads |-> NoData]
    /\ pc = [t \in Threads |-> "idle"]
    /\ magazines = <<>> /\ partial_magazines = <<>>
    /\ totalMemory = 0 /\ partialUnallocated = 0 /\ activeThreads = 0
    /\ pages = 0 /\ live = {} /\ lost = {} /\ memSample = {} /\ backTraceLookup = [h \in Traces |-> 0]

\* The thread's first allocation or release, since it last gave its magazines up.
initThread(t) ==
    /\ threadInitialized' = [threadInitialized EXCEPT ![t] = TRUE]
    /\ activeThreads' = activeThreads + IF threadInitialized[t] THEN 0 ELSE 1

Data(t) == IF threadInitialized[t] THEN threadData[t] ELSE NoData

-----------------------------------------------------------------------------
(***************************************************************************)
(* recordAllocation and recordDeallocation.                                *)
(***************************************************************************)
recordAllocation(p) ==
    \/ UNCHANGED samples
    \/ \E h \in Traces : /\ memSample' = memSample \cup {<<p, h>>}
                         /\ backTraceLookup' = [backTraceLookup EXCEPT ![h] = @ + 1]

recordDeallocation(p) ==
    /\ memSample' = {s \in memSample : s[1] # p}
    /\ backTraceLookup' = [h \in Traces |-> backTraceLookup[h] - IF <<p, h>> \in memSample THEN 1 ELSE 0]

\* allocate, once there is a free list: it takes the head of m, which has
\* count objects.
Pop(t, m, count, alternate) ==
    /\ threadData' = [threadData EXCEPT ![t] = [freelist |-> Tail(m), count |-> count - 1,
                                                alternate |-> alternate]]
    /\ live' = live \cup {Head(m)}
    /\ recordAllocation(Head(m))

AlternateAfter(d) == IF d.freelist = NoMagazine THEN NoMagazine ELSE d.alternate

AllocateLocal(t) ==
    /\ pc[t] \in {"idle", "event"}
    /\ \E d \in {Data(t)} :
         /\ d.freelist # NoMagazine \/ d.alternate # NoMagazine
         /\ IF d.freelist # NoMagazine THEN Pop(t, d.freelist, d.count, AlternateAfter(d))
            ELSE Pop(t, d.alternate, magazine_size, AlternateAfter(d))
    /\ UNCHANGED <<threadInitialized, activeThreads, pc, pages, lost>> /\ UNCHANGED store

-----------------------------------------------------------------------------
(***************************************************************************)
(* getMagazine: a full magazine of the store, or a partial one, or a page. *)
(***************************************************************************)
Empty(t) == pc[t] \in {"idle", "event"} /\ Data(t) = NoData

FromMagazines(t) ==
    /\ Empty(t) /\ magazines # <<>> /\ initThread(t)
    /\ magazines' = Front(magazines) /\ Pop(t, Last(magazines), magazine_size, NoMagazine)
    /\ UNCHANGED <<pc, partial_magazines, totalMemory, partialUnallocated, pages, lost>>

\* Fault: a partial magazine is taken as a full one.
PartialCountFull(p) == magazine_size

PartialCount(p) == p.count

FromPartial(t) ==
    /\ Empty(t) /\ magazines = <<>> /\ partial_magazines # <<>> /\ initThread(t)
    /\ partial_magazines' = Front(partial_magazines)
    /\ partialUnallocated' = partialUnallocated - Last(partial_magazines).count
    /\ Pop(t, Last(partial_magazines).list, PartialCount(Last(partial_magazines)), NoMagazine)
    /\ UNCHANGED <<pc, magazines, totalMemory, pages, lost>>

\* The store is empty: the memory is counted under the mutex, and the page
\* asked for after it is released.
Waiting(p) == IF p = "event" THEN "event_page" ELSE "page"
WantPage(t) ==
    /\ Empty(t) /\ magazines = <<>> /\ partial_magazines = <<>> /\ totalMemory < MaxPages * magazine_size
    /\ initThread(t)
    /\ totalMemory' = totalMemory + magazine_size
    /\ threadData' = [threadData EXCEPT ![t] = NoData]
    /\ pc' = [pc EXCEPT ![t] = Waiting(@)]
    /\ UNCHANGED <<magazines, partial_magazines, partialUnallocated, pages, live, lost>> /\ UNCHANGED samples

\* The page becomes the free list, whatever list the thread has by now.
GetPage(t) ==
    /\ pc[t] \in {"page", "event_page"}
    /\ pages' = pages + 1
    /\ Pop(t, Page(pages + 1), magazine_size, threadData[t].alternate)
    /\ lost' = lost \cup ToSet(threadData[t].freelist)
    /\ pc' = [pc EXCEPT ![t] = IF @ = "page" THEN "idle" ELSE "event"]
    /\ UNCHANGED <<threadInitialized, activeThreads>> /\ UNCHANGED store

\* GetMagazineSample: the event allocates and releases on this thread, with
\* g_trace_depth above 0 so that no other is logged.
StartEvent(t) ==
    /\ Sampling /\ pc[t] = "page" /\ pc' = [pc EXCEPT ![t] = "event"]
    /\ UNCHANGED <<threadInitialized, threadData, activeThreads, pages, live, lost>>
    /\ UNCHANGED store /\ UNCHANGED samples
EndEvent(t) ==
    /\ pc[t] = "event" /\ pc' = [pc EXCEPT ![t] = "page"]
    /\ UNCHANGED <<threadInitialized, threadData, activeThreads, pages, live, lost>>
    /\ UNCHANGED store /\ UNCHANGED samples

-----------------------------------------------------------------------------
(***************************************************************************)
(* release: an object may be released by another thread than its           *)
(* allocator.  A free list that is full becomes the alternate, and an      *)
(* alternate there is goes to the store.                                   *)
(***************************************************************************)
releaseMagazine(m) == magazines' = IF m = NoMagazine THEN magazines ELSE Append(magazines, m)

Release(t, p) ==
    /\ pc[t] \in {"idle", "event"} /\ p \in live /\ live' = live \ {p}
    /\ initThread(t)
    /\ \E d \in {Data(t)} :
         IF d.count = magazine_size
         THEN /\ releaseMagazine(d.alternate)
              /\ threadData' = [threadData EXCEPT ![t] =
                                  [freelist |-> <<p>>, count |-> 1, alternate |-> d.freelist]]
         ELSE /\ threadData' = [threadData EXCEPT ![t] =
                                  [d EXCEPT !.freelist = <<p>> \o @, !.count = @ + 1]]
              /\ UNCHANGED magazines
    /\ recordDeallocation(p)
    /\ UNCHANGED <<pc, partial_magazines, totalMemory, partialUnallocated, pages, lost>>

\* releaseThreadMagazines, when a thread ends.
releaseThreadMagazines(t) ==
    /\ pc[t] = "idle" /\ threadInitialized[t]
    /\ threadInitialized' = [threadInitialized EXCEPT ![t] = FALSE]
    /\ \E d \in {threadData[t]} :
         /\ partial_magazines' = IF d.freelist = NoMagazine THEN partial_magazines
                                 ELSE Append(partial_magazines, [count |-> d.count, list |-> d.freelist])
         /\ partialUnallocated' = partialUnallocated + d.count
         /\ magazines' = IF d.alternate = NoMagazine THEN magazines ELSE Append(magazines, d.alternate)
    /\ activeThreads' = activeThreads - 1
    /\ threadData' = [threadData EXCEPT ![t] = NoData]
    /\ UNCHANGED <<pc, totalMemory, pages, live, lost>> /\ UNCHANGED samples

Next ==
    \E t \in Threads :
      \/ AllocateLocal(t) \/ FromMagazines(t) \/ FromPartial(t) \/ WantPage(t) \/ GetPage(t)
      \/ StartEvent(t) \/ EndEvent(t)
      \/ \E p \in live : Release(t, p)
      \/ releaseThreadMagazines(t)

Spec == Init /\ [][Next]_vars

-----------------------------------------------------------------------------
\* The free objects, list by list.
Lists ==
    magazines \o [i \in DOMAIN partial_magazines |-> partial_magazines[i].list]
    \o FlattenSeq([i \in DOMAIN SetToSeq(Threads) |->
          <<threadData[SetToSeq(Threads)[i]].freelist, threadData[SetToSeq(Threads)[i]].alternate>>])
FreeObjects == FlattenSeq(Lists)

(***************************************************************************)
(* Every object of the pages is held by the program, is free in exactly    *)
(* one place, or was lost: none is given out twice ("Pointer returned      *)
(* twice!?", dsltest), whichever thread releases it and whatever an event  *)
(* within getMagazine allocates and releases; and only such an event can   *)
(* make getMagazine lose the list it overwrites.                           *)
(***************************************************************************)
Conserved ==
    /\ IsInjective(FreeObjects)
    /\ ToSet(FreeObjects) \cap live = {}
    /\ lost \cap (live \cup ToSet(FreeObjects)) = {}
    /\ ToSet(FreeObjects) \cup live \cup lost = 1..(pages * magazine_size)
    /\ ~Sampling => lost = {}

(***************************************************************************)
(* The magazines of the store and the alternates are full, and the counts  *)
(* of the free lists and of the partial magazines are their lengths: the   *)
(* code counts, and never walks a list.                                    *)
(***************************************************************************)
CountsTrue ==
    /\ \A i \in DOMAIN magazines : Len(magazines[i]) = magazine_size
    /\ \A i \in DOMAIN partial_magazines : Len(partial_magazines[i].list) = partial_magazines[i].count
    /\ \A t \in Threads : /\ Len(threadData[t].freelist) = threadData[t].count
                          /\ Len(threadData[t].alternate) \in {0, magazine_size}

(***************************************************************************)
(* The account of a stack counts the sampled objects that are still held.  *)
(***************************************************************************)
AccountsTrue ==
    \A h \in Traces : backTraceLookup[h] = Cardinality({s \in memSample : s[2] = h /\ s[1] \in live})

(***************************************************************************)
(* What getMagazine asserts when it is called, that the thread has neither *)
(* a free list nor an alternate magazine, still holds when it installs the *)
(* page: it overwrites the free list.                                      *)
(***************************************************************************)
NothingOverwritten ==
    \A t \in Threads : pc[t] = "page" => threadData[t] = NoData

(***************************************************************************)
(* All of this at once.                                                    *)
(***************************************************************************)
AllocatorSafe == Conserved /\ CountsTrue /\ AccountsTrue
=============================================================================
