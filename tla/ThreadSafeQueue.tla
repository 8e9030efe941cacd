-------------------------- MODULE ThreadSafeQueue --------------------------
(***************************************************************************)
(* The multi-producer single-consumer queue of flow/ThreadSafeQueue.h, by  *)
(* which other threads hand tasks to the network thread.  Each step is one *)
(* access to a word that several threads use: a producer's atomic exchange *)
(* of head and its later store to the previous node's next pointer are two *)
(* steps, between which the list is broken in the middle.  The consumer's  *)
(* tail and sleepy are private to it.  Accesses are sequentially           *)
(* consistent: the exchange is a full barrier and the pointers volatile.   *)
(***************************************************************************)
EXTENDS Integers, Sequences, SequencesExt, FiniteSets

CONSTANTS Producers,      \* threads that push
          Items,          \* nodes with data, each pushed at most once
          Stub, Sleeping, \* the two nodes inside the queue object
          Null

ASSUME NodesAssumption ==
    /\ Stub # Sleeping /\ Stub # Null /\ Sleeping # Null
    /\ {Stub, Sleeping, Null} \intersect Items = {}

VARIABLES
    head,     \* the node pushed last
    tail,     \* the node the consumer will look at first
    next,     \* BaseNode::next of every node
    sleepy,   \* sleeping is in the queue
    ppc,      \* producer: "idle", "link" (head exchanged) or "linked"
    pnode,    \* producer: the node it is pushing
    pprev,    \* producer: what the exchange returned
    cpc,      \* consumer: where it is in pop() or canSleep()
    ctail,    \* consumer: popNode's local tail
    cprev,    \* consumer: what its own exchange returned
    again,    \* consumer: this is pop()'s second popNode()
    result,   \* consumer: what its last pop() returned
    maySleep, \* consumer: its last call was a canSleep() that returned true
    quiet,    \* no push was under way since the consumer called pop()
    freed,    \* nodes deleted by pop()
    pushed,   \* items in the order of their exchanges
    popped    \* items in the order in which pop() returned them

pvars == <<ppc, pnode, pprev>>
cvars == <<tail, sleepy, cpc, ctail, cprev, again, result, maySleep,
           freed, popped>>
qvars == <<head, next, pushed, quiet, pvars, cvars>>

Nodes == Items \union {Stub, Sleeping}

TypeOK ==
    /\ head \in Nodes /\ tail \in Nodes
    /\ next \in [Nodes -> Nodes \union {Null}]
    /\ sleepy \in BOOLEAN
    /\ ppc \in [Producers -> {"idle", "link", "linked"}]
    /\ pnode \in [Producers -> Items \union {Null}]
    /\ pprev \in [Producers -> Nodes \union {Null}]
    /\ cpc \in {"idle", "first", "second", "head", "stub", "linkStub", "last",
                "sleep", "linkSleeping"}
    /\ ctail \in Nodes /\ cprev \in Nodes
    /\ again \in BOOLEAN
    /\ result \in Nodes \union {Null}
    /\ maySleep \in BOOLEAN /\ quiet \in BOOLEAN
    /\ freed \subseteq Items
    /\ pushed \in Seq(Items) /\ popped \in Seq(Items)

QInit ==
    /\ head = Stub /\ tail = Stub
    /\ next = [n \in Nodes |-> Null]
    /\ sleepy = FALSE
    /\ ppc = [p \in Producers |-> "idle"]
    /\ pnode = [p \in Producers |-> Null]
    /\ pprev = [p \in Producers |-> Null]
    /\ cpc = "idle" /\ ctail = Stub /\ cprev = Stub
    /\ again = FALSE /\ result = Null /\ maySleep = FALSE /\ quiet = FALSE
    /\ freed = {} /\ pushed = <<>> /\ popped = <<>>

-----------------------------------------------------------------------------
\* push(), by any thread

(***************************************************************************)
(* A new node, invisible to the others, and the exchange of pushNode.      *)
(***************************************************************************)
Exchange(p, n) ==
    /\ ppc[p] = "idle"
    /\ n \in Items \ ToSet(pushed)
    /\ head' = n
    /\ pprev' = [pprev EXCEPT ![p] = head]
    /\ pnode' = [pnode EXCEPT ![p] = n]
    /\ ppc' = [ppc EXCEPT ![p] = "link"]
    /\ pushed' = Append(pushed, n)
    /\ quiet' = FALSE
    /\ UNCHANGED <<next, cvars>>

Link(p) ==
    /\ ppc[p] = "link"
    /\ next' = [next EXCEPT ![pprev[p]] = pnode[p]]
    /\ ppc' = [ppc EXCEPT ![p] = "linked"]
    /\ UNCHANGED <<head, pushed, quiet, pnode, pprev, cvars>>

(***************************************************************************)
(* push() returns; TRUE tells the caller to wake the consumer.             *)
(***************************************************************************)
PushResult(p) == pprev[p] = Sleeping

PushReturns(p) ==
    /\ ppc[p] = "linked"
    /\ ppc' = [ppc EXCEPT ![p] = "idle"]
    /\ pnode' = [pnode EXCEPT ![p] = Null]
    /\ pprev' = [pprev EXCEPT ![p] = Null]
    /\ UNCHANGED <<head, next, pushed, quiet, cvars>>

-----------------------------------------------------------------------------
\* pop(), by the consumer

(***************************************************************************)
(* popNode returns b to pop(): the sleeping node is skipped once, nothing  *)
(* ends the call, an item is taken out and its node deleted.               *)
(***************************************************************************)
Return(b) ==
    IF b = Sleeping /\ ~again
      THEN /\ sleepy' = FALSE
           /\ again' = TRUE
           /\ cpc' = "first"
           /\ UNCHANGED <<result, maySleep, freed, popped>>
      ELSE /\ result' = b
           /\ cpc' = "idle"
           /\ freed' = IF b \in Items THEN freed \union {b} ELSE freed
           /\ popped' = IF b \in Items THEN Append(popped, b) ELSE popped
           /\ UNCHANGED <<sleepy, again, maySleep>>

Goto(label) == cpc' = label /\ UNCHANGED <<sleepy, again, result, maySleep, freed, popped>>

CallPop ==
    /\ cpc = "idle"
    /\ cpc' = "first"
    /\ again' = FALSE
    /\ maySleep' = FALSE
    /\ quiet' = (\A p \in Producers : ppc[p] # "link")
    /\ UNCHANGED <<head, next, pushed, tail, sleepy, ctail, cprev, result, freed, popped, pvars>>

(***************************************************************************)
(* if (next) { this->tail = next; return tail; }                           *)
(***************************************************************************)
Advance(t, n) ==
    /\ ctail' = t
    /\ IF n # Null
         THEN tail' = n /\ Return(t)
         ELSE tail' = t /\ Goto("head")

(***************************************************************************)
(* Read tail->next; step over the stub.                                    *)
(***************************************************************************)
PopFirst ==
    /\ cpc = "first"
    /\ CASE tail # Stub -> Advance(tail, next[tail])
         [] tail = Stub /\ next[tail] = Null -> Return(Null) /\ UNCHANGED <<tail, ctail>>
         [] OTHER -> /\ tail' = next[tail]
                     /\ ctail' = next[tail]
                     /\ Goto("second")
    /\ UNCHANGED <<head, next, pushed, quiet, cprev, pvars>>

PopSecond ==
    /\ cpc = "second"
    /\ Advance(ctail, next[ctail])
    /\ UNCHANGED <<head, next, pushed, quiet, cprev, pvars>>

(***************************************************************************)
(* The node has no successor: is it really the last one?                   *)
(***************************************************************************)
PopHead ==
    /\ cpc = "head"
    /\ IF ctail # head THEN Return(Null) ELSE Goto("stub")
    /\ UNCHANGED <<head, next, pushed, quiet, tail, ctail, cprev, pvars>>

(***************************************************************************)
(* pushNode(&stub), so that the last node can be taken out.                *)
(***************************************************************************)
PopStub ==
    /\ cpc = "stub"
    /\ cprev' = head
    /\ head' = Stub
    /\ next' = [next EXCEPT ![Stub] = Null]
    /\ Goto("linkStub")
    /\ UNCHANGED <<pushed, quiet, tail, ctail, pvars>>

PopLinkStub ==
    /\ cpc = "linkStub"
    /\ next' = [next EXCEPT ![cprev] = Stub]
    /\ Goto("last")
    /\ UNCHANGED <<head, pushed, quiet, tail, ctail, cprev, pvars>>

PopLast ==
    /\ cpc = "last"
    /\ IF next[ctail] # Null
         THEN tail' = next[ctail] /\ Return(ctail)
         ELSE Return(Null) /\ UNCHANGED tail
    /\ UNCHANGED <<head, next, pushed, quiet, ctail, cprev, pvars>>

-----------------------------------------------------------------------------
\* canSleep(), by the consumer

CallCanSleep ==
    /\ cpc = "idle"
    /\ IF sleepy \/ tail # Stub \/ next[tail] # Null
         THEN UNCHANGED cpc
         ELSE cpc' = "sleep"
    /\ maySleep' = FALSE
    /\ UNCHANGED <<head, next, pushed, quiet, tail, sleepy, ctail, cprev, again, result, freed, popped,
                   pvars>>

(***************************************************************************)
(* pushNode(&sleeping)                                                     *)
(***************************************************************************)
SleepExchange ==
    /\ cpc = "sleep"
    /\ cprev' = head
    /\ head' = Sleeping
    /\ next' = [next EXCEPT ![Sleeping] = Null]
    /\ Goto("linkSleeping")
    /\ UNCHANGED <<pushed, quiet, tail, ctail, pvars>>

\* Fault: the test that the queue was empty, made before the exchange, is believed.
SleepLinkOptimistic ==
    /\ cpc = "linkSleeping"
    /\ next' = [next EXCEPT ![cprev] = Sleeping]
    /\ sleepy' = TRUE
    /\ maySleep' = TRUE
    /\ cpc' = "idle"
    /\ UNCHANGED <<head, pushed, quiet, tail, ctail, cprev, again, result, freed, popped, pvars>>

SleepLink ==
    /\ cpc = "linkSleeping"
    /\ next' = [next EXCEPT ![cprev] = Sleeping]
    /\ sleepy' = TRUE
    /\ maySleep' = (cprev = Stub)
    /\ cpc' = "idle"
    /\ UNCHANGED <<head, pushed, quiet, tail, ctail, cprev, again, result, freed, popped, pvars>>

PopStep == PopFirst \/ PopSecond \/ PopHead \/ PopStub \/ PopLinkStub \/ PopLast
SleepStep == SleepExchange \/ SleepLink
InCall == PopStep \/ SleepStep

QNext ==
    \/ \E p \in Producers : (\E n \in Items : Exchange(p, n)) \/ Link(p) \/ PushReturns(p)
    \/ CallPop \/ CallCanSleep \/ InCall

QSpec == QInit /\ [][QNext]_qvars

-----------------------------------------------------------------------------
(***************************************************************************)
(* Items come out in the order of the producers' exchanges, none lost,     *)
(* none twice: what has been popped is a prefix of what has been pushed.   *)
(***************************************************************************)
Fifo == IsPrefix(popped, pushed)

(***************************************************************************)
(* No thread holds a pointer to a deleted node: not a producer about to    *)
(* store into its predecessor, not the queue, not the consumer's locals.   *)
(***************************************************************************)
NoUseAfterFree ==
    /\ \A p \in Producers : ppc[p] = "link" => pprev[p] \notin freed
    /\ head \notin freed /\ tail \notin freed
    /\ cpc \in {"second", "head", "stub", "last"} => ctail \notin freed
    /\ cpc \in {"linkStub", "linkSleeping"} => cprev \notin freed

(***************************************************************************)
(* The assertions of pop(): neither the stub nor, the second time, the     *)
(* sleeping node comes out.                                                *)
(***************************************************************************)
PopAssertions == result \notin {Stub, Sleeping}

(***************************************************************************)
(* The memory and the order of the queue, through every overlap.           *)
(***************************************************************************)
QueueSafe == TypeOK /\ Fifo /\ NoUseAfterFree /\ PopAssertions

(***************************************************************************)
(* pop() comes back empty-handed only from an empty queue, or from a call  *)
(* during which some producer had not linked its node yet.                 *)
(***************************************************************************)
EmptyIsJustified ==
    [][(PopStep /\ cpc' = "idle" /\ result' = Null) =>
           popped = pushed \/ ~quiet]_qvars

(***************************************************************************)
(* "If canSleep returns true, then the queue is empty and the next push()  *)
(* will return true": as an implementation of WakeableQueue, in which the  *)
(* consumer is asleep from the exchange that found the queue empty until   *)
(* its next call, and a wakeup is owed while a push that got the  *)
(* sleeping node is on its way or done.                                    *)
(***************************************************************************)
Asleep == maySleep \/ (cpc = "linkSleeping" /\ cprev = Stub)

Owed == Asleep /\ popped # pushed

Abstract == INSTANCE WakeableQueue WITH
                entered <- pushed, left <- popped, asleep <- Asleep, owed <- Owed
ImplementsQueue == Abstract!Spec

(***************************************************************************)
(* The wakeup that is owed is really reported: of the producers that push  *)
(* while the consumer is asleep, the first gets the sleeping node.         *)
(***************************************************************************)
FirstPushReports ==
    [][\A p \in Producers : (Asleep /\ ppc[p] = "idle" /\ ppc'[p] = "link") =>
           (pprev'[p] = Sleeping <=> popped = pushed)]_qvars

(***************************************************************************)
(* What the queue promises its two sides, through every overlap of a push  *)
(* and a pop.                                                              *)
(***************************************************************************)
QueueIsRight == ImplementsQueue /\ EmptyIsJustified /\ FirstPushReports
=============================================================================
