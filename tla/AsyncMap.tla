------------------------------ MODULE AsyncMap ------------------------------
(***************************************************************************)
(* AsyncMap and YieldedAsyncMap (flow/genericactors.actor.h).  An entry    *)
(* has a value and the promise of its next change.  An entry with the      *)
(* default value exists only for the sake of its watchers, which are       *)
(* destroyOnCancel actors; the last of them to be cancelled erases it, and *)
(* finds out that it is the last from the reference counts of the promise. *)
(*                                                                         *)
(* Sending a change runs the watchers' code, which may use the map again:  *)
(* `firing' is the stack of sends in progress.                             *)
(***************************************************************************)
EXTENDS Integers, Sequences, FiniteSets

CONSTANTS Keys, Values, Watchers,
          Ids,      \* names for promises; reused when nothing refers to them
          Depth,    \* bound on sends inside sends
          Yielded   \* TRUE for YieldedAsyncMap

Default == 0 \* V()

\* What the constants have to be.
AsyncMapAssumption ==
    /\ Default \in Values /\ Ids \subseteq Nat
    /\ Depth \in Nat /\ Yielded \in BOOLEAN

VARIABLES
    items,       \* the map: [value, change]
    watch,       \* what each watcher waits for: [st, key, change, own]
    firing,      \* promises being sent, the innermost first
    destructing, \* AsyncMap::destructing
    lastSet,     \* the value of each key that was set last
    erasedLate   \* an entry was erased while the map was being destroyed

vars == <<items, watch, firing, destructing, lastSet, erasedLate>>

Idle == [st |-> "idle", key |-> 0, change |-> 0, own |-> FALSE]

TypeOK ==
    /\ DOMAIN items \subseteq Keys
    /\ \A k \in DOMAIN items : items[k].value \in Values /\ items[k].change \in Ids
    /\ \A w \in Watchers : watch[w].st \in {"idle", "waiting", "yielding", "told", "broken", "cancelled"}
    /\ firing \in Seq(Ids) /\ Len(firing) <= Depth
    /\ destructing \in BOOLEAN

Init ==
    /\ items = [k \in {} |-> 0]
    /\ watch = [w \in Watchers |-> Idle]
    /\ firing = <<>>
    /\ destructing = FALSE
    /\ lastSet = [k \in Keys |-> Default]
    /\ erasedLate = FALSE

-----------------------------------------------------------------------------
Firing(c) == \E n \in DOMAIN firing : firing[n] = c
On(c) == {w \in Watchers : watch[w].st = "waiting" /\ watch[w].change = c}

InUse == {items[k].change : k \in DOMAIN items} \union {firing[n] : n \in DOMAIN firing}
         \union {watch[w].change : w \in {v \in Watchers : watch[v].st \in {"waiting", "yielding"}}}
Fresh == CHOOSE c \in Ids \ InUse : \A d \in Ids \ InUse : c <= d

(***************************************************************************)
(* The counts of a change: the entry's promise, and trigger and noDestroy  *)
(* while it is sent; the futures kept by destroyOnCancel actors, and one   *)
(* for the ring of callbacks.                                              *)
(***************************************************************************)
PromiseRefs(c) ==
    Cardinality({k \in DOMAIN items : items[k].change = c}) + (IF Firing(c) THEN 2 ELSE 0)

FutureRefs(c, leaving) ==
    Cardinality({w \in Watchers \ {leaving} : /\ watch[w].st \in {"waiting", "yielding"}
                                              /\ watch[w].change = c /\ watch[w].own})
    + (IF On(c) \ {leaving} # {} THEN 1 ELSE 0)

With(m, k, r) == [j \in DOMAIN m \union {k} |-> IF j = k THEN r ELSE m[j]]
Without(m, k) == [j \in DOMAIN m \ {k} |-> m[j]]

Entry(k) == IF k \in DOMAIN items THEN items[k] ELSE [value |-> Default, change |-> Fresh]

Alive == ~destructing
MaySend == Alive /\ Len(firing) < Depth /\ Ids \ InUse # {}

-----------------------------------------------------------------------------
(***************************************************************************)
(* The entry once its promise has been swapped for the new one c.          *)
(***************************************************************************)
Stored(k, v, c) ==
    IF v = Default THEN Without(items, k) ELSE With(items, k, [value |-> v, change |-> c])

(***************************************************************************)
(* setUnconditional(k, v, items[k]).                                       *)
(***************************************************************************)
SetUnconditional(k, v) ==
    /\ MaySend
    /\ k \notin DOMAIN items => Cardinality(Ids \ InUse) >= 2
    /\ LET old == Entry(k).change
           new == IF k \in DOMAIN items THEN Fresh ELSE CHOOSE c \in Ids \ (InUse \union {old}) : TRUE
       IN /\ items' = Stored(k, v, new)
          /\ firing' = <<old>> \o firing
    /\ lastSet' = [lastSet EXCEPT ![k] = v]
    /\ UNCHANGED <<watch, destructing, erasedLate>>

(***************************************************************************)
(* set(k, v): items[k] makes an entry even if nothing changes.             *)
(***************************************************************************)
Set(k, v) ==
    IF Entry(k).value # v
      THEN SetUnconditional(k, v)
      ELSE /\ Alive /\ Ids \ InUse # {}
           /\ items' = With(items, k, Entry(k))
           /\ UNCHANGED <<watch, firing, destructing, lastSet, erasedLate>>

(***************************************************************************)
(* trigger(k); triggerAll and triggerRange do this for several entries,    *)
(* without erasing any.                                                    *)
(***************************************************************************)
Trigger(k) ==
    /\ MaySend /\ k \in DOMAIN items
    /\ firing' = <<items[k].change>> \o firing
    /\ items' = IF items[k].value = Default THEN Without(items, k)
                ELSE [items EXCEPT ![k].change = Fresh]
    /\ UNCHANGED <<watch, destructing, lastSet, erasedLate>>

TriggerAll ==
    /\ Alive /\ firing = <<>>
    /\ \E f \in [DOMAIN items -> Ids \ InUse] :
         /\ \A j, k \in DOMAIN items : f[j] = f[k] => j = k
         /\ items' = [k \in DOMAIN items |-> [items[k] EXCEPT !.change = f[k]]]
    /\ \E s \in [1..Cardinality(DOMAIN items) -> {items[k].change : k \in DOMAIN items}] :
         /\ \A m, n \in DOMAIN s : s[m] = s[n] => m = n
         /\ firing' = s
    /\ Len(firing') <= Depth
    /\ UNCHANGED <<watch, destructing, lastSet, erasedLate>>

(***************************************************************************)
(* onChange(k); a watcher of a default entry is a destroyOnCancel actor.   *)
(***************************************************************************)
OnChange(w, k) ==
    /\ Alive /\ watch[w].st # "waiting" /\ watch[w].st # "yielding"
    /\ k \in DOMAIN items \/ Ids \ InUse # {}
    /\ items' = With(items, k, Entry(k))
    /\ watch' = [watch EXCEPT ![w] = [st |-> "waiting", key |-> k, change |-> Entry(k).change,
                                      own |-> Entry(k).value = Default]]
    /\ UNCHANGED <<firing, destructing, lastSet, erasedLate>>

\* Fault: the entry is erased in the middle of a change.
IsLastFutureOnly(w, c) == ~destructing /\ FutureRefs(c, w) + 1 = 1

(***************************************************************************)
(* The condition under which destroyOnCancel erases its entry; its own     *)
(* future still counts.                                                    *)
(***************************************************************************)
IsLast(w, c) == ~destructing /\ FutureRefs(c, w) + 1 = 1 /\ PromiseRefs(c) = 1

(***************************************************************************)
(* A watcher is cancelled.                                                 *)
(***************************************************************************)
CancelWatch(w) ==
    /\ watch[w].st \in {"waiting", "yielding"}
    /\ watch' = [watch EXCEPT ![w] = [Idle EXCEPT !.st = "cancelled"]]
    /\ IF watch[w].own /\ IsLast(w, watch[w].change)
         THEN items' = Without(items, watch[w].key) /\ erasedLate' = (erasedLate \/ destructing)
         ELSE UNCHANGED <<items, erasedLate>>
    /\ UNCHANGED <<firing, destructing, lastSet>>

-----------------------------------------------------------------------------
(***************************************************************************)
(* The send in progress tells the next watcher; a yielded one may wait for *)
(* a delay first.                                                          *)
(***************************************************************************)
FireNext ==
    /\ firing # <<>>
    /\ \E w \in On(Head(firing)) :
         watch' = [watch EXCEPT ![w] = IF Yielded THEN [@ EXCEPT !.st = "yielding"]
                                       ELSE [Idle EXCEPT !.st = "told"]]
    /\ UNCHANGED <<items, firing, destructing, lastSet, erasedLate>>

YieldEnds(w) ==
    /\ watch[w].st = "yielding"
    /\ watch' = [watch EXCEPT ![w] = [Idle EXCEPT !.st = "told"]]
    /\ UNCHANGED <<items, firing, destructing, lastSet, erasedLate>>

SendReturns ==
    /\ firing # <<>> /\ On(Head(firing)) = {}
    /\ firing' = Tail(firing)
    /\ UNCHANGED <<items, watch, destructing, lastSet, erasedLate>>

(***************************************************************************)
(* ~AsyncMap breaks the promises one after the other.                      *)
(***************************************************************************)
Destroy ==
    /\ Alive /\ firing = <<>>
    /\ destructing' = TRUE
    /\ UNCHANGED <<items, watch, firing, lastSet, erasedLate>>

BreakNext ==
    /\ destructing
    /\ \E k \in DOMAIN items :
         IF On(items[k].change) = {}
           THEN items' = Without(items, k) /\ UNCHANGED watch
           ELSE /\ \E w \in On(items[k].change) :
                     watch' = [watch EXCEPT ![w] = [Idle EXCEPT !.st = "broken"]]
                /\ UNCHANGED items
    /\ UNCHANGED <<firing, destructing, lastSet, erasedLate>>

(***************************************************************************)
(* Watchers and clients act whenever no code of the map runs, or the map   *)
(* has called them.                                                        *)
(***************************************************************************)
ClientStep ==
    \/ \E k \in Keys : \/ Trigger(k)
                       \/ \E v \in Values : Set(k, v) \/ SetUnconditional(k, v)
                       \/ \E w \in Watchers : OnChange(w, k)
    \/ \E w \in Watchers : CancelWatch(w)
    \/ TriggerAll \/ Destroy

MapStep == FireNext \/ SendReturns \/ BreakNext \/ \E w \in Watchers : YieldEnds(w)

Next == ClientStep \/ MapStep

Spec == Init /\ [][Next]_vars

-----------------------------------------------------------------------------
(***************************************************************************)
(* Everyone who waits for a change of k will hear of it: it waits for the  *)
(* promise that the map has for k, or for one being sent right now.        *)
(***************************************************************************)
NoLostWatcher ==
    \A w \in Watchers :
        watch[w].st = "waiting" =>
            \/ Firing(watch[w].change)
            \/ /\ watch[w].key \in DOMAIN items
               /\ items[watch[w].key].change = watch[w].change

(***************************************************************************)
(* The map is the function that was set, however watchers come and go      *)
(* while a change is sent.                                                 *)
(***************************************************************************)
Get(k) == IF k \in DOMAIN items THEN items[k].value ELSE Default

ValuesKept == ~destructing => \A k \in Keys : Get(k) = lastSet[k]

(***************************************************************************)
(* No watcher touches the entries of a map that is being destroyed.        *)
(***************************************************************************)
NoEraseInDestructor == ~erasedLate

(***************************************************************************)
(* The comment of the class: "Every item in the map either has             *)
(* value!=defaultValue xor a destroyOnCancel actor waiting on              *)
(* change.getFuture()".                                                    *)
(***************************************************************************)
ItemInvariant ==
    firing = <<>> /\ ~destructing =>
        \A k \in DOMAIN items :
            ~(items[k].value # Default <=> \E w \in On(items[k].change) : watch[w].own)

(***************************************************************************)
(* All of this at once: no watcher is forgotten, no value undone and       *)
(* nothing touched late.                                                   *)
(***************************************************************************)
WatchersSafe == TypeOK /\ NoLostWatcher /\ ValuesKept /\ NoEraseInDestructor
=============================================================================
