----------------------------- MODULE IndexedSet -----------------------------
(***************************************************************************)
(* IndexedSet (flow/IndexedSet.h): an AVL tree whose nodes keep the sum of *)
(* the metrics below them.  A tree is a value here, so a node has children *)
(* and no parent pointer, and each loop of the code that climbs the tree   *)
(* is the way back of a recursion; balance and total are stored and        *)
(* adjusted by the code's formulas, never recomputed.                      *)
(*                                                                         *)
(* An iterator is the key it points to, or End.                            *)
(***************************************************************************)
EXTENDS Integers, FiniteSets, FiniteSetsExt, Sequences, SequencesExt

CONSTANTS N,        \* the keys are 1..N
          Metrics,  \* metrics items are inserted with
          Vectors,  \* arguments of the insert of many items
          Prefetch  \* length of the queue of ISFreeNodes (10)

\* What the constants have to be.
IndexedSetAssumption ==
    N \in Nat /\ Metrics \subseteq Nat /\ Prefetch \in Nat \ {0}

Keys == 1..N
End == N + 1

VARIABLES
    root,      \* the tree
    map,       \* the items it should hold, with their metrics
    asserted,  \* the assertions of the last operation held
    exact      \* it freed what it took out, each node once

vars == <<root, map, asserted, exact>>

Nil == [nil |-> TRUE]
Node(k, m) == [key |-> k, bal |-> 0, total |-> m, c |-> [d \in 0..1 |-> Nil]]
Total(t) == IF t = Nil THEN 0 ELSE t.total
Sign(d) == IF d = 1 THEN 1 ELSE -1
Dir(b) == IF b THEN 1 ELSE 0
MaxOf(a, b) == IF a > b THEN a ELSE b
MinOf(a, b) == IF a < b THEN a ELSE b

RECURSIVE Height(_), Items(_), Extreme(_, _)
Height(t) == IF t = Nil THEN 0 ELSE 1 + MaxOf(Height(t.c[0]), Height(t.c[1]))
Items(t) == IF t = Nil THEN <<>> ELSE Items(t.c[0]) \o <<t.key>> \o Items(t.c[1])

\* begin() and lastItem()
Extreme(t, d) == IF t.c[d] = Nil THEN t.key ELSE Extreme(t.c[d], d)

-----------------------------------------------------------------------------
Rotate(t, d) ==
    LET n == t.c[1 - d]
        old == [t EXCEPT !.c[1 - d] = n.c[d], !.total = t.total - n.total + Total(n.c[d])]
    IN [n EXCEPT !.c[d] = old, !.total = t.total]

\* Fault: the inner grandchild's balance is ignored.
AdjustBalanceEven(t, d, bal) ==
    [t EXCEPT !.bal = 0, !.c[d].bal = 0, !.c[d].c[1 - d].bal = 0]

AdjustBalance(t, d, bal) ==
    LET inner == t.c[d].c[1 - d].bal
    IN [t EXCEPT !.bal = IF inner = bal THEN -bal ELSE 0,
                 !.c[d].bal = IF inner \in {0, bal} THEN 0 ELSE bal,
                 !.c[d].c[1 - d].bal = 0]

(***************************************************************************)
(* The rotations of ISRebalance, for a root of any imbalance; r is the     *)
(* direction of the last one and bal its sign.                             *)
(***************************************************************************)
InnerRotation(n, r, bal, x) ==
    [Rotate(n, 1 - r) EXCEPT !.bal = (IF x = -bal THEN -2 ELSE -1) * bal,
                             !.c[1 - r].bal = (IF x = bal THEN -1 ELSE 0) * bal]

Double(t, r, bal) == t.c[1 - r].bal = bal

FirstRotation(t, r, bal) ==
    IF Double(t, r, bal) THEN [t EXCEPT !.c[1 - r] = InnerRotation(@, r, bal, @.c[r].bal)] ELSE t

OuterRotation(t, r, bal, nBal) ==
    [Rotate(t, r) EXCEPT !.bal = bal * (1 + MaxOf(nBal, bal * t.bal + 1 + MaxOf(nBal, 0))),
                         !.c[r].bal = t.bal + bal * (1 - MinOf(nBal, 0))]

SecondRotation(t, r, bal) == OuterRotation(t, r, bal, t.c[1 - r].bal * bal)

HeightChange(t, r, bal, childChange) ==
    IF Double(t, r, bal) THEN -1 ELSE MaxOf(t.c[1 - r].bal * bal + childChange, -1)

(***************************************************************************)
(* ISRebalance: the tree, its change in height, and whether the assertion  *)
(* held.  The lower node may need more of it, and then the root again.     *)
(***************************************************************************)
RECURSIVE Rebalance(_), Rotated(_, _, _, _), Settled(_, _, _, _, _), Again(_, _, _, _)
Rebalance(t) ==
    IF t = Nil \/ t.bal \in -1..1 THEN [t |-> t, dh |-> 0, ok |-> TRUE]
    ELSE Rotated(t, Dir(t.bal < 0), Sign(Dir(t.bal < 0)),
                 SecondRotation(FirstRotation(t, Dir(t.bal < 0), Sign(Dir(t.bal < 0))),
                                Dir(t.bal < 0), Sign(Dir(t.bal < 0))))

Rotated(t, r, bal, t2) == Settled(t, r, bal, t2, Rebalance(t2.c[r]))

Settled(t, r, bal, t2, child) ==
    Again(t, [t2 EXCEPT !.c[r] = child.t, !.bal = @ + child.dh * bal],
          HeightChange(t, r, bal, child.dh), child.ok)

Again(t, t3, dh, ok) ==
    IF t3.bal \in -1..1 THEN [t |-> t3, dh |-> dh, ok |-> ok]
    ELSE IF t3.bal * t3.bal >= t.bal * t.bal THEN [t |-> t3, dh |-> dh, ok |-> FALSE]
    ELSE [Rebalance(t3) EXCEPT !.dh = @ + dh, !.ok = @ /\ ok]

-----------------------------------------------------------------------------
RECURSIVE Find(_, _), MoveIterator(_, _, _, _), Descend(_, _), GetMetric(_, _), Index(_, _), SumTo(_, _)
Find(t, k) == IF t = Nil THEN End ELSE IF t.key = k THEN k ELSE Find(t.c[Dir(t.key < k)], k)

\* ++ (d = 1) and previous (d = 0): the next item in the subtree, or the
\* nearest ancestor on that side.
MoveIterator(t, k, d, above) ==
    IF t.key = k
      THEN IF t.c[d] = Nil THEN above ELSE Extreme(t.c[d], 1 - d)
      ELSE LET s == Dir(t.key < k)
           IN MoveIterator(t.c[s], k, d, IF s = 1 - d THEN t.key ELSE above)

Previous(t, i) == IF i = End THEN Extreme(t, 1) ELSE MoveIterator(t, i, 0, End)

\* The leaf at which a search for the first key not below `bound' ends.
Descend(t, bound) ==
    LET n == t.c[Dir(t.key < bound)] IN IF n = Nil THEN t.key ELSE Descend(n, bound)

LowerBound(t, k) ==
    IF t = Nil THEN End
    ELSE LET i == Descend(t, k) IN IF i < k THEN MoveIterator(t, i, 1, End) ELSE i

\* !(key < data) is data < key + 1 on integers.
UpperBound(t, k) == LowerBound(t, k + 1)

LastLessOrEqual(t, k) ==
    LET i == UpperBound(t, k)
    IN IF t = Nil \/ i = Extreme(t, 0) THEN End ELSE Previous(t, i)

GetMetric(t, k) ==
    IF t.key = k THEN t.total - Total(t.c[0]) - Total(t.c[1])
    ELSE GetMetric(t.c[Dir(t.key < k)], k)

Index(t, m) ==
    IF t = Nil THEN End
    ELSE IF t.c[0] # Nil /\ m < t.c[0].total THEN Index(t.c[0], m)
    ELSE LET rest == m - t.total + Total(t.c[1])
         IN IF rest < 0 THEN t.key ELSE Index(t.c[1], rest)

SumTo(t, i) ==
    IF i = End THEN Total(t)
    ELSE IF t.key = i THEN Total(t.c[0])
    ELSE IF t.key < i THEN SumTo(t.c[1], i) - t.c[1].total + t.total
    ELSE SumTo(t.c[0], i)

-----------------------------------------------------------------------------
(***************************************************************************)
(* One step of the climb after an insert: child d grew.                    *)
(***************************************************************************)
Grow(t, d) ==
    LET bal == Sign(d)
        t1 == [t EXCEPT !.bal = @ + bal]
    IN IF t1.bal \in -1..1 THEN [t |-> t1, grew |-> t1.bal # 0]
       ELSE IF t.c[d].bal = bal
         THEN [t |-> Rotate([t1 EXCEPT !.bal = 0, !.c[d].bal = 0], 1 - d), grew |-> FALSE]
         ELSE [t |-> Rotate([AdjustBalance(t1, d, bal) EXCEPT !.c[d] = Rotate(@, d)], 1 - d),
               grew |-> FALSE]

(***************************************************************************)
(* A new node for key k as the last one that is not above `after'.         *)
(***************************************************************************)
RECURSIVE Add(_, _, _, _), Replace(_, _, _)
Add(t, k, m, after) ==
    IF t = Nil THEN [t |-> Node(k, m), grew |-> TRUE]
    ELSE LET d == Dir(t.key <= after)
             below == Add(t.c[d], k, m, after)
             t1 == [t EXCEPT !.c[d] = below.t, !.total = @ + m]
         IN IF below.grew THEN Grow(t1, d) ELSE [t |-> t1, grew |-> FALSE]

\* The item's new metric, and the difference in every node above it.
Replace(t, k, m) ==
    IF t.key = k THEN [t EXCEPT !.total = m + Total(t.c[0]) + Total(t.c[1])]
    ELSE LET d == Dir(t.key < k)
             below == Replace(t.c[d], k, m)
         IN [t EXCEPT !.c[d] = below, !.total = @ + (below.total - t.c[d].total)]

Insert(t, k, m, replaceExisting) ==
    IF Find(t, k) = End THEN Add(t, k, m, k).t
    ELSE IF replaceExisting THEN Replace(t, k, m) ELSE t

\* A search is needed: there is no block yet, or k lies behind its end.
InNewBlock(b, k) == b.start = End \/ (b.stop # End /\ k >= b.stop)

(***************************************************************************)
(* One item of the insert of many: next to the last item inserted, as long *)
(* as it is below the item that followed the last one searched for.        *)
(***************************************************************************)
InsertNext(b, item, replaceExisting) ==
    LET k == item[1]
        m == item[2]
        stop == LowerBound(b.t, k)
    IN IF ~InNewBlock(b, k)
         THEN [b EXCEPT !.t = Add(b.t, k, m, b.start).t, !.start = k, !.count = @ + 1]
         ELSE [t |-> Insert(b.t, k, m, replaceExisting), start |-> k, stop |-> stop,
               count |-> b.count + (IF stop = k /\ ~replaceExisting THEN 0 ELSE 1)]

InsertMany(t, v, replaceExisting) ==
    FoldLeft(LAMBDA b, item : InsertNext(b, item, replaceExisting),
             [t |-> t, start |-> End, stop |-> End, count |-> 0], v)

-----------------------------------------------------------------------------
(***************************************************************************)
(* One step of the climb after an erase: child d shrank.                   *)
(***************************************************************************)
Shrink(t, d) ==
    LET bal == Sign(d)
        t1 == [t EXCEPT !.bal = @ - bal]
        n == t.c[1 - d]
    IN IF t1.bal \in -1..1 THEN [t |-> t1, shrank |-> t1.bal = 0]
       ELSE IF n.bal = -bal
         THEN [t |-> Rotate([t1 EXCEPT !.bal = 0, !.c[1 - d].bal = 0], d), shrank |-> TRUE]
       ELSE IF n.bal = bal
         THEN [t |-> Rotate([AdjustBalance(t1, 1 - d, -bal) EXCEPT !.c[1 - d] = Rotate(@, 1 - d)], d),
               shrank |-> TRUE]
         ELSE [t |-> Rotate([t1 EXCEPT !.bal = -bal, !.c[1 - d].bal = bal], d), shrank |-> FALSE]

\* A subtree after something with metric m was taken out of child d.
Taken(t, d, below, m) ==
    LET t1 == [t EXCEPT !.c[d] = below.t, !.total = @ - m]
    IN IF below.shrank THEN Shrink(t1, d) ELSE [t |-> t1, shrank |-> FALSE]

RECURSIVE EraseNode(_, _)
EraseNode(t, k) ==
    IF t.key # k
      THEN LET d == Dir(t.key < k) IN Taken(t, d, EraseNode(t.c[d], k), GetMetric(t, k))
    ELSE IF t.c[0] = Nil \/ t.c[1] = Nil
      THEN [t |-> t.c[Dir(t.c[0] = Nil)], shrank |-> TRUE]
    ELSE LET p == Extreme(t.c[0], 1)
             moved == [t EXCEPT !.key = p, !.total = @ - GetMetric(t, k)]
         IN Taken(moved, 0, EraseNode(t.c[0], p), 0)

Erase(t, k) == IF k = End THEN t ELSE EraseNode(t, k).t

-----------------------------------------------------------------------------
(***************************************************************************)
(* The parent's balance when the height of its child d changed by dh, and  *)
(* what that does to the parent's height (as eraseHalf computes it).       *)
(***************************************************************************)
Lowered(t, d, dh) ==
    LET bal == t.bal + dh * Sign(d)
    IN [bal |-> bal,
        dh |-> -MinOf(MaxOf(t.bal * Sign(d), 0), (t.bal - bal) * Sign(d))]

HeightLost(t, eraseDir) == -1 - MaxOf(0, t.bal * Sign(eraseDir))

Detached(t, from) == [t EXCEPT !.c[from] = Nil]

Rebalanced(h, r) ==
    [h EXCEPT !.t = r.t, !.dh = @ + r.dh, !.ok = @ /\ r.ok /\ h.dh + r.dh <= 0]

(***************************************************************************)
(* One turn of the loop of eraseHalf: t was reached from side `from' with  *)
(* height change h.dh, h.dm to be taken off the totals.                    *)
(***************************************************************************)
HalfStep(t, from, eraseDir, h) ==
    LET t1 == [t EXCEPT !.total = @ - h.dm]
    IN IF from = eraseDir THEN Rebalanced(h, Rebalance(t1))
         ELSE LET n == t1.c[from]
                  dh == h.dh + HeightLost(t1, eraseDir)
              IN [t |-> n, dh |-> dh, dm |-> h.dm + t1.total - Total(n), ok |-> h.ok /\ dh <= 0,
                  free |-> Append(h.free, Detached(t1, from))]

\* t with child d replaced by what is left of it.
HalfChild(t, d, below) ==
    LET low == Lowered(t, d, below.dh)
    IN [below EXCEPT !.t = [t EXCEPT !.c[d] = below.t, !.bal = low.bal], !.dh = low.dh]

HalfUp(d, eraseDir, h) == HalfStep(h.t, d, eraseDir, h)

RECURSIVE HalfBelow(_, _, _, _)
HalfBelow(t, k, eraseDir, free) ==
    IF t.key = k
      THEN HalfStep(t, 1 - eraseDir, eraseDir, [t |-> t, dh |-> 0, dm |-> 0, ok |-> TRUE, free |-> free])
      ELSE HalfUp(Dir(t.key < k), eraseDir,
                  HalfChild(t, Dir(t.key < k), HalfBelow(t.c[Dir(t.key < k)], k, eraseDir, free)))

EraseHalf(t, k, eraseDir, free) ==
    IF t.key = k THEN [t |-> t, dh |-> 0, dm |-> 0, ok |-> TRUE, free |-> free]
    ELSE LET d == Dir(t.key < k) IN HalfChild(t, d, HalfBelow(t.c[d], k, eraseDir, free))

\* r is what rebalancing made of the subtree.
Climbed(e, r) ==
    [t |-> r.t, dh |-> e.dh + r.dh, dm |-> e.dm, free |-> e.free, ok |-> e.ok /\ r.ok, sub |-> e.sub]

(***************************************************************************)
(* The climb from the common root to the root of the tree.                 *)
(***************************************************************************)
Above(t, d, below, bal) ==
    Climbed([below EXCEPT !.dh = MaxOf(bal * Sign(d), 0) - MaxOf(t.bal * Sign(d), 0)],
            Rebalance([t EXCEPT !.c[d] = below.t, !.bal = bal, !.total = @ - below.dm]))

(***************************************************************************)
(* erase(begin, end) for the items first..last, up to the erase of the     *)
(* common root, whose key is `sub'.                                        *)
(***************************************************************************)
BothHalves(l, r, sub) ==
    Climbed([dh |-> l.dh + r.dh, dm |-> l.dm + r.dm, free |-> r.free, ok |-> l.ok /\ r.ok, sub |-> sub],
            Rebalance([r.t EXCEPT !.total = @ - (l.dm + r.dm)]))

LeftErased(l, last, sub) == BothHalves(l, EraseHalf(l.t, last, 0, l.free), sub)

RECURSIVE EraseBetween(_, _, _), AboveBetween(_, _, _)
EraseBetween(t, first, last) ==
    IF t.key < first \/ last < t.key
      THEN AboveBetween(t, Dir(t.key < first), EraseBetween(t.c[Dir(t.key < first)], first, last))
      ELSE LeftErased(EraseHalf(t, first, 1, <<>>), last, t.key)

AboveBetween(t, d, below) == Above(t, d, below, t.bal + below.dh * Sign(d))

EraseRange(t, begin, end) == EraseBetween(t, begin, Previous(t, end))

(***************************************************************************)
(* ISFreeNodes: a stack of subtrees, and the queue of nodes prefetched.    *)
(***************************************************************************)
RECURSIVE FreeNodes(_, _)
FreeNodes(toFree, queue) ==
    IF toFree = <<>> /\ queue = <<>> THEN <<>>
    ELSE IF toFree # <<>> /\ Len(queue) < Prefetch
      THEN FreeNodes(SubSeq(toFree, 1, Len(toFree) - 1), Append(queue, toFree[Len(toFree)]))
      ELSE LET n == Head(queue)
           IN <<n.key>> \o FreeNodes(toFree \o SelectSeq(<<n.c[0], n.c[1]>>, LAMBDA x : x # Nil),
                                     Tail(queue))

-----------------------------------------------------------------------------
Init == root = Nil /\ map = [k \in {} |-> 0] /\ asserted = TRUE /\ exact = TRUE

With(f, k, m) == [j \in DOMAIN f \union {k} |-> IF j = k THEN m ELSE f[j]]
Without(f, S) == [j \in DOMAIN f \ S |-> f[j]]

InsertItem(k, m, replaceExisting) ==
    /\ root' = Insert(root, k, m, replaceExisting)
    /\ map' = IF k \in DOMAIN map /\ ~replaceExisting THEN map ELSE With(map, k, m)
    /\ asserted' = TRUE /\ exact' = TRUE

\* Find, and an insert of the new sum.
AddMetric(k, m) ==
    /\ root' = Insert(root, k, IF Find(root, k) = End THEN m ELSE m + GetMetric(root, k), TRUE)
    /\ map' = With(map, k, IF k \in DOMAIN map THEN map[k] + m ELSE m)
    /\ map'[k] \in Metrics
    /\ asserted' = TRUE /\ exact' = TRUE

InsertVector(v, replaceExisting) ==
    /\ root' = InsertMany(root, v, replaceExisting).t
    /\ map' = FoldLeft(LAMBDA f, item : IF item[1] \in DOMAIN f /\ ~replaceExisting THEN f
                                        ELSE With(f, item[1], item[2]), map, v)
    /\ asserted' = TRUE /\ exact' = TRUE

EraseItem(k) ==
    /\ root' = Erase(root, Find(root, k))
    /\ map' = Without(map, {k})
    /\ asserted' = TRUE /\ exact' = TRUE

\* erase and eraseAsync of the items from `begin' to `end'.
EraseItems(begin, end) ==
    \E r \in {EraseRange(root, begin, end)} :
    \E gone \in {<<r.sub>> \o FreeNodes(r.free, <<>>)} :
        /\ root' = Erase(r.t, r.sub)
        /\ asserted' = r.ok
        /\ exact' = /\ Range(gone) = DOMAIN map \ DOMAIN map'
                    /\ Len(gone) = Cardinality(Range(gone))

EraseKeys(b, e) ==
    /\ b <= e
    /\ map' = Without(map, b..(e - 1))
    /\ IF LowerBound(root, b) = LowerBound(root, e)
         THEN UNCHANGED root /\ asserted' = TRUE /\ exact' = TRUE
         ELSE EraseItems(LowerBound(root, b), LowerBound(root, e))

Clear ==
    /\ root' = Nil /\ map' = [k \in {} |-> 0] /\ asserted' = TRUE /\ exact' = TRUE

Next ==
    \/ \E k \in Keys, m \in Metrics : AddMetric(k, m) \/ \E r \in BOOLEAN : InsertItem(k, m, r)
    \/ \E v \in Vectors, r \in BOOLEAN : InsertVector(v, r)
    \/ \E k \in Keys : EraseItem(k)
    \/ \E b, e \in 1..End : EraseKeys(b, e)
    \/ Clear

Spec == Init /\ [][Next]_vars

-----------------------------------------------------------------------------
RECURSIVE Nodes(_)
Nodes(t) == IF t = Nil THEN {} ELSE {t} \union Nodes(t.c[0]) \union Nodes(t.c[1])

(***************************************************************************)
(* Every item is there once and in order: the BST invariant and the set    *)
(* the tree stands for.                                                    *)
(***************************************************************************)
HoldsItems ==
    LET s == Items(root)
    IN Range(s) = DOMAIN map /\ \A i \in 1..(Len(s) - 1) : s[i] < s[i + 1]

(***************************************************************************)
(* The stored balance is the difference of the heights, and the tree is an *)
(* AVL tree, after inserts and after erases of any range.                  *)
(***************************************************************************)
BalanceInvariant ==
    \A t \in Nodes(root) : t.bal \in -1..1 /\ t.bal = Height(t.c[1]) - Height(t.c[0])

(***************************************************************************)
(* The total of a node is the sum of the metrics below it.                 *)
(***************************************************************************)
MetricInvariant ==
    \A t \in Nodes(root) :
        t.total = FoldLeft(LAMBDA s, k : s + map[k], 0, Items(t))

(***************************************************************************)
(* The searches return what the comments of the class promise.             *)
(***************************************************************************)
Least(S) == IF S = {} THEN End ELSE CHOOSE k \in S : \A j \in S : k <= j
Greatest(S) == IF S = {} THEN End ELSE CHOOSE k \in S : \A j \in S : k >= j
SumBelow(i) == MapThenSumSet(LAMBDA k : map[k], {k \in DOMAIN map : k < i})

SearchesAgree ==
    /\ \A k \in Keys :
         /\ Find(root, k) = (IF k \in DOMAIN map THEN k ELSE End)
         /\ LowerBound(root, k) = Least({j \in DOMAIN map : j >= k})
         /\ UpperBound(root, k) = Least({j \in DOMAIN map : j > k})
         /\ LastLessOrEqual(root, k) = Greatest({j \in DOMAIN map : j <= k})
    /\ \A i \in DOMAIN map \union {End} : SumTo(root, i) = SumBelow(i)
    /\ \A k \in DOMAIN map : GetMetric(root, k) = map[k]
    /\ \A m \in 0..Total(root) :
         Index(root, m) = Least({k \in DOMAIN map : m < SumBelow(k) + map[k]})

(***************************************************************************)
(* No assertion of ISRebalance or eraseHalf fails: a rebalancing step      *)
(* always makes the root less unbalanced, and erasing never adds height.   *)
(***************************************************************************)
NoAssertionFails == asserted

(***************************************************************************)
(* What an erase takes out of the tree is freed, each node once.           *)
(***************************************************************************)
FreedOnce == exact

(***************************************************************************)
(* All of this at once, after every insert and erase.                      *)
(***************************************************************************)
TreeRight == HoldsItems /\ BalanceInvariant /\ MetricInvariant /\ NoAssertionFails /\ FreedOnce
=============================================================================
