-------------------------- MODULE Net2WakeupProofs --------------------------
(***************************************************************************)
(* Proofs about modules ThreadSafeQueue and Net2Wakeup, for any number of  *)
(* threads and any set of items.                                           *)
(***************************************************************************)
EXTENDS Net2Wakeup, SequenceLemmas, TLAPS

(***************************************************************************)
(* The list from tail to head, as a sequence ch: its nodes are different,  *)
(* and each is linked to the next one unless that one is in P, the nodes   *)
(* whose links are still to be made.                                       *)
(***************************************************************************)
Core(ch, nx, P) ==
    /\ ch \in Seq(Nodes) /\ ch # <<>>
    /\ \A i, j \in 1..Len(ch) : ch[i] = ch[j] => i = j
    /\ nx[ch[Len(ch)]] = Null
    /\ \A i \in 1..(Len(ch) - 1) : nx[ch[i]] = IF ch[i + 1] \in P THEN Null ELSE ch[i + 1]
    /\ \A n \in P : \E i \in 1..(Len(ch) - 1) : ch[i + 1] = n

(***************************************************************************)
(* What the list holds: the items pushed and not popped yet, in the order  *)
(* of the pushes; what was popped is a prefix of what was pushed, and      *)
(* nothing is pushed twice.                                                *)
(***************************************************************************)
Content(ch, pu, po) ==
    /\ Len(po) <= Len(pu)
    /\ \A k \in 1..Len(po) : po[k] = pu[k]
    /\ \A k, l \in 1..Len(pu) : pu[k] = pu[l] => k = l
    /\ \A i \in 1..Len(ch) : ch[i] \in Items => \E k \in (Len(po) + 1)..Len(pu) : pu[k] = ch[i]
    /\ \A k \in (Len(po) + 1)..Len(pu) : \E i \in 1..Len(ch) : ch[i] = pu[k]
    /\ \A i, j \in 1..Len(ch) : \A k, l \in 1..Len(pu) :
         (i < j /\ ch[i] = pu[k] /\ ch[j] = pu[l]) => k < l

(***************************************************************************)
(* Node n is on the list.                                                  *)
(***************************************************************************)
On(ch, n) == \E i \in 1..Len(ch) : ch[i] = n

(***************************************************************************)
(* The nodes whose exchange on head is done and whose link is still to be  *)
(* made: by a producer between its two writes in push(), by pop() adding   *)
(* the stub, by canSleep() adding the sleeping node.                       *)
(***************************************************************************)
Pend == {n \in Nodes : \/ \E p \in Producers : ppc[p] = "link" /\ pnode[p] = n
                       \/ cpc = "linkStub" /\ n = Stub
                       \/ cpc = "linkSleeping" /\ n = Sleeping}

(***************************************************************************)
(* Node b comes right after node a on the list.                            *)
(***************************************************************************)
Follows(ch, a, b) == \E i \in 1..(Len(ch) - 1) : ch[i] = a /\ ch[i + 1] = b

(***************************************************************************)
(* Whoever is still to make a link remembers the right predecessor.        *)
(***************************************************************************)
Preds(ch) ==
    /\ \A p \in Producers : ppc[p] = "link" => Follows(ch, pprev[p], pnode[p])
    /\ cpc = "linkStub" => Follows(ch, cprev, Stub)
    /\ cpc = "linkSleeping" => Follows(ch, cprev, Sleeping)

(***************************************************************************)
(* Where the two special nodes are at each step of pop() and canSleep();   *)
(* asleep, the list begins with the stub and the sleeping node.            *)
(***************************************************************************)
Special(ch) ==
    /\ On(ch, Sleeping) <=> (sleepy \/ cpc = "linkSleeping")
    /\ cpc \in {"second", "stub"} => ~On(ch, Stub)
    /\ cpc \in {"linkStub", "last"} => On(ch, Stub)
    /\ (quiet /\ cpc = "head") => Len(ch) = 1
    /\ Asleep => Len(ch) >= 2 /\ ch[1] = Stub /\ ch[2] = Sleeping

(***************************************************************************)
(* The sequence ch is the list the pointers of the queue stand for.        *)
(***************************************************************************)
ChainOK(ch) ==
    /\ Core(ch, next, Pend) /\ Preds(ch) /\ Content(ch, pushed, popped)
    /\ ch[1] = tail /\ ch[Len(ch)] = head
    /\ Special(ch)

(***************************************************************************)
(* What the local variables of push(), pop() and canSleep() hold between   *)
(* their steps.                                                            *)
(***************************************************************************)
Locals ==
    /\ freed = {popped[k] : k \in 1..Len(popped)}
    /\ \A n \in Items \ ToSet(pushed) : next[n] = Null
    /\ \A p \in Producers : ppc[p] = "link" => pnode[p] \in Items
    /\ \A p, q \in Producers : (ppc[p] = "link" /\ ppc[q] = "link" /\ pnode[p] = pnode[q]) => p = q
    /\ cpc \in {"second", "head", "stub", "linkStub", "last"} => ctail = tail /\ tail # Stub
    /\ cpc \in {"sleep", "linkSleeping"} => tail = Stub /\ ~sleepy
    /\ (again /\ cpc \in {"first", "second", "head", "stub", "linkStub", "last"}) => ~sleepy
    /\ maySleep => cpc = "idle"
    /\ quiet => \A p \in Producers : ppc[p] # "link"
    /\ result \notin {Stub, Sleeping}


(***************************************************************************)
(* The inductive invariant of the queue: the pointers stand for some list. *)
(***************************************************************************)
QInv == TypeOK /\ Locals /\ \E ch \in Seq(Nodes) : ChainOK(ch)

-----------------------------------------------------------------------------
\* The list: a node is added, a link is made, the first node is left.

(***************************************************************************)
(* The special nodes and the items are all different.                      *)
(***************************************************************************)
LEMMA DistinctNodes ==
    /\ Stub # Sleeping /\ Stub # Null /\ Sleeping # Null
    /\ Stub \notin Items /\ Sleeping \notin Items /\ Null \notin Items
    /\ Null \notin Nodes
  BY NodesAssumption DEF Nodes

(***************************************************************************)
(* The exchange on head puts a node at the end of the list, its link       *)
(* pending.                                                                *)
(***************************************************************************)
LEMMA CoreAppend ==
    ASSUME NEW ch, NEW nx, NEW P, Core(ch, nx, P), NEW n \in Nodes, ~On(ch, n),
           NEW mx, mx[n] = Null, \A m \in Nodes : m # n => mx[m] = nx[m]
    PROVE  /\ Core(Append(ch, n), mx, P \union {n})
           /\ Len(Append(ch, n)) = Len(ch) + 1
           /\ Append(ch, n)[Len(ch) + 1] = n
           /\ \A i \in 1..Len(ch) : Append(ch, n)[i] = ch[i]
           /\ Follows(Append(ch, n), ch[Len(ch)], n)
  <1> DEFINE d == Append(ch, n)
  <1>1. ch \in Seq(Nodes) /\ Len(ch) \in Nat /\ Len(ch) > 0
    BY LenProperties, EmptySeq DEF Core
  <1>2. /\ d \in Seq(Nodes) /\ Len(d) = Len(ch) + 1 /\ d[Len(ch) + 1] = n
        /\ \A i \in 1..Len(ch) : d[i] = ch[i]
    BY <1>1, AppendProperties
  <1> HIDE DEF d
  <1>3. \A i \in 1..Len(ch) : ch[i] \in Nodes /\ ch[i] # n
    BY <1>1, ElementOfSeq DEF On
  <1>4. d # <<>> /\ \A i, j \in 1..Len(d) : d[i] = d[j] => i = j
    BY <1>1, <1>2, <1>3, EmptySeq DEF Core
  <1>5. mx[d[Len(d)]] = Null
    BY <1>2
  <1>6. ASSUME NEW i \in 1..(Len(d) - 1)
        PROVE  mx[d[i]] = IF d[i + 1] \in P \union {n} THEN Null ELSE d[i + 1]
    <2>1. CASE i = Len(ch)
      <3>1. d[i] = ch[Len(ch)] /\ d[i + 1] = n /\ mx[ch[Len(ch)]] = nx[ch[Len(ch)]]
        BY <1>1, <1>2, <1>3, <2>1
      <3> QED
        BY <3>1 DEF Core
    <2>2. CASE i < Len(ch)
      <3>1. /\ i \in 1..(Len(ch) - 1) /\ d[i] = ch[i] /\ d[i + 1] = ch[i + 1]
            /\ ch[i + 1] # n /\ mx[ch[i]] = nx[ch[i]]
        BY <1>1, <1>2, <1>3, <2>2
      <3> QED
        BY <3>1 DEF Core
    <2> QED
      BY <1>1, <1>2, <2>1, <2>2
  <1>7. ASSUME NEW m \in P \union {n}
        PROVE  \E i \in 1..(Len(d) - 1) : d[i + 1] = m
    <2>1. CASE m = n
      BY <1>1, <1>2, <2>1
    <2>2. CASE m \in P
      <3>1. PICK i \in 1..(Len(ch) - 1) : ch[i + 1] = m
        BY <2>2 DEF Core
      <3>2. i \in 1..(Len(d) - 1) /\ d[i + 1] = m
        BY <1>1, <1>2, <3>1
      <3> QED
        BY <3>2
    <2> QED
      BY <2>1, <2>2
  <1>8. Follows(d, ch[Len(ch)], n)
    BY <1>1, <1>2 DEF Follows
  <1> QED
    BY <1>2, <1>4, <1>5, <1>6, <1>7, <1>8 DEF Core, d

(***************************************************************************)
(* A producer, pop() or canSleep() makes its pending link.                 *)
(***************************************************************************)
LEMMA CoreLink ==
    ASSUME NEW ch, NEW nx \in [Nodes -> Nodes \union {Null}], NEW P, Core(ch, nx, P),
           NEW a, NEW n \in P, Follows(ch, a, n)
    PROVE  Core(ch, [nx EXCEPT ![a] = n], P \ {n})
  <1>1. ch \in Seq(Nodes) /\ Len(ch) \in Nat /\ Len(ch) > 0
    BY LenProperties, EmptySeq DEF Core
  <1>2. \A i \in 1..Len(ch) : ch[i] \in Nodes
    BY <1>1, ElementOfSeq
  <1>3. PICK k \in 1..(Len(ch) - 1) : ch[k] = a /\ ch[k + 1] = n
    BY DEF Follows
  <1> DEFINE mx == [nx EXCEPT ![a] = n]
  <1>4. mx[a] = n /\ \A m \in Nodes : m # a => mx[m] = nx[m]
    BY <1>1, <1>2, <1>3
  <1> HIDE DEF mx
  <1>5. \A i, j \in 1..Len(ch) : ch[i] = ch[j] => i = j
    BY DEF Core
  <1>6. mx[ch[Len(ch)]] = Null
    <2>1. ch[Len(ch)] # a /\ ch[Len(ch)] \in Nodes
      BY <1>1, <1>2, <1>3, <1>5
    <2> QED
      BY <1>4, <2>1 DEF Core
  <1>7. ASSUME NEW i \in 1..(Len(ch) - 1)
        PROVE  mx[ch[i]] = IF ch[i + 1] \in P \ {n} THEN Null ELSE ch[i + 1]
    <2>1. CASE i = k
      BY <1>3, <1>4, <2>1
    <2>2. CASE i # k
      <3>1. /\ ch[i] \in Nodes /\ ch[i] # a /\ ch[i + 1] # n
        BY <1>1, <1>2, <1>3, <1>5, <2>2
      <3> QED
        BY <1>4, <3>1 DEF Core
    <2> QED
      BY <2>1, <2>2
  <1>8. ch # <<>> /\ \A m \in P : \E i \in 1..(Len(ch) - 1) : ch[i + 1] = m
    BY DEF Core
  <1>9. Core(ch, mx, P \ {n})
    BY <1>1, <1>5, <1>6, <1>7, <1>8 DEF Core
  <1> QED
    BY <1>9 DEF mx

(***************************************************************************)
(* The tail moves to the next node.                                        *)
(***************************************************************************)
LEMMA CoreTail ==
    ASSUME NEW ch, NEW nx, NEW P, Core(ch, nx, P), nx[ch[1]] # Null
    PROVE  /\ Len(ch) \in Nat /\ Len(ch) >= 2 /\ nx[ch[1]] = ch[2] /\ ch[2] \notin P
           /\ Len(Tail(ch)) = Len(ch) - 1
           /\ \A i \in 1..(Len(ch) - 1) : Tail(ch)[i] = ch[i + 1]
           /\ Core(Tail(ch), nx, P)
  <1> DEFINE d == Tail(ch)
  <1>1. ch \in Seq(Nodes) /\ Len(ch) \in Nat /\ Len(ch) > 0 /\ ch # <<>>
    BY LenProperties, EmptySeq DEF Core
  <1>2. Len(ch) # 1
    BY DEF Core
  <1> DEFINE L == Len(ch)
  <1>3. 1 \in 1..(L - 1) /\ L >= 2
    <2>1. L \in Nat /\ L > 0 /\ L # 1
      BY <1>1, <1>2
    <2> HIDE DEF L
    <2> QED
      BY <2>1
  <1>4. nx[ch[1]] = IF ch[1 + 1] \in P THEN Null ELSE ch[1 + 1]
    BY <1>3 DEF Core
  <1>5. nx[ch[1]] = ch[2] /\ ch[2] \notin P
    BY <1>4
  <1>6. /\ d \in Seq(Nodes) /\ Len(d) = Len(ch) - 1
        /\ \A i \in 1..(Len(ch) - 1) : d[i] = ch[i + 1]
    BY <1>1, HeadTailProperties
  <1> HIDE DEF d
  <1>7. d # <<>> /\ \A i, j \in 1..Len(d) : d[i] = d[j] => i = j
    BY <1>1, <1>3, <1>6, EmptySeq DEF Core
  <1>8. nx[d[Len(d)]] = Null
    <2>1. d[Len(d)] = ch[Len(ch)]
      BY <1>1, <1>3, <1>6
    <2> QED
      BY <2>1 DEF Core
  <1>9. ASSUME NEW i \in 1..(Len(d) - 1)
        PROVE  nx[d[i]] = IF d[i + 1] \in P THEN Null ELSE d[i + 1]
    <2>1. i + 1 \in 1..(Len(ch) - 1) /\ d[i] = ch[i + 1] /\ d[i + 1] = ch[(i + 1) + 1]
      BY <1>1, <1>6
    <2> QED
      BY <2>1 DEF Core
  <1>10. ASSUME NEW n \in P
         PROVE  \E i \in 1..(Len(d) - 1) : d[i + 1] = n
    <2>1. PICK i \in 1..(Len(ch) - 1) : ch[i + 1] = n
      BY DEF Core
    <2>2. i # 1
      BY <1>5, <2>1
    <2>3. i - 1 \in 1..(Len(d) - 1) /\ d[(i - 1) + 1] = ch[i + 1]
      BY <1>1, <1>6, <2>2
    <2> QED
      BY <2>1, <2>3
  <1> QED
    BY <1>1, <1>3, <1>5, <1>6, <1>7, <1>8, <1>9, <1>10 DEF Core, d

-----------------------------------------------------------------------------
\* What the list holds: an item is added, another node is added, the first
\* node is left, as an item or as another node.

(***************************************************************************)
(* An item put at the end of the list is the newest push.                  *)
(***************************************************************************)
LEMMA ContentAppendItem ==
    ASSUME NEW ch \in Seq(Nodes), NEW pu \in Seq(Items), NEW po \in Seq(Items),
           Content(ch, pu, po), NEW n \in Items, \A k \in 1..Len(pu) : pu[k] # n,
           NEW d, Len(d) = Len(ch) + 1, d[Len(ch) + 1] = n, \A i \in 1..Len(ch) : d[i] = ch[i]
    PROVE  Content(d, Append(pu, n), po) /\ po # Append(pu, n)
  <1> DEFINE pv == Append(pu, n)
  <1>1. Len(ch) \in Nat /\ Len(pu) \in Nat /\ Len(po) \in Nat /\ Len(po) <= Len(pu)
    BY LenProperties DEF Content
  <1>2. /\ Len(pv) = Len(pu) + 1 /\ pv[Len(pu) + 1] = n
        /\ \A k \in 1..Len(pu) : pv[k] = pu[k]
    BY AppendProperties
  <1> HIDE DEF pv
  <1>0. /\ \A k \in 1..Len(po) : po[k] = pu[k]
        /\ \A k, l \in 1..Len(pu) : pu[k] = pu[l] => k = l
    BY DEF Content
  <1>a. \A i, j \in 1..Len(ch) : \A k, l \in 1..Len(pu) :
           (i < j /\ ch[i] = pu[k] /\ ch[j] = pu[l]) => k < l
    BY DEF Content
  <1>3. /\ Len(po) <= Len(pv) /\ Len(po) # Len(pv)
        /\ \A k \in 1..Len(po) : po[k] = pv[k]
        /\ \A k, l \in 1..Len(pv) : pv[k] = pv[l] => k = l
    <2>1. Len(po) <= Len(pv) /\ Len(po) # Len(pv)
      BY <1>1, <1>2
    <2>2. \A k \in 1..Len(po) : po[k] = pv[k]
      BY <1>0, <1>1, <1>2
    <2>3. ASSUME NEW k \in 1..Len(pv), NEW l \in 1..Len(pv), pv[k] = pv[l]
          PROVE  k = l
      <3>1. k \in 1..Len(pu) \/ k = Len(pu) + 1
        BY <1>1, <1>2
      <3>2. l \in 1..Len(pu) \/ l = Len(pu) + 1
        BY <1>1, <1>2
      <3> QED
        BY <1>0, <1>2, <2>3, <3>1, <3>2
    <2> QED
      BY <2>1, <2>2, <2>3
  <1>4. ASSUME NEW i \in 1..Len(d), d[i] \in Items
        PROVE  \E k \in (Len(po) + 1)..Len(pv) : pv[k] = d[i]
    <2>1. CASE i = Len(ch) + 1
      BY <1>1, <1>2, <2>1
    <2>2. CASE i \in 1..Len(ch)
      <3>1. PICK k \in (Len(po) + 1)..Len(pu) : pu[k] = ch[i]
        BY <1>4, <2>2 DEF Content
      <3>2. k \in 1..Len(pu) /\ k \in (Len(po) + 1)..Len(pv)
        BY <1>1, <1>2
      <3> QED
        BY <1>2, <2>2, <3>1, <3>2
    <2> QED
      BY <1>1, <2>1, <2>2
  <1>5. ASSUME NEW k \in (Len(po) + 1)..Len(pv)
        PROVE  \E i \in 1..Len(d) : d[i] = pv[k]
    <2>1. CASE k = Len(pu) + 1
      BY <1>1, <1>2, <2>1
    <2>2. CASE k \in (Len(po) + 1)..Len(pu)
      <3>1. PICK i \in 1..Len(ch) : ch[i] = pu[k]
        BY <2>2 DEF Content
      <3>2. k \in 1..Len(pu) /\ i \in 1..Len(d)
        BY <1>1, <2>2
      <3> QED
        BY <1>2, <3>1, <3>2
    <2> QED
      BY <1>1, <1>2, <2>1, <2>2
  <1>6. ASSUME NEW i \in 1..Len(d), NEW j \in 1..Len(d), NEW k \in 1..Len(pv), NEW l \in 1..Len(pv),
               i < j, d[i] = pv[k], d[j] = pv[l]
        PROVE  k < l
    <2>1. i \in 1..Len(ch) /\ d[i] = ch[i]
      BY <1>1, <1>6
    <2>2. k \in 1..Len(pu) /\ pv[k] = pu[k]
      <3>0. k \in 1..Len(pu) \/ k = Len(pu) + 1
        BY <1>1, <1>2
      <3> SUFFICES ASSUME k = Len(pu) + 1 PROVE FALSE
        BY <1>2, <3>0
      <3>1. ch[i] = n
        BY <1>2, <1>6, <2>1
      <3>2. PICK m \in (Len(po) + 1)..Len(pu) : pu[m] = ch[i]
        BY <2>1, <3>1 DEF Content
      <3> QED
        BY <1>1, <3>1, <3>2
    <2>3. CASE l = Len(pu) + 1
      BY <1>1, <2>2, <2>3
    <2>4. CASE l \in 1..Len(pu)
      <3>1. pv[l] = pu[l] /\ pu[l] # n
        BY <1>2, <2>4
      <3>2. j \in 1..Len(ch) /\ d[j] = ch[j]
        <4>1. j \in 1..Len(ch) \/ j = Len(ch) + 1
          BY <1>1
        <4> QED
          BY <1>6, <3>1, <4>1
      <3> QED
        BY <1>a, <1>6, <2>1, <2>2, <2>4, <3>1, <3>2
    <2> QED
      BY <1>1, <1>2, <2>3, <2>4
  <1>7. Content(d, pv, po)
    BY <1>3, <1>4, <1>5, <1>6 DEF Content
  <1> QED
    BY <1>3, <1>7 DEF pv

(***************************************************************************)
(* A special node put at the end of the list changes no content.           *)
(***************************************************************************)
LEMMA ContentAppendOther ==
    ASSUME NEW ch \in Seq(Nodes), NEW pu \in Seq(Items), NEW po \in Seq(Items),
           Content(ch, pu, po), NEW n, n \notin Items,
           NEW d, Len(d) = Len(ch) + 1, d[Len(ch) + 1] = n, \A i \in 1..Len(ch) : d[i] = ch[i]
    PROVE  Content(d, pu, po)
  <1>1. Len(ch) \in Nat /\ Len(pu) \in Nat /\ Len(po) \in Nat
    BY LenProperties
  <1>2. \A k \in 1..Len(pu) : pu[k] \in Items
    BY ElementOfSeq
  <1>3. \A i \in 1..Len(d) : d[i] \in Items => i \in 1..Len(ch) /\ d[i] = ch[i]
    BY <1>1
  <1>4. \A i \in 1..Len(ch) : i \in 1..Len(d)
    BY <1>1
  <1>5. \A k \in (Len(po) + 1)..Len(pu) : k \in 1..Len(pu)
    BY <1>1
  <1>6. /\ Len(po) <= Len(pu)
        /\ \A k \in 1..Len(po) : po[k] = pu[k]
        /\ \A k, l \in 1..Len(pu) : pu[k] = pu[l] => k = l
        /\ \A i \in 1..Len(ch) : ch[i] \in Items => \E k \in (Len(po) + 1)..Len(pu) : pu[k] = ch[i]
        /\ \A k \in (Len(po) + 1)..Len(pu) : \E i \in 1..Len(ch) : ch[i] = pu[k]
        /\ \A i, j \in 1..Len(ch) : \A k, l \in 1..Len(pu) :
             (i < j /\ ch[i] = pu[k] /\ ch[j] = pu[l]) => k < l
    BY DEF Content
  <1>7. \A i \in 1..Len(d) : d[i] \in Items => \E k \in (Len(po) + 1)..Len(pu) : pu[k] = d[i]
    BY ONLY <1>3, <1>6
  <1>8. \A k \in (Len(po) + 1)..Len(pu) : \E i \in 1..Len(d) : d[i] = pu[k]
    BY <1>4, <1>6
  <1>9. ASSUME NEW i \in 1..Len(d), NEW j \in 1..Len(d), NEW k \in 1..Len(pu), NEW l \in 1..Len(pu),
               i < j, d[i] = pu[k], d[j] = pu[l]
        PROVE  k < l
    <2>1. i \in 1..Len(ch) /\ d[i] = ch[i] /\ j \in 1..Len(ch) /\ d[j] = ch[j]
      BY <1>2, <1>3, <1>9
    <2>2. i < j /\ ch[i] = pu[k] /\ ch[j] = pu[l] /\ k \in 1..Len(pu) /\ l \in 1..Len(pu)
      BY <1>9, <2>1
    <2>3. \A i1, j1 \in 1..Len(ch) : \A k1, l1 \in 1..Len(pu) :
            (i1 < j1 /\ ch[i1] = pu[k1] /\ ch[j1] = pu[l1]) => k1 < l1
      BY ONLY <1>6
    <2> QED
      BY ONLY <2>1, <2>2, <2>3
  <1>10. \A i, j \in 1..Len(d) : \A k, l \in 1..Len(pu) :
           (i < j /\ d[i] = pu[k] /\ d[j] = pu[l]) => k < l
    BY ONLY <1>9
  <1> QED
    BY ONLY <1>6, <1>7, <1>8, <1>10 DEF Content

(***************************************************************************)
(* Neither does leaving a special node at the front of it.                 *)
(***************************************************************************)
LEMMA ContentTailOther ==
    ASSUME NEW ch \in Seq(Nodes), NEW pu \in Seq(Items), NEW po \in Seq(Items),
           Content(ch, pu, po), Len(ch) >= 2, ch[1] \notin Items,
           NEW d, Len(d) = Len(ch) - 1, \A i \in 1..(Len(ch) - 1) : d[i] = ch[i + 1]
    PROVE  Content(d, pu, po)
  <1>1. Len(ch) \in Nat /\ Len(pu) \in Nat /\ Len(po) \in Nat
    BY LenProperties
  <1>2. \A k \in (Len(po) + 1)..Len(pu) : pu[k] \in Items
    BY <1>1, ElementOfSeq
  <1>3. ASSUME NEW i \in 1..Len(d), d[i] \in Items
        PROVE  \E k \in (Len(po) + 1)..Len(pu) : pu[k] = d[i]
    <2>1. i + 1 \in 1..Len(ch) /\ d[i] = ch[i + 1]
      BY <1>1
    <2> QED
      BY <1>3, <2>1 DEF Content
  <1>4. ASSUME NEW k \in (Len(po) + 1)..Len(pu)
        PROVE  \E i \in 1..Len(d) : d[i] = pu[k]
    <2>1. PICK i \in 1..Len(ch) : ch[i] = pu[k]
      BY DEF Content
    <2>2. i # 1
      BY <1>2, <2>1
    <2>3. i - 1 \in 1..Len(d) /\ d[i - 1] = ch[i]
      BY <1>1, <2>2
    <2> QED
      BY <2>1, <2>3
  <1>5. ASSUME NEW i \in 1..Len(d), NEW j \in 1..Len(d), NEW k \in 1..Len(pu), NEW l \in 1..Len(pu),
               i < j, d[i] = pu[k], d[j] = pu[l]
        PROVE  k < l
    <2>1. /\ i + 1 \in 1..Len(ch) /\ d[i] = ch[i + 1] /\ j + 1 \in 1..Len(ch) /\ d[j] = ch[j + 1]
          /\ i + 1 < j + 1
      BY <1>1, <1>5
    <2>2. \A i3, j3 \in 1..Len(ch) : \A k3, l3 \in 1..Len(pu) :
             (i3 < j3 /\ ch[i3] = pu[k3] /\ ch[j3] = pu[l3]) => k3 < l3
      BY DEF Content
    <2> DEFINE x == i + 1
               y == j + 1
    <2>3. x \in 1..Len(ch) /\ y \in 1..Len(ch) /\ x < y /\ ch[x] = pu[k] /\ ch[y] = pu[l]
      BY <1>5, <2>1
    <2> HIDE DEF x, y
    <2> QED
      BY <2>2, <2>3
  <1> QED
    BY <1>3, <1>4, <1>5 DEF Content

(***************************************************************************)
(* The item at the front of the list is the oldest push that was not       *)
(* popped.                                                                 *)
(***************************************************************************)
LEMMA ContentTailItem ==
    ASSUME NEW ch \in Seq(Nodes), NEW pu \in Seq(Items), NEW po \in Seq(Items),
           Content(ch, pu, po), Len(ch) >= 2, ch[1] \in Items,
           \A i, j \in 1..Len(ch) : ch[i] = ch[j] => i = j,
           NEW d, Len(d) = Len(ch) - 1, \A i \in 1..(Len(ch) - 1) : d[i] = ch[i + 1]
    PROVE  /\ Len(po) < Len(pu) /\ pu[Len(po) + 1] = ch[1]
           /\ Content(d, pu, Append(po, ch[1]))
  <1> DEFINE pq == Append(po, ch[1])
             m == Len(po) + 1
  <1>1. Len(ch) \in Nat /\ Len(pu) \in Nat /\ Len(po) \in Nat /\ Len(po) <= Len(pu) /\ m \in Nat
    BY LenProperties DEF Content
  <1>2. /\ Len(pq) = Len(po) + 1 /\ pq[Len(po) + 1] = ch[1]
        /\ \A k \in 1..Len(po) : pq[k] = po[k]
    BY AppendProperties
  <1> HIDE DEF pq
  <1>3. PICK k \in m..Len(pu) : pu[k] = ch[1]
    BY <1>1 DEF Content
  <1>4. m \in 1..Len(pu) /\ k \in 1..Len(pu) /\ m \in m..Len(pu)
    BY <1>1
  <1>5. PICK j \in 1..Len(ch) : ch[j] = pu[m]
    BY <1>4 DEF Content
  <1>6. j = 1
    <2> SUFFICES ASSUME 1 < j PROVE FALSE
      BY <1>1
    <2>1. 1 \in 1..Len(ch)
      BY <1>1
    <2>2. k < m
      BY <1>3, <1>4, <1>5, <2>1 DEF Content
    <2> QED
      BY <1>1, <2>2
  <1>7. pu[m] = ch[1] /\ Len(po) < Len(pu)
    BY <1>1, <1>4, <1>5, <1>6
  <1>8. Len(pq) <= Len(pu) /\ \A l \in 1..Len(pq) : pq[l] = pu[l]
    <2>1. \A l \in 1..Len(po) : po[l] = pu[l]
      BY DEF Content
    <2>2. \A l \in 1..Len(pq) : l \in 1..Len(po) \/ l = m
      BY ONLY <1>1, <1>2 DEF m
    <2>3. Len(pq) <= Len(pu) /\ pq[m] = pu[m]
      BY ONLY <1>1, <1>2, <1>7 DEF m
    <2> QED
      BY ONLY <1>2, <2>1, <2>2, <2>3
  <1>9. ASSUME NEW i \in 1..Len(d), d[i] \in Items
        PROVE  \E l \in (Len(pq) + 1)..Len(pu) : pu[l] = d[i]
    <2>1. i + 1 \in 1..Len(ch) /\ d[i] = ch[i + 1] /\ ch[i + 1] # ch[1]
      BY <1>1
    <2>2. PICK l \in m..Len(pu) : pu[l] = d[i]
      BY <1>9, <2>1 DEF Content
    <2>3. l # m
      BY <1>7, <2>1, <2>2
    <2>4. l \in (Len(pq) + 1)..Len(pu)
      BY <1>1, <1>2, <2>3
    <2> QED
      BY <2>2, <2>4
  <1>10. ASSUME NEW l \in (Len(pq) + 1)..Len(pu)
         PROVE  \E i \in 1..Len(d) : d[i] = pu[l]
    <2>1. l \in m..Len(pu) /\ l # m /\ l \in 1..Len(pu)
      BY <1>1, <1>2
    <2>2. PICK i \in 1..Len(ch) : ch[i] = pu[l]
      BY <2>1 DEF Content
    <2>3. i # 1
      BY <1>4, <1>7, <2>1, <2>2 DEF Content
    <2>4. i - 1 \in 1..Len(d) /\ d[i - 1] = ch[i]
      BY <1>1, <2>3
    <2> QED
      BY <2>2, <2>4
  <1>11. ASSUME NEW i \in 1..Len(d), NEW i2 \in 1..Len(d), NEW l \in 1..Len(pu), NEW l2 \in 1..Len(pu),
                i < i2, d[i] = pu[l], d[i2] = pu[l2]
         PROVE  l < l2
    <2>1. /\ i + 1 \in 1..Len(ch) /\ d[i] = ch[i + 1] /\ i2 + 1 \in 1..Len(ch) /\ d[i2] = ch[i2 + 1]
          /\ i + 1 < i2 + 1
      <3>1. i \in 1..(Len(ch) - 1) /\ i2 \in 1..(Len(ch) - 1) /\ i < i2 /\ Len(ch) \in Nat
        BY <1>1, <1>11
      <3>2. \A a \in 1..(Len(ch) - 1) : d[a] = ch[a + 1]
        OBVIOUS
      <3>3. i + 1 \in 1..Len(ch) /\ i2 + 1 \in 1..Len(ch) /\ i + 1 < i2 + 1
        BY ONLY <3>1
      <3> QED
        BY ONLY <3>1, <3>2, <3>3
    <2>2. \A i3, j3 \in 1..Len(ch) : \A k3, l3 \in 1..Len(pu) :
             (i3 < j3 /\ ch[i3] = pu[k3] /\ ch[j3] = pu[l3]) => k3 < l3
      BY DEF Content
    <2> DEFINE x == i + 1
               y == i2 + 1
    <2>3. x \in 1..Len(ch) /\ y \in 1..Len(ch) /\ x < y /\ ch[x] = pu[l] /\ ch[y] = pu[l2]
      BY <1>11, <2>1
    <2> HIDE DEF x, y
    <2> QED
      BY <2>2, <2>3
  <1>12. \A k1, l \in 1..Len(pu) : pu[k1] = pu[l] => k1 = l
    BY DEF Content
  <1>13. Content(d, pu, pq)
    <2>1. \A i \in 1..Len(d) : d[i] \in Items => \E l \in (Len(pq) + 1)..Len(pu) : pu[l] = d[i]
      BY ONLY <1>9
    <2>2. \A l \in (Len(pq) + 1)..Len(pu) : \E i \in 1..Len(d) : d[i] = pu[l]
      BY ONLY <1>10
    <2>3. \A i, i2 \in 1..Len(d) : \A l, l2 \in 1..Len(pu) :
            (i < i2 /\ d[i] = pu[l] /\ d[i2] = pu[l2]) => l < l2
      BY ONLY <1>11
    <2> QED
      BY ONLY <1>8, <1>12, <2>1, <2>2, <2>3 DEF Content
  <1> QED
    BY <1>7, <1>13 DEF pq

(***************************************************************************)
(* Everything was popped exactly when there is no item in the list.        *)
(***************************************************************************)
LEMMA ContentEmpty ==
    ASSUME NEW ch \in Seq(Nodes), NEW pu \in Seq(Items), NEW po \in Seq(Items), Content(ch, pu, po)
    PROVE  (po = pu) <=> \A i \in 1..Len(ch) : ch[i] \notin Items
  <1>1. Len(ch) \in Nat /\ Len(pu) \in Nat /\ Len(po) \in Nat /\ Len(po) <= Len(pu)
    BY LenProperties DEF Content
  <1>2. ASSUME po = pu, NEW i \in 1..Len(ch), ch[i] \in Items
        PROVE  FALSE
    <2>1. PICK k \in (Len(po) + 1)..Len(pu) : pu[k] = ch[i]
      BY <1>2 DEF Content
    <2>2. Len(po) = Len(pu)
      BY <1>2
    <2> QED
      BY <1>1, <2>1, <2>2
  <1>3. ASSUME \A i \in 1..Len(ch) : ch[i] \notin Items
        PROVE  po = pu
    <2>1. Len(po) = Len(pu)
      <3> SUFFICES ASSUME Len(po) < Len(pu) PROVE FALSE
        BY <1>1
      <3>1. Len(pu) \in (Len(po) + 1)..Len(pu) /\ Len(pu) \in 1..Len(pu)
        BY <1>1
      <3>2. PICK i \in 1..Len(ch) : ch[i] = pu[Len(pu)]
        BY <3>1 DEF Content
      <3>3. pu[Len(pu)] \in Items
        BY <3>1, ElementOfSeq
      <3> QED
        BY <1>3, <3>2, <3>3
    <2>2. \A k \in 1..Len(po) : po[k] = pu[k]
      BY DEF Content
    <2> QED
      BY <2>1, <2>2, SeqEqual
  <1> QED
    BY <1>2, <1>3

-----------------------------------------------------------------------------
\* The other facts about the list, when a node is added or left.

(***************************************************************************)
(* Adding at the end keeps the nodes of the list and their neighbours.     *)
(***************************************************************************)
LEMMA AppendKeeps ==
    ASSUME NEW ch \in Seq(Nodes), NEW n, NEW d, Len(d) = Len(ch) + 1, d[Len(ch) + 1] = n,
           \A i \in 1..Len(ch) : d[i] = ch[i]
    PROVE  /\ \A m : On(d, m) <=> On(ch, m) \/ m = n
           /\ \A a, b : Follows(ch, a, b) => Follows(d, a, b)
  <1>1. Len(ch) \in Nat
    BY LenProperties
  <1>2. \A i \in 1..Len(d) : i \in 1..Len(ch) \/ i = Len(ch) + 1
    BY <1>1
  <1>3. (\A i \in 1..Len(ch) : i \in 1..Len(d)) /\ Len(ch) + 1 \in 1..Len(d)
    BY <1>1
  <1>4. \A m : On(d, m) <=> On(ch, m) \/ m = n
    BY <1>2, <1>3 DEF On
  <1>5. \A i \in 1..(Len(ch) - 1) :
           i \in 1..(Len(d) - 1) /\ i \in 1..Len(ch) /\ i + 1 \in 1..Len(ch)
    BY <1>1
  <1>6. ASSUME NEW a, NEW b, Follows(ch, a, b)
        PROVE  Follows(d, a, b)
    BY <1>5, <1>6 DEF Follows
  <1> QED
    BY <1>4, <1>6

(***************************************************************************)
(* Leaving the front node keeps the other nodes and their neighbours.      *)
(***************************************************************************)
LEMMA TailKeeps ==
    ASSUME NEW ch \in Seq(Nodes), Len(ch) >= 2, NEW d, Len(d) = Len(ch) - 1,
           \A i \in 1..(Len(ch) - 1) : d[i] = ch[i + 1],
           \A i, j \in 1..Len(ch) : ch[i] = ch[j] => i = j
    PROVE  /\ \A m : On(d, m) <=> On(ch, m) /\ m # ch[1]
           /\ \A a, b : Follows(ch, a, b) /\ b # ch[2] => Follows(d, a, b)
           /\ d[1] = ch[2] /\ d[Len(d)] = ch[Len(ch)]
  <1>1. Len(ch) \in Nat
    BY LenProperties
  <1>2. ASSUME NEW m, On(d, m)
        PROVE  On(ch, m) /\ m # ch[1]
    <2>1. PICK i \in 1..(Len(ch) - 1) : d[i] = m
      BY <1>2 DEF On
    <2>2. i + 1 \in 1..Len(ch) /\ ch[i + 1] = m /\ i + 1 # 1 /\ 1 \in 1..Len(ch)
      BY <1>1, <2>1
    <2> QED
      BY <2>2 DEF On
  <1>3. ASSUME NEW m, On(ch, m), m # ch[1]
        PROVE  On(d, m)
    <2>1. PICK i \in 1..Len(ch) : ch[i] = m
      BY <1>3 DEF On
    <2>2. i - 1 \in 1..(Len(ch) - 1) /\ d[i - 1] = m
      BY <1>1, <1>3, <2>1
    <2> QED
      BY <2>2 DEF On
  <1>4. ASSUME NEW a, NEW b, Follows(ch, a, b), b # ch[2]
        PROVE  Follows(d, a, b)
    <2>1. PICK i \in 1..(Len(ch) - 1) : ch[i] = a /\ ch[i + 1] = b
      BY <1>4 DEF Follows
    <2>2. i # 1
      BY <1>4, <2>1
    <2>3. /\ i - 1 \in 1..(Len(d) - 1) /\ i - 1 \in 1..(Len(ch) - 1) /\ (i - 1) + 1 = i
          /\ d[i - 1] = a /\ d[i] = b
      BY <1>1, <2>1, <2>2
    <2> QED
      BY <2>3 DEF Follows
  <1>5. d[1] = ch[2] /\ d[Len(d)] = ch[Len(ch)]
    <2>1. 1 \in 1..(Len(ch) - 1) /\ Len(ch) - 1 \in 1..(Len(ch) - 1)
      BY <1>1
    <2>2. d[1] = ch[1 + 1] /\ d[Len(ch) - 1] = ch[(Len(ch) - 1) + 1]
      BY <2>1
    <2> QED
      BY <1>1, <2>2
  <1> QED
    BY <1>2, <1>3, <1>4, <1>5

(***************************************************************************)
(* The types that matter below, and what is on the list.                   *)
(***************************************************************************)
LEMMA ChainFacts ==
    ASSUME TypeOK, Locals, NEW ch, ChainOK(ch)
    PROVE  /\ ch \in Seq(Nodes) /\ ch # <<>> /\ Len(ch) \in Nat /\ Len(ch) >= 1
           /\ \A i \in 1..Len(ch) : ch[i] \in Nodes
           /\ \A i, j \in 1..Len(ch) : ch[i] = ch[j] => i = j
           /\ pushed \in Seq(Items) /\ popped \in Seq(Items)
           /\ Len(pushed) \in Nat /\ Len(popped) \in Nat /\ Len(popped) <= Len(pushed)
           /\ DOMAIN pushed = 1..Len(pushed)
           /\ \A n \in Items \ ToSet(pushed) : ~On(ch, n)
           /\ \A n \in freed : ~On(ch, n)
           /\ On(ch, tail) /\ On(ch, head)
           /\ \A a, b : Follows(ch, a, b) => On(ch, a) /\ On(ch, b)
           /\ next \in [Nodes -> Nodes \union {Null}]
  <1>1. /\ ch \in Seq(Nodes) /\ ch # <<>> /\ Len(ch) \in Nat /\ Len(ch) >= 1
        /\ \A i \in 1..Len(ch) : ch[i] \in Nodes
        /\ \A i, j \in 1..Len(ch) : ch[i] = ch[j] => i = j
    <2>1. ch \in Seq(Nodes) /\ ch # <<>> /\ \A i, j \in 1..Len(ch) : ch[i] = ch[j] => i = j
      BY DEF ChainOK, Core
    <2>2. Len(ch) \in Nat /\ Len(ch) # 0
      BY <2>1, LenProperties, EmptySeq
    <2> QED
      BY <2>1, <2>2, ElementOfSeq
  <1>2. pushed \in Seq(Items) /\ popped \in Seq(Items) /\ next \in [Nodes -> Nodes \union {Null}]
    BY DEF TypeOK
  <1>3. /\ Len(pushed) \in Nat /\ Len(popped) \in Nat /\ DOMAIN pushed = 1..Len(pushed)
        /\ DOMAIN popped = 1..Len(popped)
    BY <1>2, LenProperties
  <1>4. /\ Len(popped) <= Len(pushed)
        /\ \A k \in 1..Len(popped) : popped[k] = pushed[k]
        /\ \A k, l \in 1..Len(pushed) : pushed[k] = pushed[l] => k = l
        /\ \A i \in 1..Len(ch) : ch[i] \in Items =>
             \E k \in (Len(popped) + 1)..Len(pushed) : pushed[k] = ch[i]
    BY DEF ChainOK, Content
  <1>5. ASSUME NEW n \in Items \ ToSet(pushed), On(ch, n)
        PROVE  FALSE
    <2>1. PICK i \in 1..Len(ch) : ch[i] = n
      BY <1>5 DEF On
    <2>2. PICK k \in (Len(popped) + 1)..Len(pushed) : pushed[k] = n
      BY <1>4, <2>1
    <2>3. k \in 1..Len(pushed)
      BY <1>3
    <2> QED
      BY <1>3, <2>2, <2>3 DEF ToSet
  <1>6. ASSUME NEW n \in freed, On(ch, n)
        PROVE  FALSE
    <2>1. PICK l \in 1..Len(popped) : popped[l] = n
      BY DEF Locals
    <2>2. popped[l] \in Items
      BY <1>2, ElementOfSeq
    <2>3. PICK i \in 1..Len(ch) : ch[i] = n
      BY <1>6 DEF On
    <2>4. PICK k \in (Len(popped) + 1)..Len(pushed) : pushed[k] = n
      BY <1>4, <2>1, <2>2, <2>3
    <2>5. k \in 1..Len(pushed) /\ l \in 1..Len(pushed) /\ k # l /\ pushed[l] = n
      BY <1>3, <1>4, <2>1
    <2> QED
      BY <1>4, <2>4, <2>5
  <1>7. On(ch, tail) /\ On(ch, head)
    <2>1. 1 \in 1..Len(ch) /\ Len(ch) \in 1..Len(ch)
      BY <1>1
    <2>2. ch[1] = tail /\ ch[Len(ch)] = head
      BY DEF ChainOK
    <2> QED
      BY <2>1, <2>2 DEF On
  <1>8. ASSUME NEW a, NEW b, Follows(ch, a, b)
        PROVE  On(ch, a) /\ On(ch, b)
    <2>1. PICK i \in 1..(Len(ch) - 1) : ch[i] = a /\ ch[i + 1] = b
      BY <1>8 DEF Follows
    <2>2. i \in 1..Len(ch) /\ i + 1 \in 1..Len(ch)
      BY <1>1
    <2> QED
      BY <2>1, <2>2 DEF On
  <1> QED
    BY <1>1, <1>2, <1>3, <1>4, <1>5, <1>6, <1>7, <1>8

(***************************************************************************)
(* The parts of the next state's invariant, put together.                  *)
(***************************************************************************)
LEMMA Assemble ==
    ASSUME TypeOK', Locals', NEW d, Core(d, next', Pend'), Preds(d)',
           Content(d, pushed', popped'), d[1] = tail', d[Len(d)] = head', Special(d)'
    PROVE  QInv'
  <1>1. d \in Seq(Nodes)
    BY DEF Core
  <1> QED
    BY <1>1 DEF QInv, ChainOK

(***************************************************************************)
(* The queue begins with the stub alone.                                   *)
(***************************************************************************)
LEMMA QInitInv ==
    ASSUME QInit
    PROVE  QInv
  <1> DEFINE c == <<Stub>>
  <1>1. c \in Seq(Nodes) /\ Len(c) = 1 /\ c[1] = Stub /\ c # <<>>
    BY DEF Nodes
  <1> HIDE DEF c
  <1>2. /\ sleepy \in BOOLEAN /\ again \in BOOLEAN /\ maySleep \in BOOLEAN /\ quiet \in BOOLEAN
        /\ ~sleepy /\ ~again /\ ~maySleep /\ ~quiet
    BY Zenon DEF QInit
  <1>3. /\ head = Stub /\ tail = Stub /\ next = [n \in Nodes |-> Null]
        /\ ppc = [p \in Producers |-> "idle"] /\ pnode = [p \in Producers |-> Null]
        /\ pprev = [p \in Producers |-> Null] /\ cpc = "idle" /\ ctail = Stub /\ cprev = Stub
        /\ result = Null /\ freed = {} /\ pushed = <<>> /\ popped = <<>>
    BY DEF QInit
  <1>4. Stub \in Nodes
    BY DEF Nodes
  <1>5. TypeOK
    BY <1>2, <1>3, <1>4, EmptySeq DEF TypeOK
  <1>6. Locals
    BY <1>2, <1>3, DistinctNodes DEF Locals, Nodes
  <1>7. Pend = {}
    BY <1>3 DEF Pend
  <1>8. Core(c, next, Pend)
    BY <1>1, <1>3, <1>4, <1>7 DEF Core
  <1>9. Preds(c)
    BY <1>3 DEF Preds
  <1>10. Content(c, pushed, popped)
    BY <1>1, <1>3, DistinctNodes DEF Content
  <1>11. ~On(c, Sleeping)
    BY <1>1, DistinctNodes DEF On
  <1>12. Special(c)
    BY <1>2, <1>3, <1>11 DEF Special, Asleep
  <1> QED
    BY <1>1, <1>3, <1>5, <1>6, <1>8, <1>9, <1>10, <1>12 DEF QInv, ChainOK

-----------------------------------------------------------------------------
\* The steps of a producer.

(***************************************************************************)
(* push(): the exchange on head keeps the invariant.                       *)
(***************************************************************************)
LEMMA ExchangeInv ==
    ASSUME QInv, NEW p \in Producers, NEW n \in Items, Exchange(p, n)
    PROVE  QInv'
  <1>1. TypeOK /\ Locals
    BY DEF QInv
  <1>2. PICK ch : ChainOK(ch)
    BY DEF QInv
  <1>3. /\ ppc[p] = "idle" /\ n \notin ToSet(pushed) /\ head' = n
        /\ pprev' = [pprev EXCEPT ![p] = head] /\ pnode' = [pnode EXCEPT ![p] = n]
        /\ ppc' = [ppc EXCEPT ![p] = "link"] /\ pushed' = Append(pushed, n)
        /\ next' = next /\ UNCHANGED cvars
    BY DEF Exchange
  <1>4. quiet' \in BOOLEAN /\ ~quiet'
    BY Zenon DEF Exchange
  <1>5. /\ ppc \in [Producers -> {"idle", "link", "linked"}]
        /\ pnode \in [Producers -> Items \union {Null}]
        /\ pprev \in [Producers -> Nodes \union {Null}] /\ head \in Nodes /\ n \in Nodes
    BY <1>1 DEF TypeOK, Nodes
  <1>6. /\ ch \in Seq(Nodes) /\ Len(ch) \in Nat /\ Len(ch) >= 1 /\ ~On(ch, n) /\ next[n] = Null
        /\ pushed \in Seq(Items) /\ popped \in Seq(Items)
        /\ \A k \in 1..Len(pushed) : pushed[k] # n
    <2>1. next[n] = Null
      BY <1>1, <1>3 DEF Locals
    <2>2. DOMAIN pushed = 1..Len(pushed)
      BY <1>1, <1>2, ChainFacts
    <2>3. \A k \in 1..Len(pushed) : pushed[k] # n
      BY <1>3, <2>2 DEF ToSet
    <2> QED
      BY <1>1, <1>2, <1>3, <2>1, <2>3, ChainFacts
  <1>7. PICK d : d = Append(ch, n)
    OBVIOUS
  <1>8. /\ Core(d, next', Pend \union {n}) /\ Len(d) = Len(ch) + 1 /\ d[Len(ch) + 1] = n
        /\ \A i \in 1..Len(ch) : d[i] = ch[i]
        /\ Follows(d, ch[Len(ch)], n)
    <2>1. Core(ch, next, Pend)
      BY <1>2 DEF ChainOK
    <2>2. next[n] = Null /\ \A m \in Nodes : m # n => next[m] = next[m]
      BY <1>6
    <2>3. n \in Nodes /\ ~On(ch, n)
      BY <1>5, <1>6
    <2>4. /\ Core(Append(ch, n), next, Pend \union {n})
          /\ Len(Append(ch, n)) = Len(ch) + 1
          /\ Append(ch, n)[Len(ch) + 1] = n
          /\ \A i \in 1..Len(ch) : Append(ch, n)[i] = ch[i]
          /\ Follows(Append(ch, n), ch[Len(ch)], n)
      BY ONLY <2>1, <2>2, <2>3, CoreAppend
    <2> QED
      BY ONLY <1>3, <1>7, <2>4
  <1>9. /\ \A m : On(d, m) <=> On(ch, m) \/ m = n
        /\ \A a, b : Follows(ch, a, b) => Follows(d, a, b)
    BY <1>6, <1>8, AppendKeeps
  <1>10. TypeOK'
    <2>1. pushed' \in Seq(Items)
      BY <1>3, <1>6, AppendProperties
    <2>2. /\ ppc' \in [Producers -> {"idle", "link", "linked"}]
          /\ pnode' \in [Producers -> Items \union {Null}]
          /\ pprev' \in [Producers -> Nodes \union {Null}]
      BY <1>3, <1>5
    <2> QED
      BY <1>1, <1>3, <1>4, <1>5, <2>1, <2>2 DEF TypeOK, cvars
  <1>11. \A q \in Producers : ppc[q] = "link" => pnode[q] \in Items /\ pnode[q] # n
    <2> SUFFICES ASSUME NEW q \in Producers, ppc[q] = "link"
                 PROVE  pnode[q] \in Items /\ pnode[q] # n
      OBVIOUS
    <2>1. Follows(ch, pprev[q], pnode[q])
      BY <1>2 DEF ChainOK, Preds
    <2>2. On(ch, pnode[q])
      BY <1>1, <1>2, <2>1, ChainFacts
    <2> QED
      BY <1>1, <1>6, <2>2 DEF Locals
  <1>12. Locals'
    <2>1. freed' = {popped'[k] : k \in 1..Len(popped')}
      BY <1>1, <1>3 DEF Locals, cvars
    <2>2. \A m \in Items \ ToSet(pushed') : next'[m] = Null
      <3>1. ToSet(pushed) \subseteq ToSet(pushed')
        <4>1. /\ DOMAIN pushed = 1..Len(pushed) /\ DOMAIN pushed' = 1..(Len(pushed) + 1)
              /\ Len(pushed) \in Nat /\ \A k \in 1..Len(pushed) : pushed'[k] = pushed[k]
          BY <1>3, <1>6, AppendProperties, LenProperties
        <4> QED
          BY <4>1 DEF ToSet
      <3> QED
        BY <1>1, <1>3, <3>1 DEF Locals
    <2>3. \A q \in Producers : ppc'[q] = "link" => pnode'[q] \in Items
      BY <1>3, <1>5, <1>11
    <2>4. \A q, r \in Producers :
             (ppc'[q] = "link" /\ ppc'[r] = "link" /\ pnode'[q] = pnode'[r]) => q = r
      BY <1>1, <1>3, <1>5, <1>11 DEF Locals
    <2> QED
      BY <1>1, <1>3, <1>4, <2>1, <2>2, <2>3, <2>4 DEF Locals, cvars
  <1>13. Pend' = Pend \union {n}
    BY <1>3, <1>5 DEF Pend, cvars
  <1>14. Preds(d)'
    <2>1. ch[Len(ch)] = head /\ Preds(ch)
      BY <1>2 DEF ChainOK
    <2>2. ASSUME NEW q \in Producers, ppc'[q] = "link"
          PROVE  Follows(d, pprev'[q], pnode'[q])
      <3>1. CASE q = p
        BY <1>3, <1>5, <1>8, <2>1, <3>1
      <3>2. CASE q # p
        BY <1>3, <1>5, <1>9, <2>1, <2>2, <3>2 DEF Preds
      <3> QED
        BY <3>1, <3>2
    <2>3. cpc' = cpc /\ cprev' = cprev
      BY <1>3 DEF cvars
    <2>4. (cpc' = "linkStub" => Follows(d, cprev', Stub)) /\ (cpc' = "linkSleeping" => Follows(d, cprev', Sleeping))
      BY <1>9, <2>1, <2>3 DEF Preds
    <2> QED
      BY <2>2, <2>4 DEF Preds, Follows
  <1>15. Content(d, pushed', popped')
    <2>1. Content(ch, pushed, popped)
      BY <1>2 DEF ChainOK
    <2>2. Content(d, Append(pushed, n), popped)
      BY <1>6, <1>8, <2>1, ContentAppendItem
    <2> QED
      BY <1>3, <2>2 DEF cvars
  <1>16. d[1] = tail' /\ d[Len(d)] = head'
    <2>1. 1 \in 1..Len(ch) /\ ch[1] = tail /\ tail' = tail
      BY <1>2, <1>3, <1>6 DEF ChainOK, cvars
    <2>2. d[1] = ch[1] /\ Len(d) = Len(ch) + 1 /\ d[Len(ch) + 1] = head'
      BY <1>3, <1>8, <2>1
    <2> QED
      BY <2>1, <2>2
  <1>17. Special(d)'
    <2>1. n # Stub /\ n # Sleeping
      BY DistinctNodes
    <2>2. Special(ch)
      BY <1>2 DEF ChainOK
    <2>3. Asleep' <=> Asleep
      BY <1>3 DEF Asleep, cvars
    <2>4. Asleep' => Len(d) >= 2 /\ d[1] = Stub /\ d[2] = Sleeping
      BY <1>6, <1>8, <2>2, <2>3 DEF Special
    <2>5. (On(d, Sleeping) <=> On(ch, Sleeping)) /\ (On(d, Stub) <=> On(ch, Stub))
      BY <1>9, <2>1
    <2> QED
      BY <1>3, <1>4, <2>2, <2>4, <2>5 DEF Special, cvars, On
  <1> QED
    BY <1>8, <1>10, <1>12, <1>13, <1>14, <1>15, <1>16, <1>17, Assemble

(***************************************************************************)
(* push(): so does the write of the link.                                  *)
(***************************************************************************)
LEMMA LinkInv ==
    ASSUME QInv, NEW p \in Producers, Link(p)
    PROVE  QInv'
  <1>1. TypeOK /\ Locals
    BY DEF QInv
  <1>2. PICK ch : ChainOK(ch)
    BY DEF QInv
  <1>3. /\ ppc[p] = "link" /\ next' = [next EXCEPT ![pprev[p]] = pnode[p]]
        /\ ppc' = [ppc EXCEPT ![p] = "linked"]
        /\ UNCHANGED <<head, pushed, quiet, pnode, pprev, cvars>>
    BY DEF Link
  <1>4. /\ ppc \in [Producers -> {"idle", "link", "linked"}] /\ pnode[p] \in Items
        /\ next \in [Nodes -> Nodes \union {Null}] /\ pnode[p] \in Nodes
    BY <1>1, <1>3 DEF TypeOK, Locals, Nodes
  <1>5. Follows(ch, pprev[p], pnode[p])
    BY <1>2, <1>3 DEF ChainOK, Preds
  <1>6. On(ch, pprev[p]) /\ pprev[p] \in Nodes
    BY <1>1, <1>2, <1>5, ChainFacts DEF On
  <1>7. pnode[p] \in Pend
    BY <1>3, <1>4 DEF Pend
  <1>8. Pend' = Pend \ {pnode[p]}
    <2>1. \A q \in Producers : ppc'[q] = "link" <=> ppc[q] = "link" /\ q # p
      BY <1>3, <1>4
    <2>2. \A q \in Producers : ppc[q] = "link" /\ pnode[q] = pnode[p] => q = p
      BY <1>1, <1>3 DEF Locals
    <2> QED
      BY <1>3, <1>4, <2>1, <2>2, DistinctNodes DEF Pend, cvars
  <1>9. Core(ch, next', Pend')
    <2>1. Core(ch, next, Pend)
      BY <1>2 DEF ChainOK
    <2> QED
      BY <1>3, <1>4, <1>5, <1>7, <1>8, <2>1, CoreLink
  <1>10. TypeOK'
    <2>1. next' \in [Nodes -> Nodes \union {Null}]
      BY <1>3, <1>4
    <2>2. ppc' \in [Producers -> {"idle", "link", "linked"}]
      BY <1>3, <1>4
    <2> QED
      BY <1>1, <1>3, <2>1, <2>2 DEF TypeOK, cvars
  <1>11. Locals'
    <2>1. \A m \in Items \ ToSet(pushed') : next'[m] = Null
      <3> SUFFICES ASSUME NEW m \in Items \ ToSet(pushed)
                   PROVE  next'[m] = Null
        BY <1>3
      <3>1. m # pprev[p] /\ m \in Nodes
        BY <1>1, <1>2, <1>6, ChainFacts DEF Nodes
      <3> QED
        BY <1>1, <1>3, <1>4, <3>1 DEF Locals
    <2>2. \A q \in Producers : ppc'[q] = "link" => ppc[q] = "link"
      BY <1>3, <1>4
    <2> QED
      BY <1>1, <1>3, <2>1, <2>2 DEF Locals, cvars
  <1>12. Preds(ch)'
    <2>1. \A q \in Producers : ppc'[q] = "link" => ppc[q] = "link"
      BY <1>3, <1>4
    <2>2. Preds(ch)
      BY <1>2 DEF ChainOK
    <2> QED
      BY <1>3, <2>1, <2>2 DEF Preds, Follows, cvars
  <1>13. Content(ch, pushed', popped') /\ ch[1] = tail' /\ ch[Len(ch)] = head'
    BY <1>2, <1>3 DEF ChainOK, cvars
  <1>14. Special(ch)'
    <2>1. Special(ch)
      BY <1>2 DEF ChainOK
    <2> QED
      BY <1>3, <2>1 DEF Special, Asleep, On, cvars
  <1> QED
    BY <1>9, <1>10, <1>11, <1>12, <1>13, <1>14, Assemble

(***************************************************************************)
(* push(): and its return.                                                 *)
(***************************************************************************)
LEMMA PushReturnsInv ==
    ASSUME QInv, NEW p \in Producers, PushReturns(p)
    PROVE  QInv'
  <1>1. TypeOK /\ Locals
    BY DEF QInv
  <1>2. PICK ch : ChainOK(ch)
    BY DEF QInv
  <1>3. /\ ppc[p] = "linked" /\ ppc' = [ppc EXCEPT ![p] = "idle"]
        /\ pnode' = [pnode EXCEPT ![p] = Null] /\ pprev' = [pprev EXCEPT ![p] = Null]
        /\ UNCHANGED <<head, next, pushed, quiet, cvars>>
    BY DEF PushReturns
  <1>4. /\ ppc \in [Producers -> {"idle", "link", "linked"}]
        /\ pnode \in [Producers -> Items \union {Null}]
        /\ pprev \in [Producers -> Nodes \union {Null}]
    BY <1>1 DEF TypeOK
  <1>5. \A q \in Producers : /\ ppc'[q] = "link" <=> ppc[q] = "link"
                             /\ ppc[q] = "link" => pnode'[q] = pnode[q] /\ pprev'[q] = pprev[q]
    BY <1>3, <1>4
  <1>6. TypeOK'
    <2>1. /\ ppc' \in [Producers -> {"idle", "link", "linked"}]
          /\ pnode' \in [Producers -> Items \union {Null}]
          /\ pprev' \in [Producers -> Nodes \union {Null}]
      BY <1>3, <1>4
    <2> QED
      BY <1>1, <1>3, <2>1 DEF TypeOK, cvars
  <1>7. Locals'
    BY <1>1, <1>3, <1>5 DEF Locals, cvars
  <1>8. Pend' = Pend
    BY <1>3, <1>5 DEF Pend, cvars
  <1>9. Preds(ch)'
    BY <1>2, <1>3, <1>5 DEF ChainOK, Preds, Follows, cvars
  <1>10. /\ Core(ch, next', Pend') /\ Content(ch, pushed', popped')
         /\ ch[1] = tail' /\ ch[Len(ch)] = head'
    BY <1>2, <1>3, <1>8 DEF ChainOK, cvars
  <1>11. Special(ch)'
    <2>1. Special(ch)
      BY <1>2 DEF ChainOK
    <2> QED
      BY <1>3, <2>1 DEF Special, Asleep, On, cvars
  <1> QED
    BY <1>6, <1>7, <1>9, <1>10, <1>11, Assemble

-----------------------------------------------------------------------------
\* What a step of the consumer does to the list: nothing, it leaves the first
\* node, it adds one of its own nodes, it links that node.

(***************************************************************************)
(* The consumer has no link to make.                                       *)
(***************************************************************************)
NotLinking(pc) == pc \notin {"linkStub", "linkSleeping"}

(***************************************************************************)
(* While the consumer has no link to make, the pending ones are the        *)
(* producers'.                                                             *)
(***************************************************************************)
LEMMA PendOfProducers ==
    ASSUME NotLinking(cpc), TypeOK
    PROVE  Pend = {n \in Nodes : \E p \in Producers : ppc[p] = "link" /\ pnode[p] = n}
  BY DEF Pend, NotLinking

(***************************************************************************)
(* A consumer step that neither adds nor links a node leaves them alone.   *)
(***************************************************************************)
LEMMA PendSame ==
    ASSUME NotLinking(cpc), NotLinking(cpc'), ppc' = ppc, pnode' = pnode
    PROVE  Pend' = Pend
  BY DEF Pend, NotLinking

(***************************************************************************)
(* A consumer step that reads pointers and writes only its local           *)
(* variables.                                                              *)
(***************************************************************************)
LEMMA KeepChain ==
    ASSUME NEW ch, ChainOK(ch), NotLinking(cpc), NotLinking(cpc'),
           head' = head, tail' = tail, next' = next, pushed' = pushed, popped' = popped,
           ppc' = ppc, pnode' = pnode, pprev' = pprev,
           TypeOK', Locals', Special(ch)'
    PROVE  QInv'
  <1>1. Pend' = Pend
    BY PendSame
  <1>2. Preds(ch)'
    BY DEF ChainOK, Preds, NotLinking, Follows
  <1>3. /\ Core(ch, next', Pend') /\ Content(ch, pushed', popped')
        /\ ch[1] = tail' /\ ch[Len(ch)] = head'
    BY <1>1 DEF ChainOK
  <1> QED
    BY <1>2, <1>3, Assemble

(***************************************************************************)
(* A consumer step that moves the tail over a linked node.                 *)
(***************************************************************************)
LEMMA LeaveFirst ==
    ASSUME TypeOK, Locals, NEW ch, ChainOK(ch), NotLinking(cpc), NotLinking(cpc'),
           next[tail] # Null, tail' = next[tail], head' = head, next' = next, pushed' = pushed,
           ppc' = ppc, pnode' = pnode, pprev' = pprev,
           popped' = IF tail \in Items THEN Append(popped, tail) ELSE popped
    PROVE  \E d : /\ Core(d, next', Pend') /\ Preds(d)' /\ Content(d, pushed', popped')
                  /\ d[1] = tail' /\ d[Len(d)] = head'
                  /\ \A m : On(d, m) <=> (On(ch, m) /\ m # tail)
  <1>1. /\ ch \in Seq(Nodes) /\ Len(ch) \in Nat /\ pushed \in Seq(Items) /\ popped \in Seq(Items)
        /\ \A i, j \in 1..Len(ch) : ch[i] = ch[j] => i = j
    BY ChainFacts
  <1>2. /\ Core(ch, next, Pend) /\ Preds(ch) /\ Content(ch, pushed, popped)
        /\ ch[1] = tail /\ ch[Len(ch)] = head
    BY DEF ChainOK
  <1>3. PICK d : d = Tail(ch)
    OBVIOUS
  <1>4. next[ch[1]] # Null
    BY <1>2
  <1>5. /\ Len(ch) >= 2 /\ next[ch[1]] = ch[2] /\ ch[2] \notin Pend
        /\ Len(Tail(ch)) = Len(ch) - 1
        /\ \A i \in 1..(Len(ch) - 1) : Tail(ch)[i] = ch[i + 1]
        /\ Core(Tail(ch), next, Pend)
    BY ONLY <1>2, <1>4, CoreTail
  <1>6. /\ Len(d) = Len(ch) - 1 /\ \A i \in 1..(Len(ch) - 1) : d[i] = ch[i + 1]
        /\ Core(d, next, Pend)
    BY ONLY <1>3, <1>5
  <1>7. /\ \A m : On(d, m) <=> On(ch, m) /\ m # ch[1]
        /\ \A a, b : Follows(ch, a, b) /\ b # ch[2] => Follows(d, a, b)
        /\ d[1] = ch[2] /\ d[Len(d)] = ch[Len(ch)]
    BY ONLY <1>1, <1>5, <1>6, TailKeeps
  <1>8. Pend' = Pend
    BY PendSame
  <1>9. Preds(d)'
    <2>1. ASSUME NEW q \in Producers, ppc[q] = "link"
          PROVE  Follows(d, pprev[q], pnode[q])
      <3>1. Follows(ch, pprev[q], pnode[q])
        BY <1>2, <2>1 DEF Preds
      <3>2. pnode[q] \in Items
        BY <2>1 DEF Locals
      <3>3. pnode[q] \in Pend
        BY <2>1, <3>2 DEF Pend, Nodes
      <3> QED
        BY <1>5, <1>7, <3>1, <3>3
    <2> QED
      BY <2>1 DEF Preds, NotLinking
  <1>10. Content(d, pushed', popped')
    <2>1. CASE tail \in Items
      <3>1. Content(d, pushed, Append(popped, ch[1]))
        BY <1>1, <1>2, <1>5, <1>6, <2>1, ContentTailItem
      <3> QED
        BY <1>2, <2>1, <3>1
    <2>2. CASE tail \notin Items
      <3>1. Content(d, pushed, popped)
        BY <1>1, <1>2, <1>5, <1>6, <2>2, ContentTailOther
      <3> QED
        BY <2>2, <3>1
    <2> QED
      BY <2>1, <2>2
  <1>11. d[1] = tail' /\ d[Len(d)] = head' /\ \A m : On(d, m) <=> (On(ch, m) /\ m # tail)
    BY <1>2, <1>5, <1>7
  <1>12. Core(d, next', Pend')
    BY <1>6, <1>8
  <1> QED
    BY <1>9, <1>10, <1>11, <1>12

(***************************************************************************)
(* The consumer puts a node of its own at the end of the list.             *)
(***************************************************************************)
LEMMA AddOwn ==
    ASSUME TypeOK, Locals, NEW ch, ChainOK(ch), NotLinking(cpc), NEW n,
           \/ n = Stub /\ cpc' = "linkStub"
           \/ n = Sleeping /\ cpc' = "linkSleeping",
           ~On(ch, n), cprev' = head, head' = n, next' = [next EXCEPT ![n] = Null],
           tail' = tail, pushed' = pushed, popped' = popped,
           ppc' = ppc, pnode' = pnode, pprev' = pprev
    PROVE  \E d : /\ Core(d, next', Pend') /\ Preds(d)' /\ Content(d, pushed', popped')
                  /\ d[1] = tail' /\ d[Len(d)] = head'
                  /\ \A m : On(d, m) <=> (On(ch, m) \/ m = n)
                  /\ Len(d) = Len(ch) + 1 /\ d[Len(ch) + 1] = n
                  /\ \A i \in 1..Len(ch) : d[i] = ch[i]
  <1>1. /\ ch \in Seq(Nodes) /\ Len(ch) \in Nat /\ Len(ch) >= 1
        /\ pushed \in Seq(Items) /\ popped \in Seq(Items)
        /\ next \in [Nodes -> Nodes \union {Null}]
    BY ChainFacts
  <1>2. /\ Core(ch, next, Pend) /\ Preds(ch) /\ Content(ch, pushed, popped)
        /\ ch[1] = tail /\ ch[Len(ch)] = head
    BY DEF ChainOK
  <1>3. n \in Nodes /\ n \notin Items /\ ~On(ch, n)
    BY DistinctNodes DEF Nodes
  <1>4. next'[n] = Null /\ \A m \in Nodes : m # n => next'[m] = next[m]
    BY <1>1, <1>3
  <1>5. PICK d : d = Append(ch, n)
    OBVIOUS
  <1>6. /\ Core(Append(ch, n), next', Pend \union {n})
        /\ Len(Append(ch, n)) = Len(ch) + 1
        /\ Append(ch, n)[Len(ch) + 1] = n
        /\ \A i \in 1..Len(ch) : Append(ch, n)[i] = ch[i]
        /\ Follows(Append(ch, n), ch[Len(ch)], n)
    BY ONLY <1>2, <1>3, <1>4, CoreAppend
  <1>7. /\ Core(d, next', Pend \union {n}) /\ Len(d) = Len(ch) + 1 /\ d[Len(ch) + 1] = n
        /\ \A i \in 1..Len(ch) : d[i] = ch[i]
        /\ Follows(d, ch[Len(ch)], n)
    BY ONLY <1>5, <1>6
  <1>8. /\ \A m : On(d, m) <=> On(ch, m) \/ m = n
        /\ \A a, b : Follows(ch, a, b) => Follows(d, a, b)
    <2>1. /\ ch \in Seq(Nodes) /\ Len(d) = Len(ch) + 1 /\ d[Len(ch) + 1] = n
          /\ \A i \in 1..Len(ch) : d[i] = ch[i]
      BY ONLY <1>1, <1>7
    <2>2. \A m : On(d, m) <=> On(ch, m) \/ m = n
      BY ONLY <2>1, AppendKeeps
    <2>3. \A a, b : Follows(ch, a, b) => Follows(d, a, b)
      BY ONLY <2>1, AppendKeeps
    <2> QED
      BY ONLY <2>2, <2>3
  <1>9. Pend' = Pend \union {n}
    BY <1>3, DistinctNodes DEF Pend, NotLinking
  <1>10. Preds(d)'
    <2>1. ASSUME NEW q \in Producers, ppc[q] = "link"
          PROVE  Follows(d, pprev[q], pnode[q])
      BY <1>2, <1>8, <2>1 DEF Preds
    <2>2. Follows(d, cprev', n)
      BY <1>2, <1>7
    <2>3. (cpc' = "linkStub" => n = Stub) /\ (cpc' = "linkSleeping" => n = Sleeping)
      OBVIOUS
    <2> QED
      BY <2>1, <2>2, <2>3 DEF Preds
  <1>11. Content(d, pushed', popped')
    <2>1. Content(d, pushed, popped)
      BY <1>1, <1>2, <1>3, <1>7, ContentAppendOther
    <2> QED
      BY <2>1
  <1>12. d[1] = tail' /\ d[Len(d)] = head'
    <2>1. 1 \in 1..Len(ch)
      BY <1>1
    <2> QED
      BY <1>2, <1>7, <2>1
  <1>13. Core(d, next', Pend')
    BY <1>7, <1>9
  <1> QED
    BY <1>7, <1>8, <1>10, <1>11, <1>12, <1>13

(***************************************************************************)
(* The consumer links the node it put there.                               *)
(***************************************************************************)
LEMMA LinkOwn ==
    ASSUME TypeOK, Locals, NEW ch, ChainOK(ch), NotLinking(cpc'), NEW n,
           \/ n = Stub /\ cpc = "linkStub"
           \/ n = Sleeping /\ cpc = "linkSleeping",
           next' = [next EXCEPT ![cprev] = n],
           head' = head, tail' = tail, pushed' = pushed, popped' = popped,
           ppc' = ppc, pnode' = pnode, pprev' = pprev
    PROVE  /\ Core(ch, next', Pend') /\ Preds(ch)' /\ Content(ch, pushed', popped')
           /\ ch[1] = tail' /\ ch[Len(ch)] = head'
           /\ next' \in [Nodes -> Nodes \union {Null}]
           /\ \A m \in Items \ ToSet(pushed') : next'[m] = Null
  <1>1. /\ Core(ch, next, Pend) /\ Preds(ch) /\ Content(ch, pushed, popped)
        /\ ch[1] = tail /\ ch[Len(ch)] = head
    BY DEF ChainOK
  <1>2. n \in Nodes /\ n \notin Items
    BY DistinctNodes DEF Nodes
  <1>3. n \in Pend
    BY <1>2 DEF Pend
  <1>4. Follows(ch, cprev, n)
    BY <1>1 DEF Preds
  <1>5. next \in [Nodes -> Nodes \union {Null}] /\ On(ch, cprev)
    BY <1>4, ChainFacts
  <1>6. Core(ch, [next EXCEPT ![cprev] = n], Pend \ {n})
    BY ONLY <1>1, <1>3, <1>4, <1>5, CoreLink
  <1>7. Pend' = Pend \ {n}
    <2>1. \A q \in Producers : ppc[q] = "link" => pnode[q] # n
      BY <1>2 DEF Locals
    <2> QED
      BY <2>1, DistinctNodes DEF Pend, NotLinking
  <1>8. Preds(ch)'
    BY <1>1 DEF Preds, NotLinking
  <1>9. \A m \in Items \ ToSet(pushed') : next'[m] = Null
    <2> SUFFICES ASSUME NEW m \in Items \ ToSet(pushed)
                 PROVE  next'[m] = Null
      OBVIOUS
    <2>1. m # cprev /\ m \in Nodes
      BY <1>5, ChainFacts DEF Nodes
    <2> QED
      BY <1>5, <2>1 DEF Locals
  <1>10. next' \in [Nodes -> Nodes \union {Null}]
    BY <1>2, <1>5
  <1> QED
    BY <1>1, <1>6, <1>7, <1>8, <1>9, <1>10

-----------------------------------------------------------------------------
\* The steps of the consumer in pop().

(***************************************************************************)
(* pop() is called.                                                        *)
(***************************************************************************)
LEMMA CallPopInv ==
    ASSUME QInv, CallPop
    PROVE  QInv'
  <1>1. TypeOK /\ Locals
    BY DEF QInv
  <1>2. PICK ch : ChainOK(ch)
    BY DEF QInv
  <1>3. /\ cpc = "idle" /\ cpc' = "first"
        /\ head' = head /\ tail' = tail /\ next' = next /\ pushed' = pushed /\ popped' = popped
        /\ ppc' = ppc /\ pnode' = pnode /\ pprev' = pprev
        /\ sleepy' = sleepy /\ ctail' = ctail /\ cprev' = cprev /\ result' = result /\ freed' = freed
    BY DEF CallPop, pvars
  <1>4. /\ again' \in BOOLEAN /\ ~again' /\ maySleep' \in BOOLEAN /\ ~maySleep'
        /\ quiet' \in BOOLEAN /\ (quiet' <=> \A p \in Producers : ppc[p] # "link")
    BY Zenon DEF CallPop
  <1>5. TypeOK'
    BY <1>1, <1>3, <1>4 DEF TypeOK
  <1>6. Locals'
    BY <1>1, <1>3, <1>4 DEF Locals
  <1>7. Special(ch)'
    <2>1. Special(ch)
      BY <1>2 DEF ChainOK
    <2> QED
      BY <1>3, <1>4, <2>1 DEF Special, Asleep, On
  <1>8. NotLinking(cpc) /\ NotLinking(cpc')
    BY <1>3 DEF NotLinking
  <1> QED
    BY <1>2, <1>3, <1>5, <1>6, <1>7, <1>8, KeepChain

(***************************************************************************)
(* The consumer steps over the stub.                                       *)
(***************************************************************************)
StepOver ==
    /\ cpc = "first" /\ tail = Stub /\ next[tail] # Null
    /\ tail' = next[tail] /\ ctail' = next[tail] /\ cpc' = "second"
    /\ UNCHANGED <<head, next, pushed, popped, ppc, pnode, pprev, sleepy, again, result, maySleep,
                   quiet, freed, cprev>>

(***************************************************************************)
(* pop() steps over the stub.                                              *)
(***************************************************************************)
LEMMA StepOverInv ==
    ASSUME QInv, StepOver
    PROVE  QInv'
  <1>1. TypeOK /\ Locals
    BY DEF QInv
  <1>2. PICK ch : ChainOK(ch)
    BY DEF QInv
  <1>3. /\ cpc = "first" /\ tail = Stub /\ next[tail] # Null
        /\ tail' = next[tail] /\ ctail' = next[tail] /\ cpc' = "second"
        /\ head' = head /\ next' = next /\ pushed' = pushed /\ popped' = popped
        /\ ppc' = ppc /\ pnode' = pnode /\ pprev' = pprev
        /\ sleepy' = sleepy /\ again' = again /\ result' = result /\ maySleep' = maySleep
        /\ quiet' = quiet /\ freed' = freed /\ cprev' = cprev
    BY DEF StepOver
  <1>4. NotLinking(cpc) /\ NotLinking(cpc')
    BY <1>3 DEF NotLinking
  <1>5. popped' = IF tail \in Items THEN Append(popped, tail) ELSE popped
    BY <1>3, DistinctNodes
  <1>6. PICK d : /\ Core(d, next', Pend') /\ Preds(d)' /\ Content(d, pushed', popped')
                 /\ d[1] = tail' /\ d[Len(d)] = head'
                 /\ \A m : On(d, m) <=> (On(ch, m) /\ m # tail)
    BY <1>1, <1>2, <1>3, <1>4, <1>5, LeaveFirst
  <1>7. next[tail] \in Nodes
    BY <1>1, <1>3 DEF TypeOK
  <1>8. next[tail] # Stub
    <2>1. 1 \in 1..Len(d) /\ d[1] = next[tail]
      <3>1. d \in Seq(Nodes) /\ d # <<>>
        BY <1>6 DEF Core
      <3>2. Len(d) \in Nat /\ Len(d) # 0
        BY <3>1, LenProperties, EmptySeq
      <3> QED
        BY <1>3, <1>6, <3>2
    <2>2. On(d, next[tail])
      BY <2>1 DEF On
    <2> QED
      BY <1>3, <1>6, <2>2
  <1>9. TypeOK'
    BY <1>1, <1>3, <1>7 DEF TypeOK
  <1>10. Locals'
    BY <1>1, <1>3, <1>8 DEF Locals
  <1>11. Special(d)'
    <2>1. Special(ch)
      BY <1>2 DEF ChainOK
    <2>2. (On(d, Sleeping) <=> On(ch, Sleeping)) /\ ~On(d, Stub)
      BY <1>3, <1>6, DistinctNodes
    <2>3. ~maySleep
      BY <1>1, <1>3 DEF Locals
    <2>4. ~Asleep'
      BY <1>3, <2>3 DEF Asleep
    <2>5. On(d, Sleeping)' <=> On(d, Sleeping)
      BY DEF On
    <2> QED
      BY <1>3, <2>1, <2>2, <2>4 DEF Special, On
  <1> QED
    BY <1>6, <1>9, <1>10, <1>11, Assemble

(***************************************************************************)
(* popNode returns the first node, which has a successor.                  *)
(***************************************************************************)
TakeOut ==
    /\ cpc \in {"first", "second", "last"} /\ tail # Stub /\ next[tail] # Null
    /\ tail' = next[tail] /\ Return(tail) /\ ctail' = tail
    /\ UNCHANGED <<head, next, pushed, quiet, cprev, pvars>>

(***************************************************************************)
(* pop() takes the front node out: the sleeping node, which it discards,   *)
(* or the oldest item.                                                     *)
(***************************************************************************)
LEMMA TakeOutInv ==
    ASSUME QInv, TakeOut
    PROVE  /\ QInv'
           /\ maySleep' = maySleep
           /\ \/ tail = Sleeping /\ popped' = popped
              \/ /\ tail \in Items /\ popped' = Append(popped, tail)
                 /\ Len(popped) < Len(pushed) /\ pushed[Len(popped) + 1] = tail
  <1>1. TypeOK /\ Locals
    BY DEF QInv
  <1>2. PICK ch : ChainOK(ch)
    BY DEF QInv
  <1>3. /\ cpc \in {"first", "second", "last"} /\ tail # Stub /\ next[tail] # Null
        /\ tail' = next[tail] /\ ctail' = tail /\ maySleep' = maySleep
        /\ head' = head /\ next' = next /\ pushed' = pushed
        /\ ppc' = ppc /\ pnode' = pnode /\ pprev' = pprev
        /\ quiet' = quiet /\ cprev' = cprev
    BY DEF TakeOut, Return, pvars
  <1>4. tail \in Nodes /\ next[tail] \in Nodes
    BY <1>1, <1>3 DEF TypeOK
  <1>5. CASE tail = Sleeping
    <2>1. On(ch, Sleeping)
      BY <1>1, <1>2, <1>5, ChainFacts
    <2>2. Special(ch)
      BY <1>2 DEF ChainOK
    <2>3. ~again
      BY <1>1, <1>3, <2>1, <2>2 DEF Special, Locals
    <2>4. cpc' = "first" /\ result' = result /\ freed' = freed /\ popped' = popped
      BY <1>5, <2>3 DEF TakeOut, Return
    <2>5. sleepy' \in BOOLEAN /\ ~sleepy' /\ again' \in BOOLEAN /\ again'
      <3>1. tail = Sleeping /\ ~again
        BY <1>5, <2>3
      <3>2. Return(tail)
        BY DEF TakeOut
      <3>3. sleepy' = FALSE /\ again' = TRUE
        BY <3>1, <3>2, Zenon DEF Return
      <3> QED
        BY <3>3, Zenon
    <2>6. NotLinking(cpc) /\ NotLinking(cpc')
      BY <1>3, <2>4 DEF NotLinking
    <2>7. popped' = IF tail \in Items THEN Append(popped, tail) ELSE popped
      BY <1>5, <2>4, DistinctNodes
    <2>8. PICK d : /\ Core(d, next', Pend') /\ Preds(d)' /\ Content(d, pushed', popped')
                   /\ d[1] = tail' /\ d[Len(d)] = head'
                   /\ \A m : On(d, m) <=> (On(ch, m) /\ m # tail)
      BY <1>1, <1>2, <1>3, <2>6, <2>7, LeaveFirst
    <2>9. TypeOK'
      BY <1>1, <1>3, <1>4, <2>4, <2>5 DEF TypeOK
    <2>10. Locals'
      BY <1>1, <1>3, <2>4, <2>5 DEF Locals
    <2>11. Special(d)'
      <3>1. ~On(d, Sleeping)
        BY <1>5, <2>8
      <3>2. ~maySleep
        BY <1>1, <1>3 DEF Locals
      <3>3. ~Asleep'
        BY <1>3, <2>4, <3>2 DEF Asleep
      <3> QED
        BY <2>4, <2>5, <3>1, <3>3 DEF Special, On
    <2> QED
      BY <1>3, <1>5, <2>4, <2>8, <2>9, <2>10, <2>11, Assemble
  <1>6. CASE tail # Sleeping
    <2>1. tail \in Items
      BY <1>3, <1>4, <1>6 DEF Nodes
    <2>2. /\ cpc' = "idle" /\ result' = tail /\ freed' = freed \union {tail}
          /\ popped' = Append(popped, tail) /\ sleepy' = sleepy /\ again' = again
      BY <1>6, <2>1 DEF TakeOut, Return
    <2>3. NotLinking(cpc) /\ NotLinking(cpc')
      BY <1>3, <2>2 DEF NotLinking
    <2>4. popped' = IF tail \in Items THEN Append(popped, tail) ELSE popped
      BY <2>1, <2>2
    <2>5. PICK d : /\ Core(d, next', Pend') /\ Preds(d)' /\ Content(d, pushed', popped')
                   /\ d[1] = tail' /\ d[Len(d)] = head'
                   /\ \A m : On(d, m) <=> (On(ch, m) /\ m # tail)
      BY <1>1, <1>2, <1>3, <2>3, <2>4, LeaveFirst
    <2>6. /\ popped \in Seq(Items) /\ Len(popped) \in Nat /\ Len(pushed) \in Nat
          /\ popped' \in Seq(Items) /\ Len(popped') = Len(popped) + 1
          /\ popped'[Len(popped) + 1] = tail
          /\ \A k \in 1..Len(popped) : popped'[k] = popped[k]
      <3>1. popped \in Seq(Items) /\ pushed \in Seq(Items)
        BY <1>1 DEF TypeOK
      <3> QED
        BY <2>1, <2>2, <3>1, AppendProperties, LenProperties
    <2>7. Len(popped) < Len(pushed) /\ pushed[Len(popped) + 1] = tail
      <3>1. Len(popped') <= Len(pushed) /\ \A k \in 1..Len(popped') : popped'[k] = pushed[k]
        BY <1>3, <2>5 DEF Content
      <3>2. Len(popped) + 1 \in 1..Len(popped')
        BY <2>6
      <3> QED
        BY <2>6, <3>1, <3>2
    <2>8. TypeOK'
      BY <1>1, <1>3, <1>4, <2>1, <2>2, <2>6 DEF TypeOK
    <2>9. Locals'
      <3>1. freed' = {popped'[k] : k \in 1..Len(popped')}
        <4>1. freed = {popped[k] : k \in 1..Len(popped)}
          BY <1>1 DEF Locals
        <4>2. \A k \in 1..Len(popped') : k \in 1..Len(popped) \/ k = Len(popped) + 1
          BY <2>6
        <4>3. (\A k \in 1..Len(popped) : k \in 1..Len(popped')) /\ Len(popped) + 1 \in 1..Len(popped')
          BY <2>6
        <4> QED
          BY <2>2, <2>6, <4>1, <4>2, <4>3
      <3>2. result' \notin {Stub, Sleeping}
        BY <1>3, <1>6, <2>2
      <3> QED
        BY <1>1, <1>3, <2>2, <3>1, <3>2 DEF Locals
    <2>10. Special(d)'
      <3>1. On(d, Sleeping) <=> On(ch, Sleeping)
        BY <1>6, <2>5
      <3>2. ~maySleep
        BY <1>1, <1>3 DEF Locals
      <3>3. ~Asleep'
        BY <1>3, <2>2, <3>2 DEF Asleep
      <3>4. Special(ch)
        BY <1>2 DEF ChainOK
      <3> QED
        BY <1>3, <2>2, <3>1, <3>3, <3>4 DEF Special, On
    <2> QED
      BY <1>3, <2>1, <2>2, <2>5, <2>7, <2>8, <2>9, <2>10, Assemble
  <1> QED
    BY <1>5, <1>6

(***************************************************************************)
(* When no push is under way, a first node without a successor is the only *)
(* node.                                                                   *)
(***************************************************************************)
LEMMA QuietAlone ==
    ASSUME TypeOK, Locals, NEW ch, ChainOK(ch), quiet, NotLinking(cpc), next[tail] = Null
    PROVE  Len(ch) = 1
  <1>1. Len(ch) \in Nat /\ Len(ch) >= 1 /\ \A i \in 1..Len(ch) : ch[i] \in Nodes
    BY ChainFacts
  <1>2. Pend = {}
    BY DEF Pend, NotLinking, Locals
  <1>3. ASSUME Len(ch) # 1
        PROVE  FALSE
    <2>1. 1 \in 1..(Len(ch) - 1) /\ 2 \in 1..Len(ch)
      <3> DEFINE L == Len(ch)
      <3>1. L \in Nat /\ L >= 1 /\ L # 1
        BY <1>1, <1>3
      <3> HIDE DEF L
      <3>2. 1 \in 1..(L - 1) /\ 2 \in 1..L
        BY <3>1
      <3> QED
        BY <3>2 DEF L
    <2>2. next[ch[1]] = IF ch[1 + 1] \in Pend THEN Null ELSE ch[1 + 1]
      BY <2>1 DEF ChainOK, Core
    <2>3. next[ch[1]] = ch[2] /\ ch[2] \in Nodes
      BY <1>1, <1>2, <2>1, <2>2
    <2> QED
      BY <2>3, DistinctNodes DEF ChainOK
  <1> QED
    BY <1>3

(***************************************************************************)
(* The step of pop() that finds no successor and goes on to read head.     *)
(***************************************************************************)
GoHead ==
    /\ cpc \in {"first", "second"} /\ tail # Stub /\ next[tail] = Null
    /\ ctail' = tail /\ tail' = tail /\ Goto("head")
    /\ UNCHANGED <<head, next, pushed, quiet, cprev, pvars>>

(***************************************************************************)
(* It keeps the invariant.                                                 *)
(***************************************************************************)
LEMMA GoHeadInv ==
    ASSUME QInv, GoHead
    PROVE  QInv'
  <1>1. TypeOK /\ Locals
    BY DEF QInv
  <1>2. PICK ch : ChainOK(ch)
    BY DEF QInv
  <1>3. /\ cpc \in {"first", "second"} /\ tail # Stub /\ next[tail] = Null /\ cpc' = "head"
        /\ head' = head /\ tail' = tail /\ next' = next /\ pushed' = pushed /\ popped' = popped
        /\ ppc' = ppc /\ pnode' = pnode /\ pprev' = pprev /\ ctail' = tail
        /\ sleepy' = sleepy /\ again' = again /\ result' = result /\ maySleep' = maySleep
        /\ quiet' = quiet /\ freed' = freed /\ cprev' = cprev
    BY DEF GoHead, Goto, pvars
  <1>4. NotLinking(cpc) /\ NotLinking(cpc')
    BY <1>3 DEF NotLinking
  <1>5. TypeOK'
    BY <1>1, <1>3 DEF TypeOK
  <1>6. Locals'
    BY <1>1, <1>3 DEF Locals
  <1>7. Special(ch)'
    <2>1. Special(ch)
      BY <1>2 DEF ChainOK
    <2>2. quiet => Len(ch) = 1
      BY <1>1, <1>2, <1>3, <1>4, QuietAlone
    <2>3. ~Asleep'
      BY <1>1, <1>3 DEF Asleep, Locals
    <2> QED
      BY <1>3, <2>1, <2>2, <2>3 DEF Special, On
  <1> QED
    BY <1>2, <1>3, <1>4, <1>5, <1>6, <1>7, KeepChain

(***************************************************************************)
(* pop() comes back with nothing: the stub is alone, or a push is not      *)
(* finished.                                                               *)
(***************************************************************************)
ComesBackEmpty ==
    /\ \/ cpc = "first" /\ tail = Stub /\ next[tail] = Null
       \/ cpc = "head" /\ ctail # head
       \/ cpc = "last" /\ next[ctail] = Null
    /\ Return(Null)
    /\ UNCHANGED <<head, next, pushed, quiet, tail, ctail, cprev, pvars>>

(***************************************************************************)
(* pop() returns nothing only when all was popped or a push was under way. *)
(***************************************************************************)
LEMMA ComesBackEmptyInv ==
    ASSUME QInv, ComesBackEmpty
    PROVE  /\ QInv'
           /\ popped' = popped /\ maySleep' = maySleep
           /\ popped = pushed \/ ~quiet
  <1>1. TypeOK /\ Locals
    BY DEF QInv
  <1>2. PICK ch : ChainOK(ch)
    BY DEF QInv
  <1>3. /\ cpc \in {"first", "head", "last"} /\ cpc' = "idle" /\ result' = Null
        /\ head' = head /\ tail' = tail /\ next' = next /\ pushed' = pushed /\ popped' = popped
        /\ ppc' = ppc /\ pnode' = pnode /\ pprev' = pprev /\ ctail' = ctail
        /\ sleepy' = sleepy /\ again' = again /\ maySleep' = maySleep
        /\ quiet' = quiet /\ freed' = freed /\ cprev' = cprev
    BY DistinctNodes DEF ComesBackEmpty, Return, pvars
  <1>4. NotLinking(cpc) /\ NotLinking(cpc')
    BY <1>3 DEF NotLinking
  <1>5. TypeOK'
    BY <1>1, <1>3 DEF TypeOK
  <1>6. Locals'
    BY <1>1, <1>3, DistinctNodes DEF Locals
  <1>7. Special(ch)
    BY <1>2 DEF ChainOK
  <1>8. Special(ch)'
    <2>1. ~Asleep'
      BY <1>1, <1>3 DEF Asleep, Locals
    <2> QED
      BY <1>3, <1>7, <2>1 DEF Special, On
  <1>9. QInv'
    BY <1>2, <1>3, <1>4, <1>5, <1>6, <1>8, KeepChain
  <1>10. ASSUME quiet
         PROVE  popped = pushed
    <2>1. /\ ch \in Seq(Nodes) /\ Len(ch) \in Nat /\ Len(ch) >= 1
          /\ pushed \in Seq(Items) /\ popped \in Seq(Items)
      BY <1>1, <1>2, ChainFacts
    <2>2. ch[1] = tail /\ ch[Len(ch)] = head /\ Content(ch, pushed, popped)
      BY <1>2 DEF ChainOK
    <2>3. CASE cpc = "first"
      <3>1. tail = Stub /\ next[tail] = Null
        BY <2>3 DEF ComesBackEmpty
      <3>2. Len(ch) = 1
        BY <1>1, <1>2, <1>4, <1>10, <3>1, QuietAlone
      <3>3. \A i \in 1..Len(ch) : ch[i] \notin Items
        BY <2>2, <3>1, <3>2, DistinctNodes
      <3> QED
        BY <2>1, <2>2, <3>3, ContentEmpty
    <2>4. CASE cpc = "head"
      <3>1. ctail # head /\ ctail = tail
        BY <1>1, <2>4 DEF ComesBackEmpty, Locals
      <3> QED
        BY <1>7, <1>10, <2>2, <2>4, <3>1 DEF Special
    <2>5. CASE cpc = "last"
      <3>1. ctail = tail /\ tail # Stub /\ next[tail] = Null /\ On(ch, Stub)
        BY <1>1, <1>7, <2>5 DEF ComesBackEmpty, Locals, Special
      <3>2. Len(ch) = 1
        BY <1>1, <1>2, <1>4, <1>10, <3>1, QuietAlone
      <3> QED
        BY <2>2, <3>1, <3>2 DEF On
    <2> QED
      BY <1>3, <2>3, <2>4, <2>5
  <1> QED
    BY <1>3, <1>9, <1>10

(***************************************************************************)
(* The first node is the last one.                                         *)
(***************************************************************************)
HeadIsLast ==
    /\ cpc = "head" /\ ctail = head /\ Goto("stub")
    /\ UNCHANGED <<head, next, pushed, quiet, tail, ctail, cprev, pvars>>

(***************************************************************************)
(* pop() finds that the front node is the last one.                        *)
(***************************************************************************)
LEMMA HeadIsLastInv ==
    ASSUME QInv, HeadIsLast
    PROVE  QInv'
  <1>1. TypeOK /\ Locals
    BY DEF QInv
  <1>2. PICK ch : ChainOK(ch)
    BY DEF QInv
  <1>3. /\ cpc = "head" /\ cpc' = "stub" /\ ctail = head
        /\ head' = head /\ tail' = tail /\ next' = next /\ pushed' = pushed /\ popped' = popped
        /\ ppc' = ppc /\ pnode' = pnode /\ pprev' = pprev /\ ctail' = ctail
        /\ sleepy' = sleepy /\ again' = again /\ result' = result /\ maySleep' = maySleep
        /\ quiet' = quiet /\ freed' = freed /\ cprev' = cprev
    BY DEF HeadIsLast, Goto, pvars
  <1>4. NotLinking(cpc) /\ NotLinking(cpc')
    BY <1>3 DEF NotLinking
  <1>5. TypeOK'
    BY <1>1, <1>3 DEF TypeOK
  <1>6. Locals'
    BY <1>1, <1>3 DEF Locals
  <1>7. Special(ch)'
    <2>1. Special(ch) /\ ch[1] = tail /\ ch[Len(ch)] = head
      BY <1>2 DEF ChainOK
    <2>2. ctail = tail /\ tail # Stub
      BY <1>1, <1>3 DEF Locals
    <2>3. Len(ch) = 1
      <3>1. /\ Len(ch) \in Nat /\ Len(ch) >= 1 /\ \A i, j \in 1..Len(ch) : ch[i] = ch[j] => i = j
        BY <1>1, <1>2, ChainFacts
      <3>2. 1 \in 1..Len(ch) /\ Len(ch) \in 1..Len(ch)
        BY <3>1
      <3> QED
        BY <1>3, <2>1, <2>2, <3>1, <3>2
    <2>4. ~On(ch, Stub)
      BY <2>1, <2>2, <2>3 DEF On
    <2>5. ~Asleep'
      BY <1>1, <1>3 DEF Asleep, Locals
    <2> QED
      BY <1>3, <2>1, <2>4, <2>5 DEF Special, On
  <1> QED
    BY <1>2, <1>3, <1>4, <1>5, <1>6, <1>7, KeepChain

(***************************************************************************)
(* pop() puts the stub behind the last item.                               *)
(***************************************************************************)
LEMMA PopStubInv ==
    ASSUME QInv, PopStub
    PROVE  QInv'
  <1>1. TypeOK /\ Locals
    BY DEF QInv
  <1>2. PICK ch : ChainOK(ch)
    BY DEF QInv
  <1>3. /\ cpc = "stub" /\ cpc' = "linkStub" /\ cprev' = head /\ head' = Stub
        /\ next' = [next EXCEPT ![Stub] = Null]
        /\ tail' = tail /\ pushed' = pushed /\ popped' = popped
        /\ ppc' = ppc /\ pnode' = pnode /\ pprev' = pprev /\ ctail' = ctail
        /\ sleepy' = sleepy /\ again' = again /\ result' = result /\ maySleep' = maySleep
        /\ quiet' = quiet /\ freed' = freed
    BY DEF PopStub, Goto, pvars
  <1>4. NotLinking(cpc)
    BY <1>3 DEF NotLinking
  <1>5. Special(ch)
    BY <1>2 DEF ChainOK
  <1>6. ~On(ch, Stub)
    BY <1>3, <1>5 DEF Special
  <1>7. PICK d : /\ Core(d, next', Pend') /\ Preds(d)' /\ Content(d, pushed', popped')
                 /\ d[1] = tail' /\ d[Len(d)] = head'
                 /\ \A m : On(d, m) <=> (On(ch, m) \/ m = Stub)
    <2> DEFINE n == Stub
    <2>1. \/ n = Stub /\ cpc' = "linkStub"
          \/ n = Sleeping /\ cpc' = "linkSleeping"
      BY <1>3
    <2>2. ~On(ch, n) /\ head' = n /\ next' = [next EXCEPT ![n] = Null]
      BY <1>3, <1>6
    <2>3. \E d : /\ Core(d, next', Pend') /\ Preds(d)' /\ Content(d, pushed', popped')
                 /\ d[1] = tail' /\ d[Len(d)] = head'
                 /\ \A m : On(d, m) <=> (On(ch, m) \/ m = n)
                 /\ Len(d) = Len(ch) + 1 /\ d[Len(ch) + 1] = n
                 /\ \A i \in 1..Len(ch) : d[i] = ch[i]
      <3> HIDE DEF n
      <3> QED
        BY <1>1, <1>2, <1>3, <1>4, <2>1, <2>2, AddOwn
    <2> QED
      BY <2>3
  <1>8. Stub \in Nodes /\ next \in [Nodes -> Nodes \union {Null}] /\ head \in Nodes
    BY <1>1 DEF TypeOK, Nodes
  <1>9. TypeOK'
    <2>1. next' \in [Nodes -> Nodes \union {Null}]
      BY <1>3, <1>8
    <2> QED
      BY <1>1, <1>3, <1>8, <2>1 DEF TypeOK
  <1>10. Locals'
    <2>1. \A m \in Items \ ToSet(pushed') : next'[m] = Null
      BY <1>1, <1>3, <1>8, DistinctNodes DEF Locals, Nodes
    <2> QED
      BY <1>1, <1>3, <2>1 DEF Locals
  <1>11. Special(d)'
    <2>1. (On(d, Sleeping) <=> On(ch, Sleeping)) /\ On(d, Stub)
      BY <1>7, DistinctNodes
    <2>2. ~Asleep'
      BY <1>1, <1>3 DEF Asleep, Locals
    <2> QED
      BY <1>3, <1>5, <2>1, <2>2 DEF Special, On
  <1> QED
    BY <1>7, <1>9, <1>10, <1>11, Assemble

(***************************************************************************)
(* pop() links the stub.                                                   *)
(***************************************************************************)
LEMMA PopLinkStubInv ==
    ASSUME QInv, PopLinkStub
    PROVE  QInv'
  <1>1. TypeOK /\ Locals
    BY DEF QInv
  <1>2. PICK ch : ChainOK(ch)
    BY DEF QInv
  <1>3. /\ cpc = "linkStub" /\ cpc' = "last" /\ next' = [next EXCEPT ![cprev] = Stub]
        /\ head' = head /\ tail' = tail /\ pushed' = pushed /\ popped' = popped
        /\ ppc' = ppc /\ pnode' = pnode /\ pprev' = pprev /\ ctail' = ctail
        /\ sleepy' = sleepy /\ again' = again /\ result' = result /\ maySleep' = maySleep
        /\ quiet' = quiet /\ freed' = freed /\ cprev' = cprev
    BY DEF PopLinkStub, Goto, pvars
  <1>4. NotLinking(cpc')
    BY <1>3 DEF NotLinking
  <1>5. /\ Core(ch, next', Pend') /\ Preds(ch)' /\ Content(ch, pushed', popped')
        /\ ch[1] = tail' /\ ch[Len(ch)] = head'
        /\ next' \in [Nodes -> Nodes \union {Null}]
        /\ \A m \in Items \ ToSet(pushed') : next'[m] = Null
    <2> DEFINE n == Stub
    <2>1. \/ n = Stub /\ cpc = "linkStub"
          \/ n = Sleeping /\ cpc = "linkSleeping"
      BY <1>3
    <2>2. next' = [next EXCEPT ![cprev] = n]
      BY <1>3
    <2> HIDE DEF n
    <2> QED
      BY <1>1, <1>2, <1>3, <1>4, <2>1, <2>2, LinkOwn
  <1>6. TypeOK'
    BY <1>1, <1>3, <1>5 DEF TypeOK
  <1>7. Locals'
    BY <1>1, <1>3, <1>5 DEF Locals
  <1>8. Special(ch)'
    <2>1. Special(ch)
      BY <1>2 DEF ChainOK
    <2>2. ~Asleep'
      BY <1>1, <1>3 DEF Asleep, Locals
    <2> QED
      BY <1>3, <2>1, <2>2 DEF Special, On
  <1> QED
    BY <1>5, <1>6, <1>7, <1>8, Assemble

-----------------------------------------------------------------------------
\* The steps of the consumer in canSleep().

(***************************************************************************)
(* canSleep() is called.                                                   *)
(***************************************************************************)
LEMMA CallCanSleepInv ==
    ASSUME QInv, CallCanSleep
    PROVE  QInv'
  <1>1. TypeOK /\ Locals
    BY DEF QInv
  <1>2. PICK ch : ChainOK(ch)
    BY DEF QInv
  <1>3. /\ cpc = "idle" /\ cpc' \in {"idle", "sleep"}
        /\ cpc' = "sleep" => tail = Stub /\ ~sleepy
        /\ head' = head /\ tail' = tail /\ next' = next /\ pushed' = pushed /\ popped' = popped
        /\ ppc' = ppc /\ pnode' = pnode /\ pprev' = pprev /\ ctail' = ctail
        /\ sleepy' = sleepy /\ again' = again /\ result' = result
        /\ quiet' = quiet /\ freed' = freed /\ cprev' = cprev
    BY DEF CallCanSleep, pvars
  <1>4. maySleep' \in BOOLEAN /\ ~maySleep'
    BY Zenon DEF CallCanSleep
  <1>5. NotLinking(cpc) /\ NotLinking(cpc')
    BY <1>3 DEF NotLinking
  <1>6. TypeOK'
    BY <1>1, <1>3, <1>4 DEF TypeOK
  <1>7. Locals'
    BY <1>1, <1>3, <1>4 DEF Locals
  <1>8. Special(ch)'
    <2>1. Special(ch)
      BY <1>2 DEF ChainOK
    <2>2. ~Asleep'
      BY <1>3, <1>4 DEF Asleep
    <2> QED
      BY <1>3, <2>1, <2>2 DEF Special, On
  <1> QED
    BY <1>2, <1>3, <1>5, <1>6, <1>7, <1>8, KeepChain

(***************************************************************************)
(* The exchange of canSleep() finds the stub at the head only if the queue *)
(* is empty.                                                               *)
(***************************************************************************)
LEMMA SleepExchangeInv ==
    ASSUME QInv, SleepExchange
    PROVE  QInv' /\ ~Asleep /\ (Asleep' => popped = pushed)
  <1>1. TypeOK /\ Locals
    BY DEF QInv
  <1>2. PICK ch : ChainOK(ch)
    BY DEF QInv
  <1>3. /\ cpc = "sleep" /\ cpc' = "linkSleeping" /\ cprev' = head /\ head' = Sleeping
        /\ next' = [next EXCEPT ![Sleeping] = Null]
        /\ tail' = tail /\ pushed' = pushed /\ popped' = popped
        /\ ppc' = ppc /\ pnode' = pnode /\ pprev' = pprev /\ ctail' = ctail
        /\ sleepy' = sleepy /\ again' = again /\ result' = result /\ maySleep' = maySleep
        /\ quiet' = quiet /\ freed' = freed
    BY DEF SleepExchange, Goto, pvars
  <1>4. NotLinking(cpc)
    BY <1>3 DEF NotLinking
  <1>5. Special(ch) /\ ch[1] = tail /\ ch[Len(ch)] = head /\ Content(ch, pushed, popped)
    BY <1>2 DEF ChainOK
  <1>6. ~On(ch, Sleeping) /\ tail = Stub /\ ~sleepy /\ ~maySleep
    BY <1>1, <1>3, <1>5 DEF Special, Locals
  <1>7. PICK d : /\ Core(d, next', Pend') /\ Preds(d)' /\ Content(d, pushed', popped')
                 /\ d[1] = tail' /\ d[Len(d)] = head'
                 /\ \A m : On(d, m) <=> (On(ch, m) \/ m = Sleeping)
                 /\ Len(d) = Len(ch) + 1 /\ d[Len(ch) + 1] = Sleeping
                 /\ \A i \in 1..Len(ch) : d[i] = ch[i]
    <2> DEFINE n == Sleeping
    <2>1. \/ n = Stub /\ cpc' = "linkStub"
          \/ n = Sleeping /\ cpc' = "linkSleeping"
      BY <1>3
    <2>2. ~On(ch, n) /\ head' = n /\ next' = [next EXCEPT ![n] = Null]
      BY <1>3, <1>6
    <2>3. \E d : /\ Core(d, next', Pend') /\ Preds(d)' /\ Content(d, pushed', popped')
                 /\ d[1] = tail' /\ d[Len(d)] = head'
                 /\ \A m : On(d, m) <=> (On(ch, m) \/ m = n)
                 /\ Len(d) = Len(ch) + 1 /\ d[Len(ch) + 1] = n
                 /\ \A i \in 1..Len(ch) : d[i] = ch[i]
      <3> HIDE DEF n
      <3> QED
        BY <1>1, <1>2, <1>3, <1>4, <2>1, <2>2, AddOwn
    <2> QED
      BY <2>3
  <1>8. Sleeping \in Nodes /\ next \in [Nodes -> Nodes \union {Null}] /\ head \in Nodes
    BY <1>1 DEF TypeOK, Nodes
  <1>9. TypeOK'
    <2>1. next' \in [Nodes -> Nodes \union {Null}]
      BY <1>3, <1>8
    <2> QED
      BY <1>1, <1>3, <1>8, <2>1 DEF TypeOK
  <1>10. Locals'
    <2>1. \A m \in Items \ ToSet(pushed') : next'[m] = Null
      BY <1>1, <1>3, <1>8, DistinctNodes DEF Locals, Nodes
    <2> QED
      BY <1>1, <1>3, <2>1 DEF Locals
  <1>11. /\ ch \in Seq(Nodes) /\ Len(ch) \in Nat /\ Len(ch) >= 1
         /\ pushed \in Seq(Items) /\ popped \in Seq(Items)
         /\ \A i, j \in 1..Len(ch) : ch[i] = ch[j] => i = j
    BY <1>1, <1>2, ChainFacts
  <1>12. ASSUME Asleep'
         PROVE  Len(ch) = 1 /\ ch[1] = Stub /\ popped = pushed
    <2>1. head = Stub
      BY <1>3, <1>6, <1>12 DEF Asleep
    <2>2. 1 \in 1..Len(ch) /\ Len(ch) \in 1..Len(ch)
      BY <1>11
    <2>3. Len(ch) = 1
      BY <1>5, <1>6, <1>11, <2>1, <2>2
    <2>4. \A i \in 1..Len(ch) : ch[i] \notin Items
      BY <1>5, <1>6, <2>3, DistinctNodes
    <2> QED
      BY <1>5, <1>6, <1>11, <2>3, <2>4, ContentEmpty
  <1>13. Special(d)'
    <2>1. On(d, Sleeping)
      BY <1>7
    <2>2. ASSUME Asleep'
          PROVE  Len(d) >= 2 /\ d[1] = Stub /\ d[2] = Sleeping
      <3>1. Len(ch) = 1
        BY <1>12, <2>2
      <3>2. Len(d) = 1 + 1 /\ d[1 + 1] = Sleeping
        BY <1>7, <3>1
      <3> QED
        BY <1>3, <1>6, <1>7, <3>2
    <2> QED
      BY <1>3, <2>1, <2>2 DEF Special, On
  <1>14. ~Asleep
    BY <1>3, <1>6 DEF Asleep
  <1>15. QInv'
    BY <1>7, <1>9, <1>10, <1>13, Assemble
  <1> QED
    BY <1>12, <1>14, <1>15

(***************************************************************************)
(* canSleep() links the sleeping node.                                     *)
(***************************************************************************)
LEMMA SleepLinkInv ==
    ASSUME QInv, SleepLink
    PROVE  QInv' /\ (Asleep' <=> Asleep)
  <1>1. TypeOK /\ Locals
    BY DEF QInv
  <1>2. PICK ch : ChainOK(ch)
    BY DEF QInv
  <1>3. /\ cpc = "linkSleeping" /\ cpc' = "idle" /\ next' = [next EXCEPT ![cprev] = Sleeping]
        /\ head' = head /\ tail' = tail /\ pushed' = pushed /\ popped' = popped
        /\ ppc' = ppc /\ pnode' = pnode /\ pprev' = pprev /\ ctail' = ctail
        /\ again' = again /\ result' = result
        /\ quiet' = quiet /\ freed' = freed /\ cprev' = cprev
    BY DEF SleepLink, pvars
  <1>a. /\ sleepy' \in BOOLEAN /\ sleepy'
        /\ maySleep' \in BOOLEAN /\ (maySleep' <=> cprev = Stub)
    BY Zenon DEF SleepLink
  <1>4. NotLinking(cpc')
    BY <1>3 DEF NotLinking
  <1>5. /\ Core(ch, next', Pend') /\ Preds(ch)' /\ Content(ch, pushed', popped')
        /\ ch[1] = tail' /\ ch[Len(ch)] = head'
        /\ next' \in [Nodes -> Nodes \union {Null}]
        /\ \A m \in Items \ ToSet(pushed') : next'[m] = Null
    <2> DEFINE n == Sleeping
    <2>1. \/ n = Stub /\ cpc = "linkStub"
          \/ n = Sleeping /\ cpc = "linkSleeping"
      BY <1>3
    <2>2. next' = [next EXCEPT ![cprev] = n]
      BY <1>3
    <2> HIDE DEF n
    <2> QED
      BY <1>1, <1>2, <1>3, <1>4, <2>1, <2>2, LinkOwn
  <1>6. TypeOK'
    BY <1>1, <1>3, <1>a, <1>5 DEF TypeOK
  <1>7. Locals'
    BY <1>1, <1>3, <1>a, <1>5 DEF Locals
  <1>8. Asleep' <=> Asleep
    BY <1>1, <1>3, <1>a DEF Asleep, Locals
  <1>9. Special(ch)'
    <2>1. Special(ch)
      BY <1>2 DEF ChainOK
    <2> QED
      BY <1>3, <1>a, <1>8, <2>1 DEF Special, On
  <1> QED
    BY <1>5, <1>6, <1>7, <1>8, <1>9, Assemble

-----------------------------------------------------------------------------
\* The steps together.

(***************************************************************************)
(* The steps of pop() are those of which the lemmas above speak.           *)
(***************************************************************************)
LEMMA PopSteps ==
    ASSUME QInv, PopStep
    PROVE  StepOver \/ TakeOut \/ GoHead \/ ComesBackEmpty \/ HeadIsLast \/ PopStub \/ PopLinkStub
  <1>1. TypeOK /\ Locals
    BY DEF QInv
  <1>2. CASE PopFirst
    <2>1. CASE tail # Stub
      <3>1. Advance(tail, next[tail])
        BY <1>2, <2>1 DEF PopFirst
      <3> QED
        BY <1>2, <2>1, <3>1 DEF PopFirst, Advance, TakeOut, GoHead
    <2>2. CASE tail = Stub /\ next[tail] = Null
      <3>1. Return(Null) /\ UNCHANGED <<tail, ctail>>
        BY <1>2, <2>2 DEF PopFirst
      <3> QED
        BY <1>2, <2>2, <3>1 DEF PopFirst, ComesBackEmpty
    <2>3. CASE tail = Stub /\ next[tail] # Null
      <3>1. tail' = next[tail] /\ ctail' = next[tail] /\ Goto("second")
        BY <1>2, <2>3 DEF PopFirst
      <3> QED
        BY <1>2, <2>3, <3>1 DEF PopFirst, StepOver, Goto, pvars
    <2> QED
      BY <2>1, <2>2, <2>3
  <1>3. CASE PopSecond
    <2>1. ctail = tail /\ tail # Stub /\ cpc = "second" /\ Advance(tail, next[tail])
      BY <1>1, <1>3 DEF Locals, PopSecond
    <2> QED
      BY <1>3, <2>1 DEF PopSecond, Advance, TakeOut, GoHead
  <1>4. CASE PopHead
    BY <1>4 DEF PopHead, ComesBackEmpty, HeadIsLast
  <1>5. CASE PopLast
    <2>1. ctail = tail /\ tail # Stub /\ cpc = "last"
      BY <1>1, <1>5 DEF Locals, PopLast
    <2> QED
      BY <1>5, <2>1 DEF PopLast, TakeOut, ComesBackEmpty
  <1> QED
    BY <1>2, <1>3, <1>4, <1>5 DEF PopStep

(***************************************************************************)
(* Every step of the queue keeps the invariant.                            *)
(***************************************************************************)
LEMMA QStepInv ==
    ASSUME QInv, [QNext]_qvars
    PROVE  QInv'
  <1>1. CASE UNCHANGED qvars
    <2>1. /\ UNCHANGED <<head, tail, next, pushed, popped, ppc, pnode, pprev, cpc, ctail, cprev,
                         sleepy, again, result, maySleep, quiet, freed>>
      BY <1>1 DEF qvars, pvars, cvars
    <2>2. TypeOK' /\ Locals'
      BY <2>1 DEF QInv, TypeOK, Locals
    <2>3. PICK ch \in Seq(Nodes) : ChainOK(ch)
      BY DEF QInv
    <2>4. ChainOK(ch)'
      BY <2>1, <2>3 DEF ChainOK, Pend, Preds, Special, Asleep, On, Core, Content, Follows
    <2> QED
      BY <2>2, <2>3, <2>4 DEF QInv
  <1>2. ASSUME NEW p \in Producers,
               (\E n \in Items : Exchange(p, n)) \/ Link(p) \/ PushReturns(p)
        PROVE  QInv'
    BY <1>2, ExchangeInv, LinkInv, PushReturnsInv
  <1>3. CASE PopStep
    BY <1>3, PopSteps, StepOverInv, TakeOutInv, GoHeadInv, ComesBackEmptyInv, HeadIsLastInv,
       PopStubInv, PopLinkStubInv
  <1>4. CASE SleepStep
    BY <1>4, SleepExchangeInv, SleepLinkInv DEF SleepStep
  <1> QED
    BY <1>1, <1>2, <1>3, <1>4, CallPopInv, CallCanSleepInv DEF QNext, InCall

(***************************************************************************)
(* The invariant is strong enough for what the run checks.                 *)
(***************************************************************************)
LEMMA QInvSafe ==
    ASSUME QInv
    PROVE  QueueSafe
  <1>1. TypeOK /\ Locals
    BY DEF QInv
  <1>2. PICK ch : ChainOK(ch)
    BY DEF QInv
  <1>3. /\ pushed \in Seq(Items) /\ popped \in Seq(Items) /\ Len(popped) <= Len(pushed)
        /\ Len(pushed) \in Nat /\ Len(popped) \in Nat
        /\ \A n \in freed : ~On(ch, n)
        /\ On(ch, tail) /\ On(ch, head)
        /\ \A a, b : Follows(ch, a, b) => On(ch, a) /\ On(ch, b)
    BY <1>1, <1>2, ChainFacts
  <1>4. Fifo
    <2>1. \A k \in 1..Len(popped) : popped[k] = pushed[k]
      BY <1>2 DEF ChainOK, Content
    <2>2. SubSeq(pushed, 1, Len(popped)) = popped
      <3>1. /\ SubSeq(pushed, 1, Len(popped)) \in Seq(Items)
            /\ Len(SubSeq(pushed, 1, Len(popped))) = Len(popped)
            /\ \A i \in 1..Len(popped) : SubSeq(pushed, 1, Len(popped))[i] = pushed[i]
        BY <1>3
      <3> QED
        BY <1>3, <2>1, <3>1, SeqEqual
    <2> QED
      BY <1>3, <2>2 DEF Fifo, IsPrefix
  <1>5. NoUseAfterFree
    <2>1. \A p \in Producers : ppc[p] = "link" => pprev[p] \notin freed
      BY <1>2, <1>3 DEF ChainOK, Preds
    <2>2. cpc \in {"second", "head", "stub", "last"} => ctail \notin freed
      BY <1>1, <1>3 DEF Locals
    <2>3. cpc \in {"linkStub", "linkSleeping"} => cprev \notin freed
      BY <1>2, <1>3 DEF ChainOK, Preds
    <2> QED
      BY <1>3, <2>1, <2>2, <2>3 DEF NoUseAfterFree
  <1>6. PopAssertions
    BY <1>1 DEF Locals, PopAssertions
  <1> QED
    BY <1>1, <1>4, <1>5, <1>6 DEF QueueSafe

(***************************************************************************)
(* The queue of ThreadSafeQueue.h alone: through every overlap of any      *)
(* number of pushes with pop() and canSleep(), nothing is lost, reordered  *)
(* or used after it was deleted, and no assertion of pop() fails.          *)
(***************************************************************************)
THEOREM QueueIsSafe == QSpec => []QueueSafe
  <1>1. QInit => QInv
    BY QInitInv
  <1>2. QInv /\ [QNext]_qvars => QInv'
    BY QStepInv
  <1>3. QInv => QueueSafe
    BY QInvSafe
  <1> QED
    BY <1>1, <1>2, <1>3, PTL DEF QSpec

-----------------------------------------------------------------------------
\* What the queue promises: the steps of WakeableQueue.

(***************************************************************************)
(* The predicates the refinement maps to are Boolean.                      *)
(***************************************************************************)
LEMMA AsleepIsBoolean == Asleep \in BOOLEAN /\ Owed \in BOOLEAN
  BY DEF Asleep, Owed

(***************************************************************************)
(* So they are in the next state.                                          *)
(***************************************************************************)
LEMMA AsleepIsBooleanNext == Asleep' \in BOOLEAN /\ Owed' \in BOOLEAN
  BY DEF Asleep, Owed

(***************************************************************************)
(* A step that changes nothing the abstract queue has is a stutter of it.  *)
(***************************************************************************)
LEMMA Stutter ==
    ASSUME Asleep' <=> Asleep, popped' = popped, pushed' = pushed
    PROVE  UNCHANGED Abstract!vars
  <1>1. Asleep' = Asleep
    BY AsleepIsBoolean, AsleepIsBooleanNext
  <1>2. Owed' <=> Owed
    BY DEF Owed
  <1>3. Owed' = Owed
    BY <1>2, AsleepIsBoolean, AsleepIsBooleanNext
  <1> QED
    BY <1>1, <1>3 DEF Abstract!vars

(***************************************************************************)
(* Inside pop(), and before the exchange of canSleep(), the queue is       *)
(* awake.                                                                  *)
(***************************************************************************)
LEMMA AwakeInPop ==
    ASSUME QInv, cpc \notin {"idle", "linkSleeping"}
    PROVE  ~Asleep
  BY DEF QInv, Locals, Asleep

(***************************************************************************)
(* The exchange on head is the abstract push.                              *)
(***************************************************************************)
LEMMA PushRefines ==
    ASSUME QInv, NEW p \in Producers, NEW n \in Items, Exchange(p, n)
    PROVE  Abstract!Push(n)
  <1>1. PICK ch : ChainOK(ch)
    BY DEF QInv
  <1>2. /\ pushed \in Seq(Items) /\ popped \in Seq(Items) /\ Len(popped) <= Len(pushed)
        /\ Len(pushed) \in Nat /\ Len(popped) \in Nat /\ DOMAIN pushed = 1..Len(pushed)
    BY <1>1, ChainFacts DEF QInv
  <1>3. n \notin ToSet(pushed) /\ pushed' = Append(pushed, n) /\ UNCHANGED cvars
    BY DEF Exchange
  <1>4. \A i \in DOMAIN pushed : pushed[i] # n
    BY <1>3 DEF ToSet
  <1>5. popped' = popped /\ Asleep' = Asleep
    BY <1>3 DEF cvars, Asleep
  <1>6. popped' # pushed'
    <2>1. Len(pushed') = Len(pushed) + 1
      BY <1>2, <1>3, AppendProperties
    <2> QED
      BY <1>2, <1>5, <2>1
  <1>7. Owed' <=> Asleep
    BY <1>5, <1>6 DEF Owed
  <1>8. Owed' = Asleep
    BY <1>7, AsleepIsBoolean, AsleepIsBooleanNext
  <1> QED
    BY <1>3, <1>4, <1>5, <1>8 DEF Abstract!Push

(***************************************************************************)
(* A call of the consumer wakes the abstract queue or is a stutter.        *)
(***************************************************************************)
LEMMA CallRefines ==
    ASSUME QInv, CallPop \/ CallCanSleep
    PROVE  Abstract!WakeUp \/ UNCHANGED Abstract!vars
  <1>1. pushed' = pushed /\ popped' = popped /\ cpc' # "linkSleeping"
    BY DEF CallPop, CallCanSleep
  <1>2. ~maySleep'
    BY Zenon DEF CallPop, CallCanSleep
  <1>3. ~Asleep' /\ ~Owed'
    BY <1>1, <1>2 DEF Asleep, Owed
  <1>4. CASE Asleep
    <2>1. Asleep' = FALSE /\ Owed' = FALSE
      BY <1>3, AsleepIsBooleanNext
    <2> QED
      BY <1>1, <1>4, <2>1 DEF Abstract!WakeUp
  <1>5. CASE ~Asleep
    BY <1>1, <1>3, <1>5, Stutter
  <1> QED
    BY <1>4, <1>5

(***************************************************************************)
(* A step of pop() is the abstract pop or a stutter.                       *)
(***************************************************************************)
LEMMA PopRefines ==
    ASSUME QInv, PopStep
    PROVE  Abstract!Pop \/ UNCHANGED Abstract!vars
  <1>1. CASE TakeOut
    <2>1. cpc \in {"first", "second", "last"} /\ pushed' = pushed /\ cpc' \in {"first", "idle"}
      BY <1>1 DEF TakeOut, Return
    <2>2. /\ maySleep' = maySleep
          /\ \/ tail = Sleeping /\ popped' = popped
             \/ /\ tail \in Items /\ popped' = Append(popped, tail)
                /\ Len(popped) < Len(pushed) /\ pushed[Len(popped) + 1] = tail
      BY <1>1, TakeOutInv
    <2>3. ~Asleep
      BY <2>1, AwakeInPop
    <2>4. ~Asleep'
      BY <2>1, <2>2, <2>3 DEF Asleep
    <2>5. CASE popped' = popped
      BY <2>1, <2>3, <2>4, <2>5, Stutter
    <2>6. CASE popped' # popped
      <3>1. (Asleep' <=> Asleep) /\ (Owed' <=> Owed)
        BY <2>3, <2>4 DEF Owed
      <3>2. Asleep' = Asleep /\ Owed' = Owed
        BY <3>1, AsleepIsBoolean, AsleepIsBooleanNext
      <3> QED
        BY <2>1, <2>2, <2>3, <2>6, <3>2 DEF Abstract!Pop
    <2> QED
      BY <2>5, <2>6
  <1>2. CASE StepOver \/ GoHead \/ HeadIsLast \/ PopStub \/ PopLinkStub \/ ComesBackEmpty
    <2>1. /\ cpc \notin {"idle", "linkSleeping"} /\ cpc' # "linkSleeping" /\ maySleep' = maySleep
          /\ pushed' = pushed /\ popped' = popped
      BY <1>2, DistinctNodes
         DEF StepOver, GoHead, HeadIsLast, PopStub, PopLinkStub, ComesBackEmpty, Goto, Return
    <2>2. ~Asleep
      BY <2>1, AwakeInPop
    <2>3. ~Asleep'
      BY <2>1, <2>2 DEF Asleep
    <2> QED
      BY <2>1, <2>2, <2>3, Stutter
  <1> QED
    BY <1>1, <1>2, PopSteps

(***************************************************************************)
(* A step of canSleep() falls asleep or is a stutter.                      *)
(***************************************************************************)
LEMMA SleepRefines ==
    ASSUME QInv, SleepStep
    PROVE  Abstract!FallAsleep \/ UNCHANGED Abstract!vars
  <1>1. CASE SleepLink
    <2>1. pushed' = pushed /\ popped' = popped
      BY <1>1 DEF SleepLink
    <2> QED
      BY <1>1, <2>1, SleepLinkInv, Stutter
  <1>2. CASE SleepExchange
    <2>1. pushed' = pushed /\ popped' = popped
      BY <1>2 DEF SleepExchange, Goto
    <2>2. ~Asleep /\ (Asleep' => popped = pushed)
      BY <1>2, SleepExchangeInv
    <2>3. CASE ~Asleep'
      BY <2>1, <2>2, <2>3, Stutter
    <2>4. CASE Asleep'
      <3>1. Owed' <=> Owed
        BY <2>1, <2>2, <2>4 DEF Owed
      <3>2. Owed' = Owed /\ Asleep' = TRUE
        BY <2>4, <3>1, AsleepIsBoolean, AsleepIsBooleanNext
      <3> QED
        BY <2>1, <2>2, <2>4, <3>2 DEF Abstract!FallAsleep
    <2> QED
      BY <2>3, <2>4
  <1> QED
    BY <1>1, <1>2 DEF SleepStep

(***************************************************************************)
(* Every step of the queue is a step or a stutter of the abstract one.     *)
(***************************************************************************)
LEMMA StepRefines ==
    ASSUME QInv, [QNext]_qvars
    PROVE  [Abstract!Next]_(Abstract!vars)
  <1>1. CASE UNCHANGED qvars
    BY <1>1, Stutter DEF qvars, cvars, Asleep
  <1>2. ASSUME NEW p \in Producers, NEW n \in Items, Exchange(p, n)
        PROVE  Abstract!Next
    BY <1>2, PushRefines DEF Abstract!Next
  <1>3. ASSUME NEW p \in Producers, Link(p) \/ PushReturns(p)
        PROVE  UNCHANGED Abstract!vars
    BY <1>3, Stutter DEF Link, PushReturns, cvars, Asleep
  <1>4. CASE CallPop \/ CallCanSleep
    BY <1>4, CallRefines DEF Abstract!Next
  <1>5. CASE PopStep
    BY <1>5, PopRefines DEF Abstract!Next
  <1>6. CASE SleepStep
    BY <1>6, SleepRefines DEF Abstract!Next
  <1> QED
    BY <1>1, <1>2, <1>3, <1>4, <1>5, <1>6 DEF QNext, InCall

(***************************************************************************)
(* An initial queue is an initial abstract queue.                          *)
(***************************************************************************)
LEMMA InitRefines ==
    ASSUME QInit
    PROVE  Abstract!Init
  <1>1. pushed = <<>> /\ popped = <<>> /\ cpc = "idle"
    BY DEF QInit
  <1>2. ~maySleep
    BY Zenon DEF QInit
  <1>3. ~Asleep /\ ~Owed
    BY <1>1, <1>2 DEF Asleep, Owed
  <1>4. Asleep = FALSE /\ Owed = FALSE
    BY <1>3, AsleepIsBoolean
  <1> QED
    BY <1>1, <1>4 DEF Abstract!Init

(***************************************************************************)
(* An empty-handed return is one of ComesBackEmpty.                        *)
(***************************************************************************)
LEMMA EmptyStep ==
    ASSUME QInv, PopStep, cpc' = "idle", result' = Null
    PROVE  popped = pushed \/ ~quiet
  <1>1. tail \in Nodes
    BY DEF QInv, TypeOK
  <1>2. ASSUME TakeOut
        PROVE  FALSE
    <2>1. Return(tail)
      BY <1>2 DEF TakeOut
    <2>2. result' = tail
      BY <2>1 DEF Return
    <2> QED
      BY <1>1, <2>2, DistinctNodes
  <1>3. ComesBackEmpty
    BY <1>2, PopSteps DEF StepOver, GoHead, HeadIsLast, PopStub, PopLinkStub, Goto
  <1> QED
    BY <1>3, ComesBackEmptyInv

(***************************************************************************)
(* While the consumer is asleep the sleeping node is the head exactly when *)
(* nothing was pushed since.                                               *)
(***************************************************************************)
LEMMA AsleepHead ==
    ASSUME QInv, Asleep
    PROVE  head = Sleeping <=> popped = pushed
  <1>1. TypeOK /\ Locals
    BY DEF QInv
  <1>2. PICK ch : ChainOK(ch)
    BY DEF QInv
  <1>3. /\ ch \in Seq(Nodes) /\ Len(ch) \in Nat /\ pushed \in Seq(Items) /\ popped \in Seq(Items)
        /\ \A i, j \in 1..Len(ch) : ch[i] = ch[j] => i = j
        /\ \A i \in 1..Len(ch) : ch[i] \in Nodes
    BY <1>1, <1>2, ChainFacts
  <1>4. /\ Len(ch) >= 2 /\ ch[1] = Stub /\ ch[2] = Sleeping /\ ch[Len(ch)] = head
        /\ Content(ch, pushed, popped)
    BY <1>2 DEF ChainOK, Special
  <1>5. 1 \in 1..Len(ch) /\ 2 \in 1..Len(ch) /\ Len(ch) \in 1..Len(ch)
    BY <1>3, <1>4
  <1>6. (popped = pushed) <=> \A i \in 1..Len(ch) : ch[i] \notin Items
    BY <1>3, <1>4, ContentEmpty
  <1>7. ASSUME head = Sleeping
        PROVE  popped = pushed
    <2>1. Len(ch) = 2
      BY <1>3, <1>4, <1>5, <1>7
    <2>2. \A i \in 1..Len(ch) : i = 1 \/ i = 2
      BY <2>1
    <2> QED
      BY <1>4, <1>6, <2>2, DistinctNodes
  <1>8. ASSUME popped = pushed
        PROVE  head = Sleeping
    <2>1. head \in {Stub, Sleeping}
      BY <1>3, <1>4, <1>5, <1>6, <1>8 DEF Nodes
    <2>2. head # Stub
      BY <1>3, <1>4, <1>5
    <2> QED
      BY <2>1, <2>2
  <1> QED
    BY <1>7, <1>8

(***************************************************************************)
(* The first push after the queue fell asleep, and no other, sees the      *)
(* sleeping node, which is what makes push() report that it has to wake    *)
(* the loop.                                                               *)
(***************************************************************************)
LEMMA ReportStep ==
    ASSUME QInv, [QNext]_qvars, NEW p \in Producers, Asleep, ppc[p] = "idle", ppc'[p] = "link"
    PROVE  pprev'[p] = Sleeping <=> popped = pushed
  <1>1. /\ ppc \in [Producers -> {"idle", "link", "linked"}]
        /\ pprev \in [Producers -> Nodes \union {Null}]
    BY DEF QInv, TypeOK
  <1>2. ppc' # ppc
    OBVIOUS
  <1>3. PICK q \in Producers : (\E n \in Items : Exchange(q, n)) \/ Link(q) \/ PushReturns(q)
    BY <1>2 DEF QNext, InCall, PopStep, SleepStep, qvars, pvars, CallPop, CallCanSleep, PopFirst,
                PopSecond, PopHead, PopStub, PopLinkStub, PopLast, SleepExchange, SleepLink
  <1>4. \E n \in Items : Exchange(p, n)
    <2>1. ~Link(q) /\ ~PushReturns(q)
      BY <1>1 DEF Link, PushReturns
    <2>2. PICK n \in Items : Exchange(q, n)
      BY <1>3, <2>1
    <2>3. q = p
      BY <1>1, <2>2 DEF Exchange
    <2> QED
      BY <2>2, <2>3
  <1>5. pprev'[p] = head
    BY <1>1, <1>4 DEF Exchange
  <1> QED
    BY <1>5, AsleepHead

(***************************************************************************)
(* "If canSleep returns true, then the queue is empty and the next push()  *)
(* will return true" (ThreadSafeQueue.h), as an implementation of          *)
(* WakeableQueue, and pop() is empty-handed only with a reason.            *)
(***************************************************************************)
THEOREM QueueKeepsItsPromise == QSpec => QueueIsRight
  <1>1. QInit => QInv
    BY QInitInv
  <1>2. QInv /\ [QNext]_qvars => QInv'
    BY QStepInv
  <1>3. QInit => Abstract!Init
    BY InitRefines
  <1>4. QInv /\ [QNext]_qvars => [Abstract!Next]_(Abstract!vars)
    BY StepRefines
  <1>5. QInv /\ [QNext]_qvars =>
           [(PopStep /\ cpc' = "idle" /\ result' = Null) => popped = pushed \/ ~quiet]_qvars
    BY EmptyStep
  <1>6. QInv /\ [QNext]_qvars =>
           [\A p \in Producers : (Asleep /\ ppc[p] = "idle" /\ ppc'[p] = "link") =>
               (pprev'[p] = Sleeping <=> popped = pushed)]_qvars
    BY ReportStep
  <1> QED
    BY <1>1, <1>2, <1>3, <1>4, <1>5, <1>6, PTL
       DEF QSpec, QueueIsRight, ImplementsQueue, Abstract!Spec, EmptyIsJustified, FirstPushReports

-----------------------------------------------------------------------------
\* The run loop and onMainThread use the queue only through its operations.

(***************************************************************************)
(* The loop and the posting threads use the queue by its operations only.  *)
(***************************************************************************)
LEMMA LoopUsesQueue ==
    ASSUME [Next]_vars
    PROVE  [QNext]_qvars
  BY DEF Next, vars, LoopStep, Top, Decide, React, Drain, DrainTakes, FinishLocal, RunTask, CheckYield, RunEnds,
         QueueStep, PostBegins, PostLinks, PostReturns, QNext

(***************************************************************************)
(* In the network thread's run loop, with any threads calling onMainThread,*)
(* the queue is memory safe and in order.                                  *)
(***************************************************************************)
THEOREM LoopQueueIsSafe == Spec => []QueueSafe
  <1>1. Init => QInit
    BY DEF Init
  <1>2. [Next]_vars => [QNext]_qvars
    BY LoopUsesQueue
  <1>3. Spec => QSpec
    BY <1>1, <1>2, PTL DEF Spec, QSpec
  <1> QED
    BY <1>3, QueueIsSafe, PTL

(***************************************************************************)
(* In the network thread's run loop the queue keeps its promises: the loop *)
(* that canSleep() let sleep is owed a wakeup by the next push, and that   *)
(* push reports it.                                                        *)
(***************************************************************************)
THEOREM LoopQueueIsRight == Spec => QueueIsRight
  <1>1. Init => QInit
    BY DEF Init
  <1>2. [Next]_vars => [QNext]_qvars
    BY LoopUsesQueue
  <1>3. Spec => QSpec
    BY <1>1, <1>2, PTL DEF Spec, QSpec
  <1> QED
    BY <1>3, QueueKeepsItsPromise, PTL

-----------------------------------------------------------------------------
\* The order in which tasks of one priority were pushed.

(***************************************************************************)
(* Of one priority, x was pushed before y.                                 *)
(***************************************************************************)
Before(pu, x, y) ==
    /\ Priority[x] = Priority[y]
    /\ \E k, l \in 1..Len(pu) : k < l /\ pu[k] = x /\ pu[l] = y

(***************************************************************************)
(* The sequence s keeps that order.                                        *)
(***************************************************************************)
InOrder(pu, s) == \A a, b \in 1..Len(s) : Before(pu, s[a], s[b]) => a < b

(***************************************************************************)
(* The ready tasks and the ones that ran keep it, and nothing that ran     *)
(* overtook a ready task.                                                  *)
(***************************************************************************)
Orderly(pu, rd, rn) ==
    /\ InOrder(pu, rd) /\ InOrder(pu, rn)
    /\ \A x \in ToSet(rd), y \in ToSet(rn) : ~Before(pu, x, y)

(***************************************************************************)
(* The order is about pushed items.                                        *)
(***************************************************************************)
LEMMA BeforeItems ==
    ASSUME NEW pu \in Seq(Items), NEW x, NEW y, Before(pu, x, y)
    PROVE  x \in Items /\ y \in Items /\ Priority[x] = Priority[y]
  BY ElementOfSeq DEF Before

(***************************************************************************)
(* No item comes before itself.                                            *)
(***************************************************************************)
LEMMA BeforeDifferent ==
    ASSUME NEW pu \in Seq(Items), Distinct(pu), NEW x
    PROVE  ~Before(pu, x, x)
  <1>1. Len(pu) \in Nat
    BY LenProperties
  <1> QED
    BY <1>1 DEF Before, Distinct

(***************************************************************************)
(* A push orders no two earlier items.                                     *)
(***************************************************************************)
LEMMA BeforeAppend ==
    ASSUME NEW pu \in Seq(Items), NEW n \in Items, NEW x, NEW y, y # n,
           Before(Append(pu, n), x, y)
    PROVE  Before(pu, x, y)
  <1> DEFINE pv == Append(pu, n)
  <1>1. /\ Len(pu) \in Nat /\ Len(pv) = Len(pu) + 1 /\ pv[Len(pu) + 1] = n
        /\ \A k \in 1..Len(pu) : pv[k] = pu[k]
    BY AppendProperties, LenProperties
  <1> HIDE DEF pv
  <1>2. PICK k \in 1..Len(pv), l \in 1..Len(pv) : k < l /\ pv[k] = x /\ pv[l] = y
    BY DEF Before, pv
  <1>3. l \in 1..Len(pu) /\ k \in 1..Len(pu)
    BY <1>1, <1>2
  <1> QED
    BY <1>1, <1>2, <1>3 DEF Before

(***************************************************************************)
(* A push leaves the tasks the loop has in order.                          *)
(***************************************************************************)
LEMMA OrderlyPush ==
    ASSUME NEW pu \in Seq(Items), NEW rd \in Seq(Tasks), NEW rn \in Seq(Tasks), Orderly(pu, rd, rn),
           NEW n \in Items, n \notin ToSet(rd), n \notin ToSet(rn)
    PROVE  Orderly(Append(pu, n), rd, rn)
  <1>1. \A x : x \in ToSet(rd) <=> \E i \in 1..Len(rd) : rd[i] = x
    BY ONLY rd \in Seq(Tasks), ToSetMember
  <1>2. \A x : x \in ToSet(rn) <=> \E i \in 1..Len(rn) : rn[i] = x
    BY ONLY rn \in Seq(Tasks), ToSetMember
  <1>3. \A x, y : Before(Append(pu, n), x, y) /\ y # n => Before(pu, x, y)
    BY BeforeAppend
  <1> QED
    BY <1>1, <1>2, <1>3 DEF Orderly, InOrder

(***************************************************************************)
(* An element that comes before none of the others may go to the end.      *)
(***************************************************************************)
LEMMA InOrderAppend ==
    ASSUME NEW pu, NEW s \in Seq(Tasks), InOrder(pu, s), NEW x \in Tasks,
           \A y \in ToSet(s) : ~Before(pu, x, y), ~Before(pu, x, x)
    PROVE  InOrder(pu, Append(s, x))
  <1> DEFINE t == Append(s, x)
  <1>1. /\ Len(t) = Len(s) + 1 /\ t[Len(s) + 1] = x /\ \A i \in 1..Len(s) : t[i] = s[i]
    BY AppendProperties
  <1>2. /\ Len(s) \in Nat
        /\ \A y : y \in ToSet(s) <=> \E i \in 1..Len(s) : s[i] = y
    BY ONLY s \in Seq(Tasks), ToSetMember
  <1> HIDE DEF t
  <1>3. ASSUME NEW a \in 1..Len(t), NEW b \in 1..Len(t), Before(pu, t[a], t[b])
        PROVE  a < b
    <2>1. CASE a = Len(s) + 1
      <3>1. b \in 1..Len(s) \/ b = Len(s) + 1
        BY <1>1, <1>2
      <3> QED
        BY <1>1, <1>2, <1>3, <2>1, <3>1
    <2>2. CASE a \in 1..Len(s) /\ b = Len(s) + 1
      BY <1>2, <2>2
    <2>3. CASE a \in 1..Len(s) /\ b \in 1..Len(s)
      BY <1>1, <1>3, <2>3 DEF InOrder
    <2> QED
      BY <1>1, <1>2, <2>1, <2>2, <2>3
  <1> QED
    BY <1>3 DEF InOrder, t

(***************************************************************************)
(* So may a task that becomes ready.                                       *)
(***************************************************************************)
LEMMA OrderlyAppend ==
    ASSUME NEW pu \in Seq(Items), Distinct(pu), NEW rd \in Seq(Tasks), NEW rn \in Seq(Tasks),
           Orderly(pu, rd, rn), NEW x \in Tasks,
           \A y \in ToSet(rd) \union ToSet(rn) : ~Before(pu, x, y)
    PROVE  Orderly(pu, Append(rd, x), rn)
  <1>1. ~Before(pu, x, x)
    BY BeforeDifferent
  <1>2. InOrder(pu, rd)
    BY DEF Orderly
  <1>3. InOrder(pu, Append(rd, x))
    BY <1>1, <1>2, InOrderAppend
  <1>4. ToSet(Append(rd, x)) = ToSet(rd) \union {x}
    BY AppendDistinct
  <1> QED
    BY <1>3, <1>4 DEF Orderly

(***************************************************************************)
(* Timers and tasks of the loop itself may go to the front: they were      *)
(* never pushed.                                                           *)
(***************************************************************************)
LEMMA OrderlyFront ==
    ASSUME NEW pu \in Seq(Items), NEW rd \in Seq(Tasks), NEW rn \in Seq(Tasks), Orderly(pu, rd, rn),
           NEW f \in Seq(Tasks), ToSet(f) \intersect Items = {},
           Distinct(f), Distinct(rd), ToSet(f) \intersect ToSet(rd) = {}
    PROVE  Orderly(pu, f \o rd, rn)
  <1> DEFINE t == f \o rd
  <1>1. /\ Len(t) = Len(f) + Len(rd)
        /\ \A i \in 1..(Len(f) + Len(rd)) : t[i] = IF i <= Len(f) THEN f[i] ELSE rd[i - Len(f)]
        /\ ToSet(t) = ToSet(f) \union ToSet(rd)
    BY ConcatDistinct
  <1>2. /\ Len(f) \in Nat /\ Len(rd) \in Nat
    BY LenProperties
  <1>3. \A x : x \in ToSet(f) <=> \E i \in 1..Len(f) : f[i] = x
    BY ONLY f \in Seq(Tasks), ToSetMember
  <1> HIDE DEF t
  <1>4. \A x, y : Before(pu, x, y) => x \in Items /\ y \in Items
    BY BeforeItems
  <1>5. ASSUME NEW a \in 1..Len(t), NEW b \in 1..Len(t), Before(pu, t[a], t[b])
        PROVE  a < b
    <2>1. \A i \in 1..Len(t) : t[i] \in Items =>
             i > Len(f) /\ i - Len(f) \in 1..Len(rd) /\ t[i] = rd[i - Len(f)]
      <3> SUFFICES ASSUME NEW i \in 1..Len(t), t[i] \in Items
                   PROVE  i > Len(f) /\ i - Len(f) \in 1..Len(rd) /\ t[i] = rd[i - Len(f)]
        OBVIOUS
      <3>1. ~(i <= Len(f))
        <4> SUFFICES ASSUME i <= Len(f) PROVE FALSE
          OBVIOUS
        <4>1. i \in 1..Len(f) /\ t[i] = f[i]
          BY <1>1, <1>2
        <4> QED
          BY <1>3, <4>1
      <3> QED
        BY <1>1, <1>2, <3>1
    <2>2. t[a] \in Items /\ t[b] \in Items
      BY <1>4, <1>5
    <2> DEFINE p == a - Len(f)
               q == b - Len(f)
    <2>3. p \in 1..Len(rd) /\ q \in 1..Len(rd) /\ t[a] = rd[p] /\ t[b] = rd[q]
      BY <2>1, <2>2
    <2> HIDE DEF p, q
    <2>4. p < q
      BY <1>5, <2>3 DEF Orderly, InOrder
    <2> QED
      BY <1>2, <2>4 DEF p, q
  <1>6. \A x \in ToSet(t), y \in ToSet(rn) : ~Before(pu, x, y)
    BY <1>1, <1>4 DEF Orderly
  <1>7. InOrder(pu, rn)
    BY DEF Orderly
  <1> QED
    BY <1>5, <1>6, <1>7 DEF Orderly, InOrder, t

(***************************************************************************)
(* The top task is run: nothing of its priority that is ready was pushed   *)
(* before it.                                                              *)
(***************************************************************************)
LEMMA OrderlyRun ==
    ASSUME NEW pu \in Seq(Items), Distinct(pu), NEW rd \in Seq(Tasks), NEW rn \in Seq(Tasks),
           Orderly(pu, rd, rn), Distinct(rd), NEW i \in 1..Len(rd),
           \A j \in 1..Len(rd) : Priority[rd[j]] = Priority[rd[i]] => i <= j
    PROVE  Orderly(pu, RemoveAt(rd, i), Append(rn, rd[i]))
  <1> DEFINE t == RemoveAt(rd, i)
             x == rd[i]
  <1>1. /\ t \in Seq(Tasks) /\ Len(t) = Len(rd) - 1
        /\ \A j \in 1..(Len(rd) - 1) : t[j] = IF j < i THEN rd[j] ELSE rd[j + 1]
        /\ ToSet(t) = ToSet(rd) \ {rd[i]}
    BY ONLY rd \in Seq(Tasks), Distinct(rd), i \in 1..Len(rd), RemoveDistinct
  <1>2. Len(rd) \in Nat /\ (\A y : y \in ToSet(rd) <=> \E j \in 1..Len(rd) : rd[j] = y)
    BY ONLY rd \in Seq(Tasks), ToSetMember
  <1>3. x \in Tasks /\ x \in ToSet(rd)
    BY <1>2, ElementOfSeq
  <1>4. InOrder(pu, rd) /\ InOrder(pu, rn) /\ \A y \in ToSet(rd), z \in ToSet(rn) : ~Before(pu, y, z)
    BY DEF Orderly
  <1>5. InOrder(pu, Append(rn, x))
    <2>1. \A y \in ToSet(rn) : ~Before(pu, x, y)
      BY <1>3, <1>4
    <2>2. ~Before(pu, x, x)
      BY BeforeDifferent
    <2> HIDE DEF x
    <2> QED
      BY <1>3, <1>4, <2>1, <2>2, InOrderAppend
  <1>6. ToSet(Append(rn, x)) = ToSet(rn) \union {x}
    BY <1>3, AppendDistinct
  <1>7. ASSUME NEW y \in ToSet(rd), Before(pu, y, x)
        PROVE  FALSE
    <2>1. PICK j \in 1..Len(rd) : rd[j] = y
      BY <1>2
    <2>2. j < i
      BY <1>4, <1>7, <2>1 DEF InOrder
    <2>3. Priority[rd[j]] = Priority[rd[i]]
      BY <1>7, <2>1 DEF Before
    <2> QED
      BY <1>2, <2>2, <2>3
  <1> HIDE DEF t
  <1>8. ASSUME NEW a \in 1..Len(t), NEW b \in 1..Len(t), Before(pu, t[a], t[b])
        PROVE  a < b
    <2> DEFINE p == IF a < i THEN a ELSE a + 1
               q == IF b < i THEN b ELSE b + 1
    <2>1. p \in 1..Len(rd) /\ q \in 1..Len(rd) /\ t[a] = rd[p] /\ t[b] = rd[q]
      BY <1>1, <1>2
    <2>2. p < q => a < b
      BY <1>1, <1>2
    <2> HIDE DEF p, q
    <2>3. p < q
      BY <1>4, <1>8, <2>1 DEF InOrder
    <2> QED
      BY <2>2, <2>3
  <1>9. \A y \in ToSet(t), z \in ToSet(Append(rn, x)) : ~Before(pu, y, z)
    BY <1>1, <1>4, <1>6, <1>7
  <1> QED
    BY <1>5, <1>8, <1>9 DEF Orderly, InOrder, t

-----------------------------------------------------------------------------
\* The invariant of the run loop.

(***************************************************************************)
(* Which call the loop waits for, and that it sleeps only with permission. *)
(***************************************************************************)
Control ==
    /\ cpc \in {"first", "second", "head", "stub", "linkStub", "last"} => lpc = "take"
    /\ cpc \in {"sleep", "linkSleeping"} => lpc = "decide"
    /\ lpc \in {"sleep", "nap"} => maySleep

(***************************************************************************)
(* From the exchange of canSleep() on, a push is seen by a handler that is *)
(* posted or by a producer that will post one.                             *)
(***************************************************************************)
Waker == \E p \in Producers : ppc[p] # "idle" /\ pprev[p] = Sleeping

(***************************************************************************)
(* While the loop is about to sleep, or sleeps, and a push came after      *)
(* canSleep(), the wakeup is posted or a producer will post it.            *)
(***************************************************************************)
Awaited ==
    (lpc \in {"decide", "sleep", "nap"} /\ Asleep /\ popped # pushed /\ ~posted) => Waker

(***************************************************************************)
(* Where a task is: po was popped, rd is ready, rn was run, tm are timers, *)
(* tr was popped and is not ready yet.                                     *)
(***************************************************************************)
Once(po, rd, rn, tm, tr) ==
    /\ Distinct(rd) /\ Distinct(rn) /\ ToSet(rd) \intersect ToSet(rn) = {}
    /\ tm \intersect (ToSet(rd) \union ToSet(rn)) = {}
    /\ ToSet(po) = (ToSet(rd) \union ToSet(rn) \union tr) \ Own
    /\ tr \intersect (ToSet(rd) \union ToSet(rn)) = {}
    /\ \A x \in tr : x \in Items /\ Len(po) >= 1 /\ po[Len(po)] = x

(***************************************************************************)
(* The inductive invariant of the loop with its queue.                     *)
(***************************************************************************)
LoopInv ==
    /\ LoopTypeOK /\ QInv /\ Control /\ Awaited
    /\ Once(popped, ready, ran, timers, InTransit)
    /\ Orderly(pushed, ready, ran)

(***************************************************************************)
(* Tasks are the pushed items and the loop's own.                          *)
(***************************************************************************)
LEMMA TaskKinds == Items \subseteq Tasks /\ Items \intersect Own = {} /\ Own \subseteq Tasks
  BY LocalAssumption DEF Tasks, Own, Nodes

(***************************************************************************)
(* What the queue invariant says of the pushes and the pops.               *)
(***************************************************************************)
LEMMA QueueOrder ==
    ASSUME QInv
    PROVE  /\ pushed \in Seq(Items) /\ popped \in Seq(Items)
           /\ Len(pushed) \in Nat /\ Len(popped) \in Nat /\ Len(popped) <= Len(pushed)
           /\ Distinct(pushed) /\ Distinct(popped)
           /\ \A k \in 1..Len(popped) : k \in 1..Len(pushed) /\ popped[k] = pushed[k]
           /\ ToSet(popped) \subseteq ToSet(pushed) /\ ToSet(pushed) \subseteq Items
           /\ Null \notin Items /\ TypeOK
  <1>1. TypeOK /\ Locals
    BY DEF QInv
  <1>2. PICK ch : ChainOK(ch)
    BY DEF QInv
  <1>3. /\ pushed \in Seq(Items) /\ popped \in Seq(Items)
        /\ Len(pushed) \in Nat /\ Len(popped) \in Nat /\ Len(popped) <= Len(pushed)
    BY <1>1, <1>2, ChainFacts
  <1>4. /\ \A k, l \in 1..Len(pushed) : pushed[k] = pushed[l] => k = l
        /\ \A k \in 1..Len(popped) : popped[k] = pushed[k]
    BY <1>2 DEF ChainOK, Content
  <1>5. \A k \in 1..Len(popped) : k \in 1..Len(pushed)
    BY <1>3
  <1>6. Distinct(pushed) /\ Distinct(popped)
    BY <1>4, <1>5 DEF Distinct
  <1>7. /\ \A x : x \in ToSet(pushed) <=> \E i \in 1..Len(pushed) : pushed[i] = x
        /\ ToSet(pushed) \subseteq Items
    BY ONLY <1>3, ToSetMember
  <1>8. \A x : x \in ToSet(popped) <=> \E i \in 1..Len(popped) : popped[i] = x
    BY ONLY <1>3, ToSetMember
  <1>9. ToSet(popped) \subseteq ToSet(pushed)
    BY <1>4, <1>5, <1>7, <1>8
  <1> QED
    BY <1>1, <1>3, <1>4, <1>5, <1>6, <1>7, <1>9, DistinctNodes

(***************************************************************************)
(* An item that is ready or was run was popped.                            *)
(***************************************************************************)
LEMMA TakenWasPopped ==
    ASSUME LoopInv, NEW x \in Items, x \in ToSet(ready) \/ x \in ToSet(ran)
    PROVE  x \in ToSet(popped) /\ x \in ToSet(pushed)
  BY TaskKinds, QueueOrder DEF LoopInv, Once

(***************************************************************************)
(* What the types say of the loop's variables.                             *)
(***************************************************************************)
LEMMA LoopTypes ==
    ASSUME LoopInv
    PROVE  /\ lpc \in {"top", "decide", "sleep", "nap", "react", "drain", "take", "run"}
           /\ caller \in {"loop", "task", "yield"} /\ timers \subseteq Timed /\ posted \in BOOLEAN
           /\ ready \in Seq(Tasks) /\ ran \in Seq(Tasks) /\ QInv
  BY DEF LoopInv, LoopTypeOK

(***************************************************************************)
(* The parts of the next state's invariant, put together.                  *)
(***************************************************************************)
LEMMA LoopAssemble ==
    ASSUME QInv', Control', Awaited', Once(popped', ready', ran', timers', InTransit'),
           Orderly(pushed', ready', ran'),
           lpc' \in {"top", "decide", "sleep", "nap", "react", "drain", "take", "run"},
           caller' \in {"loop", "task", "yield"}, timers' \subseteq Timed, posted' \in BOOLEAN,
           ready' \in Seq(Tasks), ran' \in Seq(Tasks)
    PROVE  LoopInv'
  BY DEF LoopInv, LoopTypeOK, QInv

(***************************************************************************)
(* It holds when the loop starts.                                          *)
(***************************************************************************)
LEMMA LoopInitInv ==
    ASSUME Init
    PROVE  LoopInv
  <1>1. QInit /\ lpc = "top" /\ caller = "loop" /\ timers = Timed /\ ready = <<>> /\ ran = <<>>
    BY DEF Init
  <1>2. posted \in BOOLEAN
    BY Zenon DEF Init
  <1>3. QInv
    BY <1>1, QInitInv
  <1>4. cpc = "idle" /\ pushed = <<>> /\ popped = <<>>
    BY <1>1 DEF QInit
  <1>5. InTransit = {}
    BY <1>1 DEF InTransit
  <1>6. Len(<<>>) = 0 /\ ToSet(<<>>) = {} /\ <<>> \in Seq(Tasks)
    BY EmptySeq DEF ToSet
  <1>7. Distinct(<<>>)
    BY <1>6 DEF Distinct
  <1>8. Once(popped, ready, ran, timers, InTransit)
    BY <1>1, <1>4, <1>5, <1>6, <1>7 DEF Once
  <1>9. Orderly(pushed, ready, ran)
    BY <1>1, <1>4, <1>6 DEF Orderly, InOrder
  <1>10. Control /\ Awaited
    BY <1>1, <1>4 DEF Control, Awaited
  <1>11. LoopTypeOK
    BY <1>1, <1>2, <1>3, <1>6 DEF LoopTypeOK, QInv
  <1> QED
    BY <1>3, <1>8, <1>9, <1>10, <1>11 DEF LoopInv

-----------------------------------------------------------------------------
\* onMainThread on other threads.

(***************************************************************************)
(* onMainThread() of another thread: push, and the post of a wakeup if the *)
(* push reports sleep.                                                     *)
(***************************************************************************)
LEMMA PostInv ==
    ASSUME LoopInv, QInv', NEW p \in Producers, PostBegins(p) \/ PostLinks(p) \/ PostReturns(p)
    PROVE  LoopInv'
  <1>1. /\ lpc' = lpc /\ caller' = caller /\ timers' = timers /\ ready' = ready /\ ran' = ran
        /\ cpc' = cpc /\ cprev' = cprev /\ maySleep' = maySleep /\ result' = result /\ popped' = popped
    BY DEF PostBegins, PostLinks, PostReturns, Exchange, Link, PushReturns, cvars, lvars
  <1>2. posted' \in BOOLEAN /\ (posted => posted') /\ (PostReturns(p) /\ PushResult(p) => posted')
    <2>1. CASE PostBegins(p) \/ PostLinks(p)
      <3>1. posted' = posted /\ posted \in BOOLEAN
        BY <2>1, LoopTypes DEF PostBegins, PostLinks, lvars
      <3>2. PostReturns(p) => posted' = (posted \/ PushResult(p))
        BY Zenon DEF PostReturns
      <3>3. PostReturns(p) /\ PushResult(p) => posted'
        BY <3>2, Zenon
      <3> QED
        BY <3>1, <3>3
    <2>2. CASE PostReturns(p)
      <3>1. posted' = (posted \/ PushResult(p))
        BY <2>2, Zenon DEF PostReturns
      <3> QED
        BY <3>1, Zenon
    <2> QED
      BY <2>1, <2>2
  <1>3. InTransit' = InTransit
    BY <1>1 DEF InTransit
  <1>4. Once(popped', ready', ran', timers', InTransit')
    BY <1>1, <1>3 DEF LoopInv
  <1>5. Control'
    BY <1>1 DEF LoopInv, Control
  <1>6. Orderly(pushed', ready', ran')
    <2>1. CASE PostBegins(p)
      <3>1. PICK n \in Items : Exchange(p, n)
        BY <2>1 DEF PostBegins
      <3>2. n \notin ToSet(pushed) /\ pushed' = Append(pushed, n)
        BY <3>1 DEF Exchange
      <3>3. n \notin ToSet(ready) /\ n \notin ToSet(ran)
        BY <3>2, TakenWasPopped
      <3>4. pushed \in Seq(Items) /\ ready \in Seq(Tasks) /\ ran \in Seq(Tasks)
        BY LoopTypes, QueueOrder
      <3>5. Orderly(Append(pushed, n), ready, ran)
        BY <3>3, <3>4, OrderlyPush DEF LoopInv
      <3> QED
        BY <1>1, <3>2, <3>5
    <2>2. CASE PostLinks(p) \/ PostReturns(p)
      BY <1>1, <2>2 DEF LoopInv, PostLinks, PostReturns, Link, PushReturns
    <2> QED
      BY <2>1, <2>2
  <1>7. Awaited'
    <2> SUFFICES ASSUME lpc \in {"decide", "sleep", "nap"}, Asleep, popped # pushed', ~posted'
                 PROVE  Waker'
      <3>1. Asleep' <=> Asleep
        BY <1>1 DEF Asleep
      <3> QED
        BY <1>1, <3>1 DEF Awaited
    <2>0. ~posted /\ QInv /\ Awaited
      BY <1>2 DEF LoopInv
    <2>1. /\ ppc \in [Producers -> {"idle", "link", "linked"}]
          /\ pprev \in [Producers -> Nodes \union {Null}]
      BY <2>0 DEF QInv, TypeOK
    <2>2. CASE PostBegins(p)
      <3>1. PICK n \in Items : Exchange(p, n)
        BY <2>2 DEF PostBegins
      <3>2. /\ ppc[p] = "idle" /\ ppc' = [ppc EXCEPT ![p] = "link"]
            /\ pprev' = [pprev EXCEPT ![p] = head]
        BY <3>1 DEF Exchange
      <3>3. CASE popped = pushed
        <4>1. head = Sleeping
          BY <2>0, <3>3, AsleepHead
        <4>2. ppc'[p] = "link" /\ pprev'[p] = Sleeping
          BY <2>1, <3>2, <4>1
        <4> QED
          BY <4>2 DEF Waker
      <3>4. CASE popped # pushed
        <4>1. PICK q \in Producers : ppc[q] # "idle" /\ pprev[q] = Sleeping
          BY <2>0, <3>4 DEF Awaited, Waker
        <4>2. ppc'[q] # "idle" /\ pprev'[q] = Sleeping
          BY <2>1, <3>2, <4>1
        <4> QED
          BY <4>2 DEF Waker
      <3> QED
        BY <3>3, <3>4
    <2>3. CASE PostLinks(p)
      <3>1. /\ ppc[p] = "link" /\ ppc' = [ppc EXCEPT ![p] = "linked"] /\ pprev' = pprev
            /\ pushed' = pushed
        BY <2>3 DEF PostLinks, Link
      <3>2. PICK q \in Producers : ppc[q] # "idle" /\ pprev[q] = Sleeping
        BY <2>0, <3>1 DEF Awaited, Waker
      <3>3. ppc'[q] # "idle" /\ pprev'[q] = Sleeping
        BY <2>1, <3>1, <3>2
      <3> QED
        BY <3>3 DEF Waker
    <2>4. CASE PostReturns(p)
      <3>1. /\ ppc' = [ppc EXCEPT ![p] = "idle"] /\ pprev' = [pprev EXCEPT ![p] = Null]
            /\ pushed' = pushed
        BY <2>4 DEF PostReturns, PushReturns
      <3>2. PICK q \in Producers : ppc[q] # "idle" /\ pprev[q] = Sleeping
        BY <2>0, <3>1 DEF Awaited, Waker
      <3>3. q # p
        BY <1>2, <2>4, <3>2 DEF PushResult
      <3>4. ppc'[q] # "idle" /\ pprev'[q] = Sleeping
        BY <2>1, <3>1, <3>2, <3>3
      <3> QED
        BY <3>4 DEF Waker
    <2> QED
      BY <2>2, <2>3, <2>4
  <1> QED
    BY <1>1, <1>2, <1>4, <1>5, <1>6, <1>7, LoopTypes, LoopAssemble

-----------------------------------------------------------------------------
\* The queue's part of the loop.

(***************************************************************************)
(* The steps of canSleep() inside the loop.                                *)
(***************************************************************************)
LEMMA SleepStepInv ==
    ASSUME LoopInv, QInv', SleepStep, UNCHANGED lvars
    PROVE  LoopInv'
  <1>1. /\ lpc' = lpc /\ caller' = caller /\ timers' = timers /\ ready' = ready /\ ran' = ran
        /\ posted' = posted
    BY DEF lvars
  <1>2. /\ cpc \in {"sleep", "linkSleeping"} /\ cpc' \in {"linkSleeping", "idle"}
        /\ popped' = popped /\ pushed' = pushed /\ ppc' = ppc /\ pprev' = pprev
    BY DEF SleepStep, SleepExchange, SleepLink, Goto, pvars
  <1>3. lpc = "decide"
    BY <1>2 DEF LoopInv, Control
  <1>4. InTransit = {} /\ InTransit' = {}
    BY <1>1, <1>3 DEF InTransit
  <1>5. Once(popped', ready', ran', timers', InTransit') /\ Orderly(pushed', ready', ran')
    BY <1>1, <1>2, <1>4 DEF LoopInv
  <1>6. Control'
    BY <1>1, <1>2, <1>3 DEF Control
  <1>7. Awaited'
    <2>1. QInv /\ Awaited
      BY DEF LoopInv
    <2>2. CASE SleepExchange
      <3>1. Asleep' => popped = pushed
        BY <2>1, <2>2, SleepExchangeInv
      <3> QED
        BY <1>2, <3>1 DEF Awaited
    <2>3. CASE SleepLink
      <3>1. Asleep' <=> Asleep
        BY <2>1, <2>3, SleepLinkInv
      <3> QED
        BY <1>1, <1>2, <2>1, <3>1 DEF Awaited, Waker
    <2> QED
      BY <2>2, <2>3 DEF SleepStep
  <1> QED
    BY <1>1, <1>5, <1>6, <1>7, LoopTypes, LoopAssemble

(***************************************************************************)
(* The steps of pop() inside the loop.                                     *)
(***************************************************************************)
LEMMA PopStepInv ==
    ASSUME LoopInv, QInv', PopStep, UNCHANGED lvars
    PROVE  LoopInv'
  <1>1. /\ lpc' = lpc /\ caller' = caller /\ timers' = timers /\ ready' = ready /\ ran' = ran
        /\ posted' = posted
    BY DEF lvars
  <1>2. cpc \in {"first", "second", "head", "stub", "linkStub", "last"} /\ pushed' = pushed
    BY DEF PopStep, PopFirst, PopSecond, PopHead, PopStub, PopLinkStub, PopLast
  <1>3. lpc = "take" /\ QInv /\ Once(popped, ready, ran, timers, InTransit)
    BY <1>2 DEF LoopInv, Control
  <1>4. InTransit = {}
    BY <1>2 DEF InTransit
  <1>5. cpc' \notin {"sleep", "linkSleeping"}
    BY <1>3, PopSteps
       DEF StepOver, TakeOut, GoHead, ComesBackEmpty, HeadIsLast, PopStub, PopLinkStub, Goto, Return
  <1>6. Control' /\ Awaited'
    BY <1>1, <1>3, <1>5 DEF Control, Awaited
  <1>7. Orderly(pushed', ready', ran')
    BY <1>1, <1>2 DEF LoopInv
  <1>8. Once(popped', ready', ran', timers', InTransit')
    <2>1. CASE StepOver \/ GoHead \/ HeadIsLast \/ PopStub \/ PopLinkStub \/ ComesBackEmpty
      <3>1. popped' = popped /\ (cpc' = "idle" => result' = Null)
        BY <2>1, DistinctNodes
           DEF StepOver, GoHead, HeadIsLast, PopStub, PopLinkStub, ComesBackEmpty, Goto, Return
      <3>2. InTransit' = {}
        BY <3>1 DEF InTransit
      <3> QED
        BY <1>1, <1>3, <1>4, <3>1, <3>2
    <2>2. CASE TakeOut
      <3>1. \/ tail = Sleeping /\ popped' = popped
            \/ tail \in Items /\ popped' = Append(popped, tail)
        BY <1>3, <2>2, TakeOutInv
      <3>2. CASE tail = Sleeping
        <4>1. popped' = popped
          BY <3>1, <3>2, DistinctNodes
        <4>2. result' \notin {Stub, Sleeping}
          BY DEF QInv, Locals
        <4>3. cpc' = "first"
          BY <2>2, <3>2, <4>2 DEF TakeOut, Return
        <4>4. InTransit' = {}
          BY <4>3 DEF InTransit
        <4> QED
          BY <1>1, <1>3, <1>4, <4>1, <4>4
      <3>3. CASE tail \in Items
        <4>1. popped' = Append(popped, tail) /\ popped \in Seq(Items)
          BY <1>3, <3>1, <3>3, DistinctNodes, QueueOrder
        <4>2. cpc' = "idle" /\ result' = tail
          BY <2>2, <3>3, DistinctNodes DEF TakeOut, Return
        <4>3. InTransit' = {tail}
          BY <1>1, <1>3, <3>3, <4>2, DistinctNodes DEF InTransit
        <4>4. /\ ToSet(popped') = ToSet(popped) \union {tail} /\ Len(popped') = Len(popped) + 1
              /\ popped'[Len(popped) + 1] = tail /\ Len(popped) \in Nat
              /\ \A i \in 1..Len(popped) : popped'[i] = popped[i]
          BY <3>3, <4>1, AppendDistinct, LenProperties
        <4>5. Distinct(popped')
          <5>1. \A k, l \in 1..Len(pushed') : pushed'[k] = pushed'[l] => k = l
            BY DEF QInv, ChainOK, Content
          <5>2. /\ Len(popped') <= Len(pushed')
                /\ \A k \in 1..Len(popped') : popped'[k] = pushed'[k]
            BY DEF QInv, ChainOK, Content
          <5>3. pushed' \in Seq(Items)
            BY DEF QInv, TypeOK
          <5>4. Len(pushed') \in Nat
            BY <5>3, LenProperties
          <5>5. \A k \in 1..Len(popped') : k \in 1..Len(pushed')
            BY <4>4, <5>2, <5>4
          <5> QED
            BY <5>1, <5>2, <5>5 DEF Distinct
        <4>6. tail \notin ToSet(popped)
          <5>1. \A x : x \in ToSet(popped) <=> \E i \in 1..Len(popped) : popped[i] = x
            BY ONLY <4>1, ToSetMember
          <5>2. ASSUME NEW i \in 1..Len(popped), popped[i] = tail
                PROVE  FALSE
            <6>1. i \in 1..Len(popped') /\ Len(popped) + 1 \in 1..Len(popped') /\ i # Len(popped) + 1
              BY <4>4
            <6> QED
              BY <4>4, <4>5, <5>2, <6>1 DEF Distinct
          <5> QED
            BY <5>1, <5>2
        <4>7. tail \notin Own /\ tail \notin ToSet(ready) /\ tail \notin ToSet(ran)
          BY <3>3, <4>6, TaskKinds, TakenWasPopped
        <4>8. Len(popped') >= 1 /\ popped'[Len(popped')] = tail
          BY <4>4
        <4> QED
          BY <1>1, <1>3, <1>4, <3>3, <4>3, <4>4, <4>7, <4>8 DEF Once
      <3> QED
        BY <3>1, <3>2, <3>3
    <2> QED
      BY <1>3, <2>1, <2>2, PopSteps
  <1> QED
    BY <1>1, <1>6, <1>7, <1>8, LoopTypes, LoopAssemble

-----------------------------------------------------------------------------
\* The steps of the run loop.

(***************************************************************************)
(* Outside the calls the loop makes, the consumer half of the queue is     *)
(* idle.                                                                   *)
(***************************************************************************)
LEMMA IdleOutsideCalls ==
    ASSUME LoopInv, lpc \notin {"take", "decide"}
    PROVE  cpc = "idle" /\ InTransit = {}
  <1>1. QInv /\ Control
    BY DEF LoopInv
  <1>2. cpc \in {"idle", "first", "second", "head", "stub", "linkStub", "last", "sleep", "linkSleeping"}
    BY <1>1 DEF QInv, TypeOK
  <1> QED
    BY <1>1, <1>2 DEF Control, InTransit

(***************************************************************************)
(* The loop starts a round: it asks canSleep() when it has nothing to do.  *)
(***************************************************************************)
LEMMA TopInv ==
    ASSUME LoopInv, QInv', Top
    PROVE  LoopInv'
  <1>1. /\ lpc = "top" /\ caller' = caller /\ timers' = timers /\ ready' = ready /\ ran' = ran
        /\ posted' = posted /\ lpc' \in {"decide", "react"}
    BY DEF Top
  <1>2. cpc = "idle" /\ InTransit = {}
    BY <1>1, IdleOutsideCalls
  <1>3. InTransit' = {}
    BY <1>1 DEF InTransit
  <1>4. /\ pushed' = pushed /\ popped' = popped /\ cpc' \in {"idle", "sleep"}
        /\ cpc' = "sleep" => lpc' = "decide"
    BY <1>2 DEF Top, CallCanSleep, qvars, cvars
  <1>5. Once(popped', ready', ran', timers', InTransit') /\ Orderly(pushed', ready', ran')
    BY <1>1, <1>2, <1>3, <1>4 DEF LoopInv
  <1>6. Control'
    BY <1>1, <1>4 DEF Control
  <1>7. Awaited'
    <2>1. CASE ready = <<>>
      <3>1. ~maySleep'
        BY <2>1, Zenon DEF Top, CallCanSleep
      <3>2. ~Asleep'
        BY <1>4, <3>1 DEF Asleep
      <3> QED
        BY <3>2 DEF Awaited
    <2>2. CASE ready # <<>>
      BY <2>2 DEF Top, Awaited
    <2> QED
      BY <2>1, <2>2
  <1> QED
    BY <1>1, <1>5, <1>6, <1>7, LoopTypes, LoopAssemble

(***************************************************************************)
(* A step that leaves the queue alone leaves all of it alone.              *)
(***************************************************************************)
LEMMA SameQueue ==
    ASSUME UNCHANGED qvars
    PROVE  /\ pushed' = pushed /\ popped' = popped /\ cpc' = cpc /\ maySleep' = maySleep
           /\ result' = result /\ ppc' = ppc /\ pprev' = pprev /\ (Asleep' <=> Asleep)
  BY DEF qvars, pvars, cvars, Asleep

(***************************************************************************)
(* The loop decides to sleep, to nap until a timer or to go on.            *)
(***************************************************************************)
LEMMA DecideInv ==
    ASSUME LoopInv, QInv', Decide
    PROVE  LoopInv'
  <1>1. /\ lpc = "decide" /\ cpc = "idle" /\ UNCHANGED qvars /\ caller' = caller /\ timers' = timers
        /\ ready' = ready /\ ran' = ran /\ posted' = posted
    BY DEF Decide
  <1>2. lpc' \in {"react", "nap", "sleep"} /\ (lpc' \in {"nap", "sleep"} => maySleep)
    BY DEF Decide
  <1>3. InTransit = {} /\ InTransit' = {}
    BY <1>1, <1>2 DEF InTransit
  <1>4. Once(popped', ready', ran', timers', InTransit') /\ Orderly(pushed', ready', ran')
    BY <1>1, <1>3, SameQueue DEF LoopInv
  <1>5. Control'
    BY <1>1, <1>2, SameQueue DEF Control
  <1>6. Awaited'
    BY <1>1, <1>2, SameQueue DEF LoopInv, Awaited, Waker
  <1> QED
    BY <1>1, <1>2, <1>4, <1>5, <1>6, LoopTypes, LoopAssemble

(***************************************************************************)
(* The reactor returns: the posted wakeups are handled, and the timers     *)
(* that fell due become ready in front of the rest.                        *)
(***************************************************************************)
LEMMA ReactInv ==
    ASSUME LoopInv, QInv', React
    PROVE  LoopInv'
  <1>1. /\ lpc \in {"sleep", "nap", "react"} /\ lpc' = "drain" /\ caller' = "loop" /\ UNCHANGED qvars
        /\ ran' = ran
    BY DEF React
  <1>2. posted' \in BOOLEAN
    BY Zenon DEF React
  <1>3. PICK due \in SUBSET timers : timers' = timers \ due /\ ready' = SetToSeq(due) \o ready
    BY DEF React
  <1>4. cpc = "idle" /\ InTransit = {} /\ InTransit' = {}
    BY <1>1, IdleOutsideCalls DEF InTransit
  <1>5. due \subseteq Timed /\ IsFiniteSet(due) /\ Timed \subseteq Tasks /\ due \intersect Items = {}
    BY LoopTypes, LocalAssumption, FS_Subset, TaskKinds DEF Tasks, Own
  <1> DEFINE f == SetToSeq(due)
  <1>6. f \in Seq(due) /\ Distinct(f) /\ ToSet(f) = due
    BY <1>5, SetToSeqDistinct
  <1> HIDE DEF f
  <1>7. f \in Seq(Tasks)
    BY <1>5, <1>6, SeqDef
  <1>8. /\ ready \in Seq(Tasks) /\ ran \in Seq(Tasks) /\ pushed \in Seq(Items)
        /\ Once(popped, ready, ran, timers, {}) /\ Orderly(pushed, ready, ran)
    BY <1>4, LoopTypes, QueueOrder DEF LoopInv
  <1>9. Distinct(ready) /\ ToSet(f) \intersect ToSet(ready) = {}
    BY <1>6, <1>8 DEF Once
  <1>10. f \o ready \in Seq(Tasks) /\ Distinct(f \o ready) /\ ToSet(f \o ready) = ToSet(f) \union ToSet(ready)
    BY <1>6, <1>7, <1>8, <1>9, ConcatDistinct
  <1>11. Orderly(pushed, f \o ready, ran)
    BY <1>5, <1>6, <1>7, <1>8, <1>9, OrderlyFront
  <1>12. due \subseteq Own
    BY <1>5 DEF Own
  <1>13. Once(popped, f \o ready, ran, timers \ due, {})
    BY <1>6, <1>8, <1>10, <1>12 DEF Once
  <1>14. Once(popped', ready', ran', timers', InTransit') /\ Orderly(pushed', ready', ran')
    BY <1>1, <1>3, <1>4, <1>11, <1>13, SameQueue DEF f
  <1>15. Control' /\ Awaited'
    BY <1>1, <1>4, SameQueue DEF Control, Awaited
  <1>16. ready' \in Seq(Tasks) /\ timers' \subseteq Timed
    BY <1>3, <1>10, LoopTypes DEF f
  <1> QED
    BY <1>1, <1>2, <1>14, <1>15, <1>16, LoopTypes, LoopAssemble

(***************************************************************************)
(* processThreadReady() calls pop().                                       *)
(***************************************************************************)
LEMMA DrainInv ==
    ASSUME LoopInv, QInv', Drain
    PROVE  LoopInv'
  <1>1. /\ lpc = "drain" /\ lpc' = "take" /\ CallPop /\ caller' = caller /\ timers' = timers
        /\ ready' = ready /\ ran' = ran /\ posted' = posted
    BY DEF Drain
  <1>2. cpc' = "first" /\ pushed' = pushed /\ popped' = popped
    BY <1>1 DEF CallPop
  <1>3. InTransit = {} /\ InTransit' = {}
    BY <1>1, <1>2 DEF InTransit
  <1>4. Once(popped', ready', ran', timers', InTransit') /\ Orderly(pushed', ready', ran')
    BY <1>1, <1>2, <1>3 DEF LoopInv
  <1>5. Control' /\ Awaited'
    BY <1>1, <1>2 DEF Control, Awaited
  <1> QED
    BY <1>1, <1>4, <1>5, LoopTypes, LoopAssemble

(***************************************************************************)
(* What was popped last was pushed after everything that was popped.       *)
(***************************************************************************)
LEMMA LastPopped ==
    ASSUME QInv, NEW x, Len(popped) >= 1, popped[Len(popped)] = x, NEW y \in ToSet(popped)
    PROVE  ~Before(pushed, x, y)
  <1>1. /\ pushed \in Seq(Items) /\ popped \in Seq(Items)
        /\ Len(pushed) \in Nat /\ Len(popped) \in Nat /\ Len(popped) <= Len(pushed)
        /\ Distinct(pushed)
        /\ \A k \in 1..Len(popped) : k \in 1..Len(pushed) /\ popped[k] = pushed[k]
    BY QueueOrder
  <1>2. \A z : z \in ToSet(popped) <=> \E i \in 1..Len(popped) : popped[i] = z
    BY ONLY <1>1, ToSetMember
  <1>3. PICK i \in 1..Len(popped) : popped[i] = y
    BY <1>2
  <1>4. ASSUME NEW k \in 1..Len(pushed), NEW l \in 1..Len(pushed), k < l, pushed[k] = x, pushed[l] = y
        PROVE  FALSE
    <2>1. Len(popped) \in 1..Len(popped)
      BY <1>1
    <2>2. k = Len(popped)
      BY <1>1, <1>4, <2>1 DEF Distinct
    <2>3. l = i
      BY <1>1, <1>3, <1>4 DEF Distinct
    <2> QED
      BY <1>1, <1>4, <2>2, <2>3
  <1> QED
    BY <1>4 DEF Before

(***************************************************************************)
(* A popped item becomes ready.                                            *)
(***************************************************************************)
LEMMA DrainTakesInv ==
    ASSUME LoopInv, QInv', DrainTakes
    PROVE  LoopInv'
  <1>1. /\ lpc = "take" /\ cpc = "idle" /\ UNCHANGED qvars /\ caller' = caller /\ timers' = timers
        /\ ran' = ran /\ posted' = posted /\ lpc' \in {"drain", "run"}
    BY DEF DrainTakes
  <1>2. InTransit' = {}
    BY <1>1 DEF InTransit
  <1>3. Control' /\ Awaited'
    BY <1>1, SameQueue DEF Control, Awaited
  <1>4. /\ ready \in Seq(Tasks) /\ ran \in Seq(Tasks) /\ pushed \in Seq(Items) /\ Distinct(pushed)
        /\ QInv /\ Once(popped, ready, ran, timers, InTransit) /\ Orderly(pushed, ready, ran)
    BY LoopTypes, QueueOrder DEF LoopInv
  <1>5. CASE result = Null
    <2>1. ready' = ready /\ InTransit = {}
      BY <1>5 DEF DrainTakes, InTransit
    <2> QED
      BY <1>1, <1>2, <1>3, <1>4, <2>1, SameQueue, LoopTypes, LoopAssemble
  <1>6. CASE result # Null
    <2>1. ready' = Append(ready, result) /\ InTransit = {result}
      BY <1>1, <1>6 DEF DrainTakes, InTransit
    <2>2. /\ result \in Items /\ Len(popped) >= 1 /\ popped[Len(popped)] = result
          /\ result \notin ToSet(ready) /\ result \notin ToSet(ran)
      BY <1>4, <2>1 DEF Once
    <2>3. result \in Tasks /\ result \notin Own /\ result \notin timers
      BY <2>2, TaskKinds, LoopTypes DEF Own
    <2>4. /\ Append(ready, result) \in Seq(Tasks) /\ Distinct(Append(ready, result))
          /\ ToSet(Append(ready, result)) = ToSet(ready) \union {result}
      BY <1>4, <2>2, <2>3, AppendDistinct DEF Once
    <2>5. Once(popped, Append(ready, result), ran, timers, {})
      BY <1>4, <2>1, <2>2, <2>3, <2>4 DEF Once
    <2>6. ASSUME NEW y \in ToSet(ready) \union ToSet(ran)
          PROVE  ~Before(pushed, result, y)
      <3>1. CASE y \in Items
        BY <1>4, <2>2, <2>6, <3>1, TakenWasPopped, LastPopped
      <3>2. CASE y \notin Items
        BY <1>4, <3>2, BeforeItems
      <3> QED
        BY <3>1, <3>2
    <2>7. Orderly(pushed, Append(ready, result), ran)
      BY <1>4, <2>3, <2>6, OrderlyAppend
    <2> QED
      BY <1>1, <1>2, <1>3, <2>1, <2>4, <2>5, <2>7, SameQueue, LoopTypes, LoopAssemble
  <1> QED
    BY <1>5, <1>6

(***************************************************************************)
(* A task that called onMainThread() on the network thread: its new task   *)
(* becomes ready.                                                          *)
(***************************************************************************)
LEMMA FinishLocalInv ==
    ASSUME LoopInv, QInv', FinishLocal
    PROVE  LoopInv'
  <1>1. /\ lpc = "run" /\ UNCHANGED qvars /\ caller' = "yield" /\ timers' = timers
        /\ ran' = ran /\ posted' = posted /\ lpc' = "drain"
    BY DEF FinishLocal
  <1>2. cpc = "idle" /\ InTransit = {} /\ InTransit' = {}
    BY <1>1, IdleOutsideCalls DEF InTransit
  <1>3. Control' /\ Awaited'
    BY <1>1, <1>2, SameQueue DEF Control, Awaited
  <1>4. PICK t \in LocalTasks : ready' = Append(ready, t)
    BY DEF FinishLocal
  <1>5. /\ t \in Tasks /\ t \in Own /\ t \notin Items /\ t \notin ToSet(ready) /\ t \notin ToSet(ran)
        /\ t \notin timers
    BY LoopTypes, LocalAssumption DEF LocalTasks, Tasks, Own, Nodes
  <1>6. /\ ready \in Seq(Tasks) /\ ran \in Seq(Tasks) /\ pushed \in Seq(Items) /\ Distinct(pushed)
        /\ Once(popped, ready, ran, timers, {}) /\ Orderly(pushed, ready, ran)
    BY <1>2, LoopTypes, QueueOrder DEF LoopInv
  <1>7. /\ Append(ready, t) \in Seq(Tasks) /\ Distinct(Append(ready, t))
        /\ ToSet(Append(ready, t)) = ToSet(ready) \union {t}
    BY <1>5, <1>6, AppendDistinct DEF Once
  <1>8. Once(popped, Append(ready, t), ran, timers, {})
    BY <1>5, <1>6, <1>7 DEF Once
  <1>9. Orderly(pushed, Append(ready, t), ran)
    <2>1. \A y \in ToSet(ready) \union ToSet(ran) : ~Before(pushed, t, y)
      BY <1>5, <1>6, BeforeItems
    <2> QED
      BY <1>5, <1>6, <2>1, OrderlyAppend
  <1> QED
    BY <1>1, <1>2, <1>3, <1>4, <1>7, <1>8, <1>9, SameQueue, LoopTypes, LoopAssemble

(***************************************************************************)
(* The loop runs the top ready task.                                       *)
(***************************************************************************)
LEMMA RunTaskInv ==
    ASSUME LoopInv, QInv', RunTask
    PROVE  LoopInv'
  <1>1. /\ lpc = "run" /\ UNCHANGED qvars /\ caller' \in {"loop", "task", "yield"} /\ timers' = timers
        /\ posted' = posted /\ lpc' = "drain"
    BY LoopTypes DEF RunTask
  <1>2. cpc = "idle" /\ InTransit = {} /\ InTransit' = {}
    BY <1>1, IdleOutsideCalls DEF InTransit
  <1>3. Control' /\ Awaited'
    BY <1>1, <1>2, SameQueue DEF Control, Awaited
  <1>4. PICK i \in DOMAIN ready : IsTop(i) /\ ready' = RemoveAt(ready, i) /\ ran' = Append(ran, ready[i])
    BY DEF RunTask
  <1>5. /\ ready \in Seq(Tasks) /\ ran \in Seq(Tasks) /\ pushed \in Seq(Items) /\ Distinct(pushed)
        /\ Once(popped, ready, ran, timers, {}) /\ Orderly(pushed, ready, ran)
    BY <1>2, LoopTypes, QueueOrder DEF LoopInv
  <1>6. DOMAIN ready = 1..Len(ready) /\ Len(ready) \in Nat
    BY <1>5, LenProperties
  <1>7. i \in 1..Len(ready) /\ ready[i] \in Tasks /\ Distinct(ready)
    BY <1>4, <1>5, <1>6, ElementOfSeq DEF Once
  <1>8. \A x : x \in ToSet(ready) <=> \E j \in 1..Len(ready) : ready[j] = x
    BY ONLY <1>5, ToSetMember
  <1>9. ready[i] \in ToSet(ready) /\ ready[i] \notin ToSet(ran)
    BY <1>5, <1>7, <1>8 DEF Once
  <1>10. /\ RemoveAt(ready, i) \in Seq(Tasks) /\ Distinct(RemoveAt(ready, i))
         /\ ToSet(RemoveAt(ready, i)) = ToSet(ready) \ {ready[i]}
    BY ONLY <1>5, <1>7, RemoveDistinct
  <1>11. /\ Append(ran, ready[i]) \in Seq(Tasks) /\ Distinct(Append(ran, ready[i]))
         /\ ToSet(Append(ran, ready[i])) = ToSet(ran) \union {ready[i]}
    BY <1>5, <1>7, <1>9, AppendDistinct DEF Once
  <1>12. Once(popped, RemoveAt(ready, i), Append(ran, ready[i]), timers, {})
    BY <1>5, <1>9, <1>10, <1>11 DEF Once
  <1>13. \A j \in 1..Len(ready) : Priority[ready[j]] = Priority[ready[i]] => i <= j
    <2>1. \A j \in 1..Len(ready) : ready[j] \in Tasks
      BY <1>5, ElementOfSeq
    <2>2. \A j \in 1..Len(ready) : Priority[ready[j]] \in Nat
      BY <2>1 DEF Priority
    <2> QED
      BY <1>4, <1>6, <1>7, <2>2 DEF IsTop
  <1>14. Orderly(pushed, RemoveAt(ready, i), Append(ran, ready[i]))
    BY ONLY <1>5, <1>7, <1>13, OrderlyRun
  <1> QED
    BY <1>1, <1>2, <1>3, <1>4, <1>10, <1>11, <1>12, <1>14, SameQueue, LoopTypes, LoopAssemble

(***************************************************************************)
(* check_yield decides whether the loop goes on with the next task.        *)
(***************************************************************************)
LEMMA CheckYieldInv ==
    ASSUME LoopInv, QInv', CheckYield
    PROVE  LoopInv'
  <1>1. /\ lpc = "run" /\ UNCHANGED qvars /\ caller' = "loop" /\ timers' = timers
        /\ ready' = ready /\ ran' = ran /\ posted' = posted /\ lpc' \in {"run", "top"}
    BY DEF CheckYield
  <1>2. cpc = "idle" /\ InTransit = {} /\ InTransit' = {}
    BY <1>1, IdleOutsideCalls DEF InTransit
  <1>3. Control' /\ Awaited'
    BY <1>1, <1>2, SameQueue DEF Control, Awaited
  <1>4. Once(popped', ready', ran', timers', InTransit') /\ Orderly(pushed', ready', ran')
    BY <1>1, <1>2, SameQueue DEF LoopInv
  <1> QED
    BY <1>1, <1>3, <1>4, LoopTypes, LoopAssemble

(***************************************************************************)
(* The round of running ends.                                              *)
(***************************************************************************)
LEMMA RunEndsInv ==
    ASSUME LoopInv, QInv', RunEnds
    PROVE  LoopInv'
  <1>1. /\ lpc = "run" /\ UNCHANGED qvars /\ caller' = caller /\ timers' = timers
        /\ ready' = ready /\ ran' = ran /\ posted' = posted /\ lpc' = "top"
    BY DEF RunEnds
  <1>2. cpc = "idle" /\ InTransit = {} /\ InTransit' = {}
    BY <1>1, IdleOutsideCalls DEF InTransit
  <1>3. Control' /\ Awaited'
    BY <1>1, <1>2, SameQueue DEF Control, Awaited
  <1>4. Once(popped', ready', ran', timers', InTransit') /\ Orderly(pushed', ready', ran')
    BY <1>1, <1>2, SameQueue DEF LoopInv
  <1> QED
    BY <1>1, <1>3, <1>4, LoopTypes, LoopAssemble

(***************************************************************************)
(* Every step of the loop and of the posting threads keeps the invariant.  *)
(***************************************************************************)
LEMMA LoopStepInv ==
    ASSUME LoopInv, [Next]_vars
    PROVE  LoopInv'
  <1>1. QInv
    BY DEF LoopInv
  <1>2. QInv'
    BY <1>1, LoopUsesQueue, QStepInv
  <1>3. CASE UNCHANGED vars
    <2>1. /\ UNCHANGED qvars /\ lpc' = lpc /\ caller' = caller /\ timers' = timers
          /\ ready' = ready /\ ran' = ran /\ posted' = posted
      BY <1>3 DEF vars, lvars
    <2>2. InTransit' = InTransit
      BY <2>1, SameQueue DEF InTransit
    <2>3. Control' /\ Awaited'
      BY <2>1, SameQueue DEF LoopInv, Control, Awaited, Waker
    <2>4. Once(popped', ready', ran', timers', InTransit') /\ Orderly(pushed', ready', ran')
      BY <2>1, <2>2, SameQueue DEF LoopInv
    <2> QED
      BY <1>2, <2>1, <2>3, <2>4, LoopTypes, LoopAssemble
  <1>4. CASE QueueStep
    BY <1>2, <1>4, PopStepInv, SleepStepInv DEF QueueStep, InCall
  <1>5. CASE \E p \in Producers : PostBegins(p) \/ PostLinks(p) \/ PostReturns(p)
    BY <1>2, <1>5, PostInv
  <1> QED
    BY <1>2, <1>3, <1>4, <1>5, TopInv, DecideInv, ReactInv, DrainInv, DrainTakesInv, FinishLocalInv,
       RunTaskInv, CheckYieldInv, RunEndsInv DEF Next, LoopStep

-----------------------------------------------------------------------------
\* What the invariant is for.

(***************************************************************************)
(* No task is lost or run twice.                                           *)
(***************************************************************************)
LEMMA LoopConserves ==
    ASSUME LoopInv
    PROVE  TasksConserved
  <1> DEFINE R == ToSet(ready)
             N == ToSet(ran)
             T == InTransit
  <1>1. /\ ready \in Seq(Tasks) /\ ran \in Seq(Tasks) /\ popped \in Seq(Items) /\ Distinct(popped)
        /\ Once(popped, ready, ran, timers, InTransit)
    BY LoopTypes, QueueOrder DEF LoopInv
  <1>2. Distinct(ready) /\ Distinct(ran)
    BY <1>1 DEF Once
  <1>3. IsFiniteSet(R) /\ Cardinality(R) = Len(ready) /\ Len(ready) \in Nat
    BY <1>1, <1>2, DistinctLength
  <1>4. IsFiniteSet(N) /\ Cardinality(N) = Len(ran) /\ Len(ran) \in Nat
    BY <1>1, <1>2, DistinctLength
  <1>5. IsFiniteSet(ToSet(popped)) /\ Cardinality(ToSet(popped)) = Len(popped) /\ Len(popped) \in Nat
    BY <1>1, DistinctLength
  <1>6. IsFiniteSet(T) /\ Cardinality(T) \in Nat
    BY FS_EmptySet, FS_Singleton, FS_CardinalityType DEF InTransit
  <1>7. /\ R \intersect N = {} /\ ToSet(popped) = (R \union N \union T) \ Own
        /\ T \intersect (R \union N) = {} /\ T \subseteq Items
    BY <1>1 DEF Once
  <1> HIDE DEF R, N, T
  <1> DEFINE all == (R \union N) \union T
             own == Own \intersect (R \union N)
  <1>8. IsFiniteSet(R \union N) /\ Cardinality(R \union N) = Len(ready) + Len(ran)
    <2>1. IsFiniteSet(R) /\ IsFiniteSet(N) /\ R \cap N = {}
      BY <1>3, <1>4, <1>7
    <2>2. IsFiniteSet(R \union N)
      BY ONLY <2>1, FS_Union
    <2>3. Cardinality(R \union N) = Cardinality(R) + Cardinality(N)
      BY ONLY <2>1, CardinalityDisjoint
    <2> QED
      BY <2>2, <2>3, <1>3, <1>4
  <1>9. IsFiniteSet(all) /\ Cardinality(all) = Len(ready) + Len(ran) + Cardinality(T)
    <2>1. IsFiniteSet(R \union N) /\ IsFiniteSet(T) /\ (R \union N) \cap T = {}
      BY <1>6, <1>7, <1>8
    <2>2. IsFiniteSet((R \union N) \union T)
      BY ONLY <2>1, FS_Union
    <2>3. Cardinality((R \union N) \union T) = Cardinality(R \union N) + Cardinality(T)
      BY ONLY <2>1, CardinalityDisjoint
    <2> QED
      BY <2>2, <2>3, <1>8
  <1>10. own \intersect ToSet(popped) = {} /\ all = ToSet(popped) \union own
    BY <1>7, TaskKinds
  <1>11. IsFiniteSet(own) /\ Cardinality(own) \in Nat
    BY <1>8, FS_Intersection, FS_CardinalityType
  <1>12. Cardinality(all) = Len(popped) + Cardinality(own)
    <2>1. IsFiniteSet(ToSet(popped)) /\ IsFiniteSet(own) /\ ToSet(popped) \cap own = {}
      BY <1>5, <1>10, <1>11
    <2>2. Cardinality(ToSet(popped) \union own) = Cardinality(ToSet(popped)) + Cardinality(own)
      BY ONLY <2>1, CardinalityDisjoint
    <2> QED
      BY <2>2, <1>5, <1>10
  <1>13. Len(popped) + Cardinality(own) = Len(ready) + Len(ran) + Cardinality(T)
    BY <1>9, <1>12
  <1> QED
    BY <1>7, <1>13 DEF TasksConserved, R, N, T

(***************************************************************************)
(* Tasks of one priority run in the order of the pushes.                   *)
(***************************************************************************)
LEMMA LoopOrders ==
    ASSUME LoopInv
    PROVE  RunInOrder
  <1> SUFFICES ASSUME NEW i \in DOMAIN pushed, NEW j \in DOMAIN pushed, i < j,
                      Priority[pushed[i]] = Priority[pushed[j]], pushed[j] \in ToSet(ran)
               PROVE  /\ pushed[i] \in ToSet(ran)
                      /\ Position(ran, pushed[i]) < Position(ran, pushed[j])
    BY DEF RunInOrder
  <1>1. /\ pushed \in Seq(Items) /\ popped \in Seq(Items) /\ QInv
        /\ Len(pushed) \in Nat /\ Len(popped) \in Nat /\ Len(popped) <= Len(pushed)
        /\ Distinct(pushed)
        /\ \A k \in 1..Len(popped) : k \in 1..Len(pushed) /\ popped[k] = pushed[k]
    BY LoopTypes, QueueOrder
  <1>2. DOMAIN pushed = 1..Len(pushed) /\ i \in 1..Len(pushed) /\ j \in 1..Len(pushed)
    BY <1>1, LenProperties
  <1>3. pushed[i] \in Items /\ pushed[j] \in Items
    BY <1>1, <1>2, ElementOfSeq
  <1>4. Before(pushed, pushed[i], pushed[j])
    BY <1>2 DEF Before
  <1>5. ran \in Seq(Tasks) /\ Once(popped, ready, ran, timers, InTransit) /\ Orderly(pushed, ready, ran)
    BY LoopTypes DEF LoopInv
  <1>6. \A x : x \in ToSet(popped) <=> \E k \in 1..Len(popped) : popped[k] = x
    BY ONLY <1>1, ToSetMember
  <1>7. j \in 1..Len(popped)
    <2>1. pushed[j] \in ToSet(popped)
      BY <1>3, TakenWasPopped
    <2>2. PICK k \in 1..Len(popped) : popped[k] = pushed[j]
      BY <1>6, <2>1
    <2> QED
      BY <1>1, <1>2, <2>2 DEF Distinct
  <1>8. i \in 1..Len(popped) /\ i # Len(popped) /\ Len(popped) \in 1..Len(popped)
    BY <1>1, <1>2, <1>7
  <1>9. pushed[i] \in ToSet(popped) /\ pushed[i] # popped[Len(popped)]
    BY <1>1, <1>2, <1>6, <1>8 DEF Distinct
  <1>10. pushed[i] \notin ToSet(ready)
    BY <1>4, <1>5 DEF Orderly
  <1>11. pushed[i] \in ToSet(ran)
    BY <1>5, <1>9, <1>10 DEF Once
  <1>12. DOMAIN ran = 1..Len(ran)
    BY <1>5, LenProperties
  <1>13. \A x : x \in ToSet(ran) <=> \E k \in 1..Len(ran) : ran[k] = x
    BY ONLY <1>5, ToSetMember
  <1>14. \A x \in ToSet(ran) : Position(ran, x) \in 1..Len(ran) /\ ran[Position(ran, x)] = x
    BY <1>12, <1>13 DEF Position
  <1>15. Position(ran, pushed[i]) < Position(ran, pushed[j])
    BY <1>4, <1>5, <1>11, <1>14 DEF Orderly, InOrder
  <1> QED
    BY <1>11, <1>15

(***************************************************************************)
(* The sleeping loop is woken for what was pushed.                         *)
(***************************************************************************)
LEMMA LoopWakes ==
    ASSUME LoopInv
    PROVE  SleepIsWoken
  BY DEF LoopInv, Control, Awaited, Waker, Asleep, SleepIsWoken, PushResult

(***************************************************************************)
(* The run loop of Net2 with any number of threads, tasks and timers: no   *)
(* wakeup is lost, every task that was given is waiting or was run, once,  *)
(* and tasks of one priority run in the order in which they were pushed.   *)
(***************************************************************************)
THEOREM LoopIsSafe == Spec => []LoopSafe
  <1>1. Init => LoopInv
    BY LoopInitInv
  <1>2. LoopInv /\ [Next]_vars => LoopInv'
    BY LoopStepInv
  <1>3. LoopInv => LoopSafe
    BY LoopConserves, LoopOrders, LoopWakes, QInvSafe DEF LoopInv, LoopSafe
  <1> QED
    BY <1>1, <1>2, <1>3, PTL DEF Spec
=============================================================================
