--------------------------- MODULE FlowLockProofs ---------------------------
(***************************************************************************)
(* Proofs about module FlowLock, for any finite set of clients, any number *)
(* of permits and any amounts.                                             *)
(***************************************************************************)
EXTENDS FlowLock, SequenceLemmas, TLAPS

(***************************************************************************)
(* What a queued take() is for is positive, and a takeUpTo() begins with a *)
(* take(1): it never is the client that was let in alone.                  *)
(***************************************************************************)
AskedOK ==
    \A c \in Clients : /\ stage[c] = "queued" => asked[c] > 0
                       /\ wanted[c] # 0 => asked[c] = 1

(***************************************************************************)
(* The inductive invariant.                                                *)
(***************************************************************************)
IInv == LockSafe /\ AskedOK

-----------------------------------------------------------------------------
(***************************************************************************)
(* The sum of a function h over the clients, as the size of a set of       *)
(* pairs: the permits of client c are its column.                          *)
(***************************************************************************)
Pairs(h, m) == {p \in Clients \X (1..m) : p[2] <= h[p[1]]}
(***************************************************************************)
(* n permits of client c, as pairs: what is held is a set of columns.      *)
(***************************************************************************)
Column(c, n) == {c} \X (1..n)

(***************************************************************************)
(* A column of n permits has n elements.                                   *)
(***************************************************************************)
LEMMA ColumnSize ==
    ASSUME NEW c, NEW n \in Nat
    PROVE  IsFiniteSet(Column(c, n)) /\ Cardinality(Column(c, n)) = n
  <1>1. IsFiniteSet({c}) /\ Cardinality({c}) = 1
    BY FS_Singleton
  <1>2. IsFiniteSet(1..n) /\ Cardinality(1..n) = n
    BY FS_Interval
  <1>3. /\ IsFiniteSet({c} \X (1..n))
        /\ Cardinality({c} \X (1..n)) = Cardinality({c}) * Cardinality(1..n)
    BY ONLY <1>1, <1>2, FS_Product, Zenon
  <1> QED
    BY ONLY <1>1, <1>2, <1>3, n \in Nat DEF Column

(***************************************************************************)
(* The set of pairs does not depend on the bound.                          *)
(***************************************************************************)
LEMMA PairsBound ==
    ASSUME NEW h \in [Clients -> Nat], NEW m \in Nat, NEW k \in Nat,
           \A d \in Clients : h[d] <= m /\ h[d] <= k
    PROVE  Pairs(h, m) = Pairs(h, k) /\ IsFiniteSet(Pairs(h, m))
           /\ Cardinality(Pairs(h, m)) \in Nat
  <1>1. Pairs(h, m) = Pairs(h, k)
    BY DEF Pairs
  <1>2. IsFiniteSet(Clients \X (1..m))
    <2>1. IsFiniteSet(Clients) /\ IsFiniteSet(1..m)
      BY LockAssumption, FS_Interval
    <2> QED
      BY <2>1, FS_Product
  <1>3. Pairs(h, m) \subseteq Clients \X (1..m)
    BY DEF Pairs
  <1> QED
    BY <1>1, <1>2, <1>3, FS_Subset, FS_CardinalityType

(***************************************************************************)
(* When one client's value changes, so does the size, and by as much.      *)
(***************************************************************************)
LEMMA PairsChange ==
    ASSUME NEW h \in [Clients -> Nat], NEW m \in Nat, NEW c \in Clients, NEW n \in Nat,
           n <= m, \A d \in Clients : h[d] <= m
    PROVE  Cardinality(Pairs([h EXCEPT ![c] = n], m)) = Cardinality(Pairs(h, m)) - h[c] + n
  <1> DEFINE g == [h EXCEPT ![c] = n]
             Rest == {p \in Pairs(h, m) : p[1] # c}
  <1>1. h[c] \in Nat /\ h[c] <= m
    OBVIOUS
  <1>2. IsFiniteSet(Rest) /\ Cardinality(Rest) \in Nat
    BY PairsBound, FS_Subset, FS_CardinalityType
  <1>3. Pairs(h, m) = Rest \union Column(c, h[c]) /\ Rest \cap Column(c, h[c]) = {}
    BY <1>1 DEF Pairs, Column
  <1>4. Pairs(g, m) = Rest \union Column(c, n) /\ Rest \cap Column(c, n) = {}
    BY <1>1 DEF Pairs, Column
  <1> HIDE DEF g, Rest
  <1>5. Cardinality(Pairs(h, m)) = Cardinality(Rest) + h[c]
    BY <1>1, <1>2, <1>3, ColumnSize, CardinalityDisjoint
  <1>6. Cardinality(Pairs(g, m)) = Cardinality(Rest) + n
    BY <1>2, <1>4, ColumnSize, CardinalityDisjoint
  <1> QED
    BY <1>1, <1>2, <1>5, <1>6 DEF g

(***************************************************************************)
(* Permits change hands: active moves by as much as the one client's held. *)
(***************************************************************************)
LEMMA MovePermits ==
    ASSUME held \in [Clients -> Nat], active \in Nat, active' \in Nat, Conserved,
           NEW c \in Clients, NEW n \in Nat, held' = [held EXCEPT ![c] = n], active' = active + n - held[c]
    PROVE  Conserved'
  <1> DEFINE m == active + n
  <1>1. /\ held \in [Clients -> Nat] /\ active \in Nat /\ m \in Nat /\ held[c] \in Nat
        /\ held' \in [Clients -> Nat] /\ active' \in Nat /\ n <= m
        /\ \A d \in Clients : held[d] \in Nat /\ held[d] <= active /\ held[d] <= m
    BY DEF Conserved
  <1> HIDE DEF m
  <1>2. active = Cardinality(Pairs(held, m))
    <2>1. Pairs(held, active) = Pairs(held, m)
      BY <1>1, PairsBound
    <2> QED
      BY <2>1 DEF Conserved, Owned, Pairs
  <1>3. Cardinality(Pairs(held', m)) = active'
    <2>1. Cardinality(Pairs([held EXCEPT ![c] = n], m)) = Cardinality(Pairs(held, m)) - held[c] + n
      <3>1. n <= m /\ (\A d \in Clients : held[d] <= m) /\ m \in Nat /\ held \in [Clients -> Nat]
        BY <1>1
      <3> QED
        BY ONLY <3>1, c \in Clients, n \in Nat, PairsChange
    <2> QED
      BY <1>1, <1>2, <2>1
  <1>4. \A d \in Clients : held'[d] <= active'
    <2> SUFFICES ASSUME NEW d \in Clients PROVE held'[d] <= active'
      OBVIOUS
    <2>1. CASE d = c
      BY <2>1, <1>1
    <2>2. CASE d # c
      <3>1. held'[d] = held[d] /\ held[d] + held[c] <= active
        <4>1. /\ Column(d, held[d]) \subseteq Pairs(held, m)
              /\ Column(c, held[c]) \subseteq Pairs(held, m)
              /\ Column(d, held[d]) \cap Column(c, held[c]) = {}
          BY <1>1, <2>2 DEF Pairs, Column
        <4>2. Cardinality(Column(d, held[d]) \union Column(c, held[c])) = held[d] + held[c]
          <5>1. held[d] \in Nat /\ held[c] \in Nat
            BY <1>1
          <5>2. /\ IsFiniteSet(Column(d, held[d])) /\ Cardinality(Column(d, held[d])) = held[d]
                /\ IsFiniteSet(Column(c, held[c])) /\ Cardinality(Column(c, held[c])) = held[c]
            BY <5>1, ColumnSize
          <5> QED
            BY <4>1, <5>2, CardinalityDisjoint
        <4>3. IsFiniteSet(Pairs(held, m))
          BY <1>1, PairsBound
        <4>4. Cardinality(Column(d, held[d]) \union Column(c, held[c]))
                <= Cardinality(Pairs(held, m))
          BY <4>1, <4>3, FS_Subset
        <4> QED
          BY <1>1, <1>2, <2>2, <4>2, <4>4
      <3> QED
        BY <1>1, <3>1
    <2> QED
      BY <2>1, <2>2
  <1>5. \A d \in Clients : held'[d] <= m
    BY <1>1
  <1>6. Pairs(held', active') = Pairs(held', m)
    <2>1. /\ held' \in [Clients -> Nat] /\ active' \in Nat /\ m \in Nat
          /\ \A d \in Clients : held'[d] <= active' /\ held'[d] <= m
      BY <1>1, <1>4, <1>5
    <2> QED
      BY ONLY <2>1, PairsBound
  <1> QED
    BY <1>3, <1>4, <1>6 DEF Conserved, Owned, Pairs

(***************************************************************************)
(* What conservation says of the holders: there are none exactly when      *)
(* nothing is active, never more than active, and a single one holds all.  *)
(***************************************************************************)
LEMMA HoldersOf ==
    ASSUME NEW h \in [Clients -> Nat], NEW a \in Nat, a = Cardinality(Pairs(h, a)),
           \A c \in Clients : h[c] <= a
    PROVE  LET H == {c \in Clients : h[c] > 0}
           IN  /\ a = 0 <=> H = {}
               /\ IsFiniteSet(H) /\ Cardinality(H) \in Nat /\ Cardinality(H) <= a
               /\ \A c \in Clients : H = {c} => a = h[c]
  <1> DEFINE H == {c \in Clients : h[c] > 0}
  <1>1. IsFiniteSet(Pairs(h, a))
    BY PairsBound
  <1>2. IsFiniteSet(H)
    BY LockAssumption, FS_Subset
  <1>3. Cardinality(H) \in Nat /\ Cardinality(H) <= a
    <2>1. H \X {1} \subseteq Pairs(h, a)
      BY DEF Pairs
    <2> HIDE DEF H
    <2>2. IsFiniteSet({1}) /\ Cardinality({1}) = 1
      BY FS_Singleton
    <2>3. Cardinality(H \X {1}) = Cardinality(H) * Cardinality({1})
      BY ONLY <1>2, <2>2, FS_Product, Zenon
    <2>4. Cardinality(H) \in Nat
      BY <1>2, FS_CardinalityType
    <2>5. Cardinality(H \X {1}) <= Cardinality(Pairs(h, a))
      BY ONLY <1>1, <2>1, FS_Subset
    <2>6. Cardinality(H \X {1}) <= a
      BY ONLY <2>5, a = Cardinality(Pairs(h, a))
    <2> QED
      BY ONLY <2>2, <2>3, <2>4, <2>6, a \in Nat
  <1>4. ASSUME H = {} PROVE a = 0
    <2>1. Pairs(h, a) = {}
      BY <1>4 DEF Pairs
    <2> QED
      BY <2>1, FS_EmptySet
  <1>5. ASSUME a = 0 PROVE H = {}
    BY <1>5
  <1>6. ASSUME NEW c \in Clients, H = {c} PROVE a = h[c]
    <2>1. Pairs(h, a) = Column(c, h[c])
      BY <1>6 DEF Pairs, Column
    <2>2. h[c] \in Nat
      OBVIOUS
    <2> QED
      BY <2>1, <2>2, ColumnSize
  <1> QED
    BY <1>2, <1>3, <1>4, <1>5, <1>6

(***************************************************************************)
(* What conservation says of the holders, in this state.                   *)
(***************************************************************************)
LEMMA HoldersNow ==
    ASSUME held \in [Clients -> Nat], active \in Nat, Conserved
    PROVE  /\ active = 0 <=> Holders = {}
           /\ Cardinality(Holders) \in Nat /\ Cardinality(Holders) <= active
           /\ \A c \in Clients : Holders = {c} => active = held[c]
  <1>1. active = Cardinality(Pairs(held, active)) /\ \A c \in Clients : held[c] <= active
    BY DEF Conserved, Owned, Pairs
  <1> QED
    BY <1>1, HoldersOf DEF Holders

(***************************************************************************)
(* The same in the next state.                                             *)
(***************************************************************************)
LEMMA HoldersNext ==
    ASSUME held' \in [Clients -> Nat], active' \in Nat, Conserved'
    PROVE  /\ active' = 0 <=> Holders' = {}
           /\ Cardinality(Holders') \in Nat /\ Cardinality(Holders') <= active'
           /\ \A c \in Clients : Holders' = {c} => active' = held'[c]
  <1>1. active' = Cardinality(Pairs(held', active')) /\ \A c \in Clients : held'[c] <= active'
    BY DEF Conserved, Owned, Pairs
  <1> QED
    BY <1>1, HoldersOf DEF Holders

(***************************************************************************)
(* So the limit on the holders is that more permits than there are go to   *)
(* one client alone.                                                       *)
(***************************************************************************)
LEMMA LimitNext ==
    ASSUME held' \in [Clients -> Nat], active' \in Nat, Conserved',
           active' > permits => \E c \in Clients : Holders' = {c}
    PROVE  HolderLimit'
  <1>1. permits \in Nat /\ permits > 0
    BY LockAssumption
  <1>2. CASE active' <= permits
    BY <1>1, <1>2, HoldersNext DEF HolderLimit
  <1>3. CASE active' > permits
    <2>1. PICK c \in Clients : Holders' = {c}
      BY <1>3
    <2>2. Cardinality(Holders') = 1
      BY <2>1, FS_Singleton
    <2> QED
      BY <1>1, <2>1, <2>2 DEF HolderLimit
  <1> QED
    BY <1>1, <1>2, <1>3

-----------------------------------------------------------------------------
(***************************************************************************)
(* The two halves of StagesAgree: about permits, and about the list.       *)
(***************************************************************************)
Keeping == {"yielding", "holding", "delegated", "lost"}

(***************************************************************************)
(* The half of StagesAgree about who holds permits.                        *)
(***************************************************************************)
HeldStages ==
    \A c \in Clients : /\ (held[c] > 0) <=> stage[c] \in Keeping
                       /\ stage[c] = "yielding" => held[c] = asked[c]

(***************************************************************************)
(* The half of it about who is in the queue.                               *)
(***************************************************************************)
QueueStages ==
    /\ \A c \in Clients : (stage[c] = "queued") <=> \E i \in 1..Len(takers) : takers[i] = c
    /\ \A i, j \in 1..Len(takers) : takers[i] = takers[j] => i = j

(***************************************************************************)
(* Together they are StagesAgree.                                          *)
(***************************************************************************)
LEMMA TwoHalves ==
    ASSUME takers \in Seq(Clients), Clients # {}
    PROVE  StagesAgree <=> HeldStages /\ QueueStages
  <1>1. DOMAIN takers = 1..Len(takers)
    BY LenProperties
  <1> QED
    BY <1>1, Zenon DEF StagesAgree, HeldStages, QueueStages, Keeping

(***************************************************************************)
(* The same in the next state.                                             *)
(***************************************************************************)
LEMMA TwoHalvesNext ==
    ASSUME takers' \in Seq(Clients), Clients # {}
    PROVE  StagesAgree' <=> HeldStages' /\ QueueStages'
  <1>1. DOMAIN takers' = 1..Len(takers')
    BY LenProperties
  <1> QED
    BY <1>1, Zenon DEF StagesAgree, HeldStages, QueueStages, Keeping

(***************************************************************************)
(* A new lock satisfies the invariant.                                     *)
(***************************************************************************)
LEMMA InitIInv ==
    ASSUME Init
    PROVE  IInv
  <1>1. /\ alive \in BOOLEAN /\ granting \in BOOLEAN
    BY Zenon DEF Init
  <1>2. /\ active = 0 /\ takers = <<>> /\ stage = [c \in Clients |-> "idle"]
        /\ asked = [c \in Clients |-> 0] /\ wanted = [c \in Clients |-> 0]
        /\ held = [c \in Clients |-> 0]
    BY DEF Init
  <1>3. TypeOK
    BY <1>1, <1>2, EmptySeq DEF TypeOK, Stages
  <1>4. Conserved
    <2>1. Owned = {}
      BY <1>2 DEF Owned
    <2> QED
      BY <1>2, <2>1, FS_EmptySet DEF Conserved
  <1>5. HolderLimit
    <2>1. Holders = {}
      BY <1>2 DEF Holders
    <2> QED
      BY <1>2, <2>1, FS_EmptySet, LockAssumption DEF HolderLimit
  <1>6. NoLostWakeup
    BY <1>2 DEF NoLostWakeup
  <1>7. StagesAgree
    BY <1>2 DEF StagesAgree
  <1>8. AskedOK
    BY <1>2 DEF AskedOK
  <1> QED
    BY <1>3, <1>4, <1>5, <1>6, <1>7, <1>8 DEF IInv, LockSafe

(***************************************************************************)
(* release(): whatever part of its permits the client gives back, for      *)
(* whatever reason, the lock is right up to the loop that follows.         *)
(***************************************************************************)
LEMMA ReleaseIInv ==
    ASSUME IInv, NEW c \in Clients, NEW amount \in Nat, amount <= held[c], release(c, amount),
           NEW s \in {"idle", "holding"}, s = "idle" <=> amount = held[c],
           stage' = [stage EXCEPT ![c] = s], UNCHANGED <<alive, asked, wanted>>,
           takers' \in Seq(Clients), QueueStages'
    PROVE  IInv'
  <1>1. TypeOK /\ Conserved /\ HolderLimit /\ StagesAgree /\ AskedOK
    BY DEF IInv, LockSafe
  <1>2. granting' \in BOOLEAN /\ granting'
    BY Zenon DEF release
  <1>3. /\ active' = active - amount /\ held' = [held EXCEPT ![c] = held[c] - amount]
    BY DEF release
  <1>4. /\ held \in [Clients -> Nat] /\ active \in Nat /\ held[c] \in Nat /\ held[c] <= active
        /\ held[c] - amount \in Nat
    BY <1>1 DEF TypeOK, Conserved
  <1>5. TypeOK'
    <2>1. active' \in Nat /\ held' \in [Clients -> Nat]
      BY <1>3, <1>4
    <2>2. stage' \in [Clients -> Stages]
      BY <1>1 DEF TypeOK, Stages
    <2> QED
      BY <1>1, <1>2, <2>1, <2>2 DEF TypeOK
  <1>6. Conserved'
    <2>1. active' = active + (held[c] - amount) - held[c] /\ active' \in Nat
      BY <1>3, <1>4
    <2> QED
      BY <1>1, <1>3, <1>4, <2>1, MovePermits
  <1>7. HolderLimit'
    <2> SUFFICES ASSUME active' > permits PROVE \E d \in Clients : Holders' = {d}
      BY <1>5, <1>6, LimitNext DEF TypeOK
    <2>1. permits \in Nat /\ active > permits
      BY <1>3, <1>4, LockAssumption
    <2>2. PICK d \in Clients : Holders = {d}
      BY <1>1, <2>1 DEF HolderLimit
    <2>3. active = held[d]
      BY <1>1, <1>4, <2>2, HoldersNow
    <2>4. CASE d = c
      <3>1. held'[c] > 0 /\ \A e \in Clients : e # c => held'[e] = held[e]
        BY <1>3, <1>4, <2>1, <2>3, <2>4
      <3> QED
        BY <2>2, <2>4, <3>1 DEF Holders
    <2>5. CASE d # c
      <3>1. held[c] = 0 /\ amount = 0
        BY <1>4, <2>2, <2>5 DEF Holders
      <3>2. held' = held
        BY <1>3, <1>4, <3>1
      <3> QED
        BY <2>2, <3>2 DEF Holders
    <2> QED
      BY <2>4, <2>5
  <1>8. NoLostWakeup'
    BY <1>2 DEF NoLostWakeup
  <1>9. HeldStages'
    <2> SUFFICES ASSUME NEW d \in Clients
                 PROVE  /\ (held'[d] > 0) <=> stage'[d] \in Keeping
                        /\ stage'[d] = "yielding" => held'[d] = asked'[d]
      BY DEF HeldStages
    <2>1. stage \in [Clients -> Stages]
      BY <1>1 DEF TypeOK
    <2>2. CASE d = c
      BY <1>3, <1>4, <2>1, <2>2 DEF Keeping
    <2>3. CASE d # c
      BY <1>1, <1>3, <1>4, <2>1, <2>3 DEF StagesAgree, Keeping
    <2> QED
      BY <2>2, <2>3
  <1>10. StagesAgree'
    BY <1>9, TwoHalvesNext
  <1>11. AskedOK'
    BY <1>1 DEF AskedOK, TypeOK
  <1> QED
    BY <1>5, <1>6, <1>7, <1>8, <1>10, <1>11 DEF IInv, LockSafe

(***************************************************************************)
(* A first taker that does not fit waits for someone: there are holders.   *)
(***************************************************************************)
HeadWaits == ~granting /\ takers # <<>> => ~Fits(asked[Head(takers)])

(***************************************************************************)
(* Of the next state: when the head of the queue does not fit, no wakeup   *)
(* is lost.                                                                *)
(***************************************************************************)
LEMMA WakeupNext ==
    ASSUME held' \in [Clients -> Nat], active' \in Nat, Conserved', HeadWaits'
    PROVE  NoLostWakeup'
  <1>1. ASSUME ~granting', takers' # <<>>
        PROVE  active' # 0
    BY <1>1 DEF HeadWaits, Fits
  <1> QED
    BY <1>1, HoldersNext DEF NoLostWakeup, HeadWaits

(***************************************************************************)
(* A client without permits is granted n of them, as it asks or later.     *)
(***************************************************************************)
LEMMA GrantIInv ==
    ASSUME IInv, NEW c \in Clients, NEW n \in Nat \ {0}, NEW u \in Nat, u # 0 => n = 1,
           held[c] = 0, Fits(n),
           active' = active + n, held' = [held EXCEPT ![c] = n],
           stage' = [stage EXCEPT ![c] = "yielding"],
           asked' = [asked EXCEPT ![c] = n], wanted' = [wanted EXCEPT ![c] = u],
           UNCHANGED <<alive, granting>>,
           takers' \in Seq(Clients), QueueStages', HeadWaits'
    PROVE  IInv'
  <1>1. TypeOK /\ Conserved /\ HolderLimit /\ StagesAgree /\ AskedOK
    BY DEF IInv, LockSafe
  <1>2. held \in [Clients -> Nat] /\ active \in Nat /\ stage \in [Clients -> Stages]
    BY <1>1 DEF TypeOK
  <1>3. TypeOK'
    <2>1. active' \in Nat /\ held' \in [Clients -> Nat] /\ stage' \in [Clients -> Stages]
      BY <1>2 DEF Stages
    <2>2. asked' \in [Clients -> Nat] /\ wanted' \in [Clients -> Nat]
      BY <1>1 DEF TypeOK
    <2> QED
      BY <1>1, <2>1, <2>2 DEF TypeOK
  <1>4. Conserved'
    <2>1. active' = active + n - held[c] /\ active' \in Nat
      BY <1>2
    <2> QED
      BY <1>1, <1>2, <2>1, MovePermits
  <1>5. HolderLimit'
    <2> SUFFICES ASSUME active' > permits PROVE \E d \in Clients : Holders' = {d}
      BY <1>3, <1>4, LimitNext DEF TypeOK
    <2>1. active = 0
      BY <1>2, LockAssumption DEF Fits
    <2>2. \A d \in Clients : d # c => held'[d] = 0
      BY <1>1, <1>2, <2>1 DEF Conserved
    <2>3. Holders' = {c}
      BY <1>2, <2>2 DEF Holders
    <2> QED
      BY <2>3
  <1>6. NoLostWakeup'
    BY <1>3, <1>4, WakeupNext DEF TypeOK
  <1>7. HeldStages'
    <2> SUFFICES ASSUME NEW d \in Clients
                 PROVE  /\ (held'[d] > 0) <=> stage'[d] \in Keeping
                        /\ stage'[d] = "yielding" => held'[d] = asked'[d]
      BY DEF HeldStages
    <2>1. asked \in [Clients -> Nat]
      BY <1>1 DEF TypeOK
    <2>2. CASE d = c
      BY <1>2, <2>1, <2>2 DEF Keeping
    <2>3. CASE d # c
      BY <1>1, <1>2, <2>1, <2>3 DEF StagesAgree, Keeping
    <2> QED
      BY <2>2, <2>3
  <1>8. StagesAgree'
    BY <1>7, TwoHalvesNext
  <1>9. AskedOK'
    BY <1>1, <1>2 DEF AskedOK, TypeOK
  <1> QED
    BY <1>3, <1>4, <1>5, <1>6, <1>8, <1>9 DEF IInv, LockSafe

(***************************************************************************)
(* take(): the grant leaves the first taker waiting, because active grows; *)
(* else the client goes to the end of the list.                            *)
(***************************************************************************)
LEMMA RequestIInv ==
    ASSUME IInv, NEW c \in Clients, NEW n \in Nat \ {0}, NEW u \in Nat, u # 0 => n = 1,
           Request(c, n, u)
    PROVE  IInv'
  <1>1. TypeOK /\ Conserved /\ HolderLimit /\ NoLostWakeup /\ StagesAgree /\ AskedOK
    BY DEF IInv, LockSafe
  <1>2. /\ stage[c] = "idle" /\ asked' = [asked EXCEPT ![c] = n]
        /\ wanted' = [wanted EXCEPT ![c] = u] /\ UNCHANGED <<alive, granting>>
        /\ ~granting
    BY DEF Request
  <1>3. /\ held \in [Clients -> Nat] /\ active \in Nat /\ stage \in [Clients -> Stages]
        /\ asked \in [Clients -> Nat] /\ takers \in Seq(Clients)
        /\ wanted \in [Clients -> Nat]
    BY <1>1 DEF TypeOK
  <1>4. HeldStages /\ QueueStages
    BY <1>1, <1>3, TwoHalves
  <1>5. \A i \in 1..Len(takers) : takers[i] # c
    BY <1>2, <1>4 DEF QueueStages
  <1>6. takers # <<>> => /\ Head(takers) \in Clients /\ Head(takers) # c
                         /\ asked'[Head(takers)] = asked[Head(takers)]
                         /\ asked[Head(takers)] \in Nat
                         /\ active # 0 /\ ~(active + asked[Head(takers)] <= permits)
    <2>1. ASSUME takers # <<>>
          PROVE  /\ Head(takers) \in Clients /\ Head(takers) # c
      BY <2>1, <1>3, <1>5, HeadTailProperties
    <2> QED
      BY <1>1, <1>2, <1>3, <2>1 DEF NoLostWakeup, Fits
  <1>7. CASE Fits(n)
    <2>1. /\ active' = active + n /\ held' = [held EXCEPT ![c] = n]
          /\ stage' = [stage EXCEPT ![c] = "yielding"] /\ takers' = takers
      BY <1>7 DEF Request
    <2>2. held[c] = 0
      <3>1. ~(held[c] > 0)
        BY <1>2, <1>4 DEF HeldStages, Keeping
      <3>2. held[c] \in Nat
        BY <1>3
      <3> QED
        BY <3>1, <3>2
    <2>3. QueueStages'
      BY <1>2, <1>3, <1>4, <2>1 DEF QueueStages
    <2>4. HeadWaits'
      <3> SUFFICES ASSUME takers # <<>>
                   PROVE  ~(active' + asked'[Head(takers)] <= permits) /\ active' # 0
        BY <2>1 DEF HeadWaits, Fits
      <3>1. permits \in Nat /\ active \in Nat /\ active' = active + n
        BY <1>3, <2>1, LockAssumption
      <3>2. /\ asked'[Head(takers)] = asked[Head(takers)] /\ asked[Head(takers)] \in Nat
            /\ active # 0 /\ ~(active + asked[Head(takers)] <= permits)
        BY <1>6
      <3> QED
        BY ONLY <3>1, <3>2, n \in Nat \ {0}
    <2> QED
      BY <1>2, <1>3, <1>7, <2>1, <2>2, <2>3, <2>4, GrantIInv
  <1>8. CASE ~Fits(n)
    <2>1. /\ UNCHANGED <<active, held>> /\ stage' = [stage EXCEPT ![c] = "queued"]
          /\ takers' = Append(takers, c)
      BY <1>8 DEF Request
    <2>2. /\ takers' \in Seq(Clients) /\ Len(takers') = Len(takers) + 1 /\ Len(takers) \in Nat
          /\ \A i \in 1..Len(takers) : takers'[i] = takers[i]
          /\ takers'[Len(takers) + 1] = c
      BY <1>3, <2>1, AppendProperties, LenProperties
    <2>3. TypeOK'
      BY <1>1, <1>2, <1>3, <2>1, <2>2 DEF TypeOK, Stages
    <2>4. Conserved'
      BY <1>1, <2>1 DEF Conserved, Owned
    <2>5. HolderLimit'
      BY <1>1, <2>1 DEF HolderLimit, Holders
    <2>6. HeadWaits'
      <3>1. takers' # <<>> /\ Head(takers') = takers'[1]
        BY <2>2, HeadTailProperties, EmptySeq
      <3>2. CASE takers = <<>>
        <4>1. Head(takers') = c
          BY <2>2, <3>1, <3>2
        <4> QED
          BY <1>2, <1>3, <1>8, <2>1, <4>1 DEF HeadWaits, Fits
      <3>3. CASE takers # <<>>
        <4>1. Head(takers') = Head(takers)
          BY <1>3, <2>2, <3>1, <3>3, HeadTailProperties, EmptySeq
        <4> QED
          BY <1>3, <1>6, <2>1, <3>3, <4>1 DEF HeadWaits, Fits
      <3> QED
        BY <3>2, <3>3
    <2>7. NoLostWakeup'
      BY <2>3, <2>4, <2>6, WakeupNext DEF TypeOK
    <2>8. HeldStages'
      BY <1>2, <1>3, <1>4, <2>1 DEF HeldStages, Keeping
    <2>9. QueueStages'
      <3>1. ASSUME NEW d \in Clients
            PROVE  (stage'[d] = "queued") <=> \E i \in 1..Len(takers') : takers'[i] = d
        <4>1. CASE d = c
          BY <1>3, <2>1, <2>2, <4>1
        <4>2. CASE d # c
          BY <1>3, <1>4, <2>1, <2>2, <4>2 DEF QueueStages
        <4> QED
          BY <4>1, <4>2
      <3>2. \A i, j \in 1..Len(takers') : takers'[i] = takers'[j] => i = j
        BY <1>4, <1>5, <2>2 DEF QueueStages
      <3> QED
        BY <3>1, <3>2 DEF QueueStages
    <2>10. StagesAgree'
      BY <2>2, <2>8, <2>9, TwoHalvesNext
    <2>11. AskedOK'
      BY <1>1, <1>2, <1>3, <2>1 DEF AskedOK
    <2> QED
      BY <2>3, <2>4, <2>5, <2>7, <2>10, <2>11 DEF IInv, LockSafe
  <1> QED
    BY <1>7, <1>8

(***************************************************************************)
(* take() returns; takeUpTo() adds what is available.  That is never a     *)
(* negative number: who came alone with more than there is asked take().   *)
(***************************************************************************)
LEMMA TakeReturnsIInv ==
    ASSUME IInv, NEW c \in Clients, TakeReturns(c)
    PROVE  IInv'
  <1> DEFINE extra == IF wanted[c] = 0 THEN 0
                      ELSE IF available < wanted[c] - 1 THEN available ELSE wanted[c] - 1
  <1>1. TypeOK /\ Conserved /\ HolderLimit /\ NoLostWakeup /\ StagesAgree /\ AskedOK
    BY DEF IInv, LockSafe
  <1>2. /\ stage[c] = "yielding" /\ stage' = [stage EXCEPT ![c] = "holding"]
        /\ active' = active + extra /\ held' = [held EXCEPT ![c] = held[c] + extra]
        /\ ~granting /\ UNCHANGED <<alive, takers, granting, asked, wanted>>
    BY DEF TakeReturns
  <1>3. /\ held \in [Clients -> Nat] /\ active \in Nat /\ stage \in [Clients -> Stages]
        /\ asked \in [Clients -> Nat] /\ wanted \in [Clients -> Nat] /\ takers \in Seq(Clients)
        /\ permits \in Nat /\ permits > 0
    BY <1>1, LockAssumption DEF TypeOK
  <1>4. HeldStages /\ QueueStages
    BY <1>1, <1>3, TwoHalves
  <1>5. held[c] \in Nat /\ held[c] > 0 /\ held[c] = asked[c] /\ wanted[c] \in Nat
    BY <1>2, <1>3, <1>4 DEF HeldStages, Keeping
  <1>6. /\ extra \in Nat
        /\ active <= permits => active + extra <= permits
        /\ active > permits => extra = 0
    <2>1. CASE wanted[c] = 0
      BY <1>3, <2>1
    <2>2. CASE wanted[c] # 0
      <3>1. held[c] = 1
        BY <1>1, <1>5, <2>2 DEF AskedOK
      <3>2. active <= permits
        <4> SUFFICES ASSUME active > permits PROVE FALSE
          BY <1>3
        <4>1. PICK d \in Clients : Holders = {d}
          BY <1>1 DEF HolderLimit
        <4>2. c \in Holders
          BY <1>5 DEF Holders
        <4>3. active = held[c]
          BY <1>1, <1>3, <4>1, <4>2, HoldersNow
        <4> QED
          BY <1>3, <3>1, <4>3
      <3> QED
        BY <1>3, <1>5, <2>2, <3>2 DEF available
    <2> QED
      BY <2>1, <2>2
  <1> HIDE DEF extra
  <1>7. TypeOK'
    <2>1. active' \in Nat /\ held' \in [Clients -> Nat] /\ stage' \in [Clients -> Stages]
      BY <1>2, <1>3, <1>5, <1>6 DEF Stages
    <2> QED
      BY <1>1, <1>2, <2>1 DEF TypeOK
  <1>8. Conserved'
    <2>1. /\ held[c] + extra \in Nat /\ active' \in Nat
          /\ active' = active + (held[c] + extra) - held[c]
      BY <1>2, <1>3, <1>5, <1>6
    <2> QED
      BY <1>1, <1>2, <1>3, <2>1, MovePermits
  <1>9. HolderLimit'
    <2> SUFFICES ASSUME active' > permits PROVE \E d \in Clients : Holders' = {d}
      BY <1>7, <1>8, LimitNext DEF TypeOK
    <2>1. active > permits /\ extra = 0
      BY <1>2, <1>3, <1>6
    <2>2. held' = held
      BY <1>2, <1>3, <2>1
    <2> QED
      BY <1>1, <2>1, <2>2 DEF HolderLimit, Holders
  <1>10. HeadWaits'
    <2> SUFFICES ASSUME takers # <<>>
                 PROVE  ~(active' + asked[Head(takers)] <= permits) /\ active' # 0
      BY <1>2 DEF HeadWaits, Fits
    <2>1. Head(takers) \in Clients
      BY <1>3, HeadTailProperties
    <2>2. asked[Head(takers)] \in Nat
      BY <1>3, <2>1
    <2>3. ~(active + asked[Head(takers)] <= permits) /\ active # 0
      BY <1>1, <1>2 DEF NoLostWakeup, Fits
    <2>4. active' = active + extra /\ active \in Nat /\ extra \in Nat /\ permits \in Nat
      BY <1>2, <1>3, <1>6
    <2> QED
      BY ONLY <2>2, <2>3, <2>4
  <1>11. NoLostWakeup'
    BY <1>7, <1>8, <1>10, WakeupNext DEF TypeOK
  <1>12. HeldStages'
    <2> SUFFICES ASSUME NEW d \in Clients
                 PROVE  /\ (held'[d] > 0) <=> stage'[d] \in Keeping
                        /\ stage'[d] = "yielding" => held'[d] = asked'[d]
      BY DEF HeldStages
    <2>1. CASE d = c
      BY <1>2, <1>3, <1>5, <1>6, <2>1 DEF Keeping
    <2>2. CASE d # c
      BY <1>2, <1>3, <1>4, <2>2 DEF HeldStages
    <2> QED
      BY <2>1, <2>2
  <1>13. QueueStages'
    BY <1>2, <1>3, <1>4 DEF QueueStages
  <1>14. StagesAgree'
    BY <1>2, <1>3, <1>12, <1>13, TwoHalvesNext
  <1>15. AskedOK'
    BY <1>1, <1>2, <1>3 DEF AskedOK
  <1> QED
    BY <1>7, <1>8, <1>9, <1>11, <1>14, <1>15 DEF IInv, LockSafe

(***************************************************************************)
(* The ways to release: by hand, by signal, and by being cancelled.        *)
(***************************************************************************)
LEMMA ReleasesIInv ==
    ASSUME IInv, NEW c \in Clients, Release(c) \/ SignalFires(c) \/ CancelYielding(c)
    PROVE  IInv'
  <1>1. TypeOK /\ StagesAgree
    BY DEF IInv, LockSafe
  <1>2. /\ held \in [Clients -> Nat] /\ stage \in [Clients -> Stages] /\ takers \in Seq(Clients)
        /\ held[c] \in Nat
    BY <1>1 DEF TypeOK
  <1>3. HeldStages /\ QueueStages
    BY <1>1, <1>2, TwoHalves
  <1>4. ASSUME NEW s, s # "queued", stage[c] # "queued",
               stage' = [stage EXCEPT ![c] = s], takers' = takers
        PROVE  takers' \in Seq(Clients) /\ QueueStages'
    BY <1>2, <1>3, <1>4 DEF QueueStages
  <1>5. CASE Release(c)
    <2>1. PICK amount \in 1..held[c] :
             /\ release(c, amount)
             /\ stage' = [stage EXCEPT ![c] = IF amount = held[c] THEN "idle" ELSE "holding"]
      BY <1>5 DEF Release
    <2> DEFINE s == IF amount = held[c] THEN "idle" ELSE "holding"
    <2>2. /\ stage[c] = "holding" /\ takers' = takers /\ UNCHANGED <<alive, asked, wanted>>
      BY <1>5 DEF Release
    <2>3. /\ s \in {"idle", "holding"} /\ (s = "idle" <=> amount = held[c]) /\ s # "queued"
          /\ amount \in Nat /\ amount <= held[c]
      BY <1>2
    <2>4. stage' = [stage EXCEPT ![c] = s]
      BY <2>1
    <2> HIDE DEF s
    <2>5. takers' \in Seq(Clients) /\ QueueStages'
      BY <1>4, <2>2, <2>3, <2>4
    <2> QED
      BY <2>1, <2>2, <2>3, <2>4, <2>5, ReleaseIInv
  <1>6. CASE SignalFires(c)
    <2>1. /\ stage[c] = "delegated" /\ takers' = takers /\ UNCHANGED <<alive, asked, wanted>>
          /\ stage' = [stage EXCEPT ![c] = "idle"] /\ release(c, held[c])
      BY <1>6 DEF SignalFires
    <2>2. takers' \in Seq(Clients) /\ QueueStages'
      BY <1>4, <2>1
    <2>3. held[c] <= held[c]
      BY <1>2
    <2> QED
      BY <1>2, <2>1, <2>2, <2>3, ReleaseIInv
  <1>7. CASE CancelYielding(c)
    <2>1. /\ stage[c] = "yielding" /\ takers' = takers /\ UNCHANGED <<alive, asked, wanted>>
          /\ stage' = [stage EXCEPT ![c] = "idle"] /\ release(c, asked[c])
      BY <1>7 DEF CancelYielding
    <2>2. takers' \in Seq(Clients) /\ QueueStages'
      BY <1>4, <2>1
    <2>3. asked[c] = held[c] /\ asked[c] \in Nat /\ asked[c] <= held[c]
      BY <1>2, <1>3, <2>1 DEF HeldStages
    <2> QED
      BY <2>1, <2>2, <2>3, ReleaseIInv
  <1> QED
    BY <1>5, <1>6, <1>7

(***************************************************************************)
(* The entry of a cancelled take() is erased, and it had no permits.       *)
(***************************************************************************)
LEMMA CancelQueuedIInv ==
    ASSUME IInv, NEW c \in Clients, CancelQueued(c)
    PROVE  IInv'
  <1>1. TypeOK /\ StagesAgree
    BY DEF IInv, LockSafe
  <1>2. /\ held \in [Clients -> Nat] /\ stage \in [Clients -> Stages] /\ takers \in Seq(Clients)
        /\ DOMAIN takers = 1..Len(takers) /\ Len(takers) \in Nat
    BY <1>1, LenProperties DEF TypeOK
  <1>3. HeldStages /\ QueueStages
    BY <1>1, <1>2, TwoHalves
  <1>4. /\ stage[c] = "queued" /\ stage' = [stage EXCEPT ![c] = "idle"] /\ release(c, 0)
        /\ UNCHANGED <<alive, asked, wanted>>
    BY DEF CancelQueued
  <1>5. PICK i \in 1..Len(takers) : takers[i] = c /\ takers' = RemoveAt(takers, i)
    BY <1>2 DEF CancelQueued
  <1>6. takers' \in Seq(Clients) /\ Len(takers') = Len(takers) - 1
    BY <1>2, <1>5, RemoveAtProperties
  <1>7. QueueStages'
    <2>1. \A j, k \in 1..Len(takers) : takers[j] = takers[k] => j = k
      BY <1>3 DEF QueueStages
    <2>2. /\ \A j, k \in 1..Len(takers') : takers'[j] = takers'[k] => j = k
          /\ \A d \in Clients : (\E j \in 1..Len(takers') : takers'[j] = d)
                                  <=> (d # c /\ \E j \in 1..Len(takers) : takers[j] = d)
      <3>1. /\ \A j, k \in 1..(Len(takers) - 1) :
                 RemoveAt(takers, i)[j] = RemoveAt(takers, i)[k] => j = k
            /\ \A d \in Clients : (\E j \in 1..(Len(takers) - 1) : RemoveAt(takers, i)[j] = d)
                                    <=> (d # takers[i] /\ \E j \in 1..Len(takers) : takers[j] = d)
        <4>1. takers \in Seq(Clients) /\ i \in 1..Len(takers)
          BY <1>2
        <4> QED
          BY ONLY <2>1, <4>1, RemoveAtInjective
      <3> QED
        BY <1>5, <1>6, <3>1
    <2> QED
      BY <1>2, <1>3, <1>4, <2>2 DEF QueueStages
  <1>8. held[c] = 0
    <2>1. ~(held[c] > 0) /\ held[c] \in Nat
      BY <1>2, <1>3, <1>4 DEF HeldStages, Keeping
    <2> QED
      BY <2>1
  <1>9. 0 \in Nat /\ 0 <= held[c]
    BY <1>8
  <1> QED
    BY <1>4, <1>6, <1>7, <1>8, <1>9, ReleaseIInv

(***************************************************************************)
(* Permits change their keeper, not their number.                          *)
(***************************************************************************)
LEMMA ReleaseWhenIInv ==
    ASSUME IInv, NEW c \in Clients, ReleaseWhen(c) \/ SignalLost(c)
    PROVE  IInv'
  <1>1. TypeOK /\ Conserved /\ HolderLimit /\ NoLostWakeup /\ StagesAgree /\ AskedOK
    BY DEF IInv, LockSafe
  <1>2. /\ UNCHANGED <<alive, active, takers, granting, asked, wanted, held>>
        /\ stage[c] \in {"holding", "delegated"}
        /\ \E s \in {"delegated", "lost"} : stage' = [stage EXCEPT ![c] = s]
    BY DEF ReleaseWhen, SignalLost
  <1>3. stage \in [Clients -> Stages]
    BY <1>1 DEF TypeOK
  <1>4. TypeOK'
    BY <1>1, <1>2 DEF TypeOK, Stages
  <1>5. Conserved' /\ HolderLimit'
    BY <1>1, <1>2 DEF Conserved, Owned, HolderLimit, Holders
  <1>6. NoLostWakeup'
    BY <1>1, <1>2 DEF NoLostWakeup, Fits, Holders
  <1>7. StagesAgree'
    BY <1>1, <1>2, <1>3 DEF StagesAgree
  <1>8. AskedOK'
    BY <1>1, <1>2, <1>3 DEF AskedOK
  <1> QED
    BY <1>4, <1>5, <1>6, <1>7, <1>8 DEF IInv, LockSafe

(***************************************************************************)
(* The loop of release() lets the first taker in, or ends.                 *)
(***************************************************************************)
LEMMA GrantNextIInv ==
    ASSUME IInv, GrantNext
    PROVE  IInv'
  <1> DEFINE c == Head(takers)
  <1>1. TypeOK /\ StagesAgree /\ AskedOK
    BY DEF IInv, LockSafe
  <1>2. /\ takers \in Seq(Clients) /\ takers # <<>> /\ takers' = Tail(takers)
        /\ held \in [Clients -> Nat] /\ stage \in [Clients -> Stages]
        /\ asked \in [Clients -> Nat] /\ wanted \in [Clients -> Nat]
    BY <1>1 DEF GrantNext, TypeOK
  <1>3. /\ c \in Clients /\ c = takers[1] /\ Len(takers) \in Nat /\ Len(takers) > 0
        /\ takers' \in Seq(Clients) /\ Len(takers') = Len(takers) - 1
        /\ \A i \in 1..Len(takers') : takers'[i] = takers[i + 1]
    BY <1>2, HeadTailProperties, LenProperties, EmptySeq
  <1>4. /\ granting /\ Fits(asked[c]) /\ active' = active + asked[c]
        /\ held' = [held EXCEPT ![c] = asked[c]] /\ stage' = [stage EXCEPT ![c] = "yielding"]
        /\ UNCHANGED <<alive, granting, asked, wanted>>
    BY DEF GrantNext
  <1> HIDE DEF c
  <1>5. HeldStages /\ QueueStages
    BY <1>1, <1>2, TwoHalves
  <1>6. stage[c] = "queued"
    BY <1>3, <1>5 DEF QueueStages
  <1>7. held[c] = 0
    <2>1. ~(held[c] > 0) /\ held[c] \in Nat
      BY <1>2, <1>3, <1>5, <1>6 DEF HeldStages, Keeping
    <2> QED
      BY <2>1
  <1>8. /\ asked[c] \in Nat \ {0} /\ wanted[c] \in Nat /\ (wanted[c] # 0 => asked[c] = 1)
        /\ asked' = [asked EXCEPT ![c] = asked[c]] /\ wanted' = [wanted EXCEPT ![c] = wanted[c]]
    BY <1>1, <1>2, <1>3, <1>4, <1>6 DEF AskedOK
  <1>9. QueueStages'
    <2>1. \A j, k \in 1..Len(takers') : takers'[j] = takers'[k] => j = k
      BY <1>3, <1>5 DEF QueueStages
    <2>2. ASSUME NEW d \in Clients
          PROVE  (stage'[d] = "queued") <=> \E j \in 1..Len(takers') : takers'[j] = d
      <3>1. CASE d = c
        <4>1. \A j \in 1..Len(takers') : takers'[j] # d
          BY <1>3, <1>5, <3>1 DEF QueueStages
        <4>2. stage'[d] # "queued"
          BY <1>2, <1>4, <3>1
        <4> QED
          BY <4>1, <4>2
      <3>2. CASE d # c
        <4>1. stage'[d] = stage[d]
          BY <1>2, <1>4, <3>2
        <4>2. ASSUME NEW j \in 1..Len(takers), takers[j] = d
              PROVE  \E k \in 1..Len(takers') : takers'[k] = d
          <5>1. j - 1 \in 1..Len(takers') /\ takers'[j - 1] = takers[j]
            BY <1>3, <3>2, <4>2
          <5> QED
            BY <4>2, <5>1
        <4>3. ASSUME NEW k \in 1..Len(takers'), takers'[k] = d
              PROVE  \E j \in 1..Len(takers) : takers[j] = d
          BY <1>3, <4>3
        <4> QED
          BY <1>5, <4>1, <4>2, <4>3 DEF QueueStages
      <3> QED
        BY <3>1, <3>2
    <2> QED
      BY <2>1, <2>2 DEF QueueStages
  <1>10. HeadWaits'
    BY <1>4 DEF HeadWaits
  <1> QED
    BY <1>3, <1>4, <1>7, <1>8, <1>9, <1>10, GrantIInv

(***************************************************************************)
(* release() stops granting: the head of the queue does not fit.           *)
(***************************************************************************)
LEMMA GrantStopIInv ==
    ASSUME IInv, GrantStop
    PROVE  IInv'
  <1>1. TypeOK /\ Conserved /\ HolderLimit /\ StagesAgree /\ AskedOK
    BY DEF IInv, LockSafe
  <1>2. UNCHANGED <<alive, active, takers, stage, asked, wanted, held>>
    BY DEF GrantStop
  <1>3. granting' \in BOOLEAN
    BY Zenon DEF GrantStop
  <1>4. TypeOK'
    BY <1>1, <1>2, <1>3 DEF TypeOK
  <1>5. Conserved' /\ HolderLimit'
    BY <1>1, <1>2 DEF Conserved, Owned, HolderLimit, Holders
  <1>6. HeadWaits'
    BY DEF GrantStop, HeadWaits, Fits
  <1>7. NoLostWakeup'
    BY <1>4, <1>5, <1>6, WakeupNext DEF TypeOK
  <1>8. StagesAgree' /\ AskedOK'
    BY <1>1, <1>2 DEF StagesAgree, AskedOK
  <1> QED
    BY <1>4, <1>5, <1>7, <1>8 DEF IInv, LockSafe

(***************************************************************************)
(* The lock is destroyed.                                                  *)
(***************************************************************************)
LEMMA DestroyIInv ==
    ASSUME IInv, Destroy
    PROVE  IInv'
  <1>1. TypeOK /\ AskedOK
    BY DEF IInv, LockSafe
  <1>2. alive' \in BOOLEAN /\ granting' \in BOOLEAN
    BY <1>1, Zenon DEF Destroy, TypeOK
  <1>3. /\ active' = 0 /\ takers' = <<>> /\ held' = [c \in Clients |-> 0]
        /\ stage' = [c \in Clients |-> IF stage[c] \in {"queued", "yielding"}
                                       THEN "broken" ELSE "idle"]
        /\ UNCHANGED <<granting, asked, wanted>>
    BY DEF Destroy
  <1>4. TypeOK'
    BY <1>1, <1>2, <1>3, EmptySeq DEF TypeOK, Stages
  <1>5. Conserved'
    <2>1. Owned' = {}
      BY <1>3 DEF Owned
    <2> QED
      BY <1>3, <2>1, FS_EmptySet DEF Conserved
  <1>6. HolderLimit'
    BY <1>3, <1>4, <1>5, LimitNext, LockAssumption DEF TypeOK
  <1>7. NoLostWakeup' /\ StagesAgree'
    BY <1>3 DEF NoLostWakeup, StagesAgree
  <1>8. AskedOK'
    BY <1>1, <1>3 DEF AskedOK
  <1> QED
    BY <1>4, <1>5, <1>6, <1>7, <1>8 DEF IInv, LockSafe

(***************************************************************************)
(* Every step keeps the invariant.                                         *)
(***************************************************************************)
LEMMA NextIInv ==
    ASSUME IInv, [Next]_vars
    PROVE  IInv'
  <1>1. ASSUME NEW c \in Clients, Take(c)
        PROVE  IInv'
    <2>1. PICK n \in Amounts : Request(c, n, 0)
      BY <1>1 DEF Take
    <2>2. n \in Nat \ {0} /\ 0 \in Nat
      BY LockAssumption
    <2> QED
      BY <2>1, <2>2, RequestIInv
  <1>2. ASSUME NEW c \in Clients, TakeUpTo(c)
        PROVE  IInv'
    <2>1. PICK u \in UpTo : Request(c, 1, u)
      BY <1>2 DEF TakeUpTo
    <2>2. u \in Nat /\ 1 \in Nat \ {0}
      BY LockAssumption
    <2> QED
      BY <2>1, <2>2, RequestIInv
  <1>3. ASSUME NEW c \in Clients, ClientStep(c)
        PROVE  IInv'
    BY <1>1, <1>2, <1>3, TakeReturnsIInv, ReleasesIInv, ReleaseWhenIInv, CancelQueuedIInv
    DEF ClientStep
  <1>4. CASE UNCHANGED vars
    <2>1. TypeOK' /\ Conserved' /\ HolderLimit'
      BY <1>4 DEF IInv, LockSafe, TypeOK, Conserved, Owned, HolderLimit, Holders, vars
    <2>2. NoLostWakeup' /\ StagesAgree' /\ AskedOK'
      BY <1>4 DEF IInv, LockSafe, NoLostWakeup, Fits, Holders, StagesAgree, AskedOK, vars
    <2> QED
      BY <2>1, <2>2 DEF IInv, LockSafe
  <1> QED
    BY <1>3, <1>4, GrantNextIInv, GrantStopIInv, DestroyIInv DEF Next, LoopStep

(***************************************************************************)
(* FlowLock is safe, for any number of clients and permits: permits are    *)
(* conserved through every release, cancellation and destruction, no more  *)
(* clients than permits are let in, a first taker only waits when it does  *)
(* not fit, and nobody is in the list twice or has permits unknowingly.    *)
(***************************************************************************)
THEOREM LockIsSafe == Spec => []LockSafe
  <1>1. Init => IInv
    BY InitIInv
  <1>2. IInv /\ [Next]_vars => IInv'
    BY NextIInv
  <1>3. IInv => LockSafe
    BY DEF IInv
  <1> QED
    BY <1>1, <1>2, <1>3, PTL DEF Spec
=============================================================================
