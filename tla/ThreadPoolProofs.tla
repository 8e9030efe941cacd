-------------------------- MODULE ThreadPoolProofs --------------------------
(***************************************************************************)
(* Proofs about module ThreadPool, for any number of threads and actions.  *)
(***************************************************************************)
EXTENDS ThreadPool, SequenceLemmas, TLAPS

(***************************************************************************)
(* The variables that TypeOK leaves open.                                  *)
(***************************************************************************)
Types ==
    /\ threads \in Seq(Threads) /\ thr \in [Threads -> Places \union Actions]
    /\ ios \in Seq(Actions) /\ deleted \in BOOLEAN

(***************************************************************************)
(* The vector holds each thread that was added, once.                      *)
(***************************************************************************)
Added ==
    /\ Distinct(threads)
    /\ \A t \in Threads : thr[t] = "absent" <=> t \notin ToSet(threads)

(***************************************************************************)
(* stop() walks through the vector; the pool has a reference of its holder *)
(* and one of a stop() in progress, runs while it is held, and is          *)
(* destroyed by the end of the stop() that drops the last of them.         *)
(***************************************************************************)
Counts ==
    /\ joining \in 0..(Len(threads) + 1)
    /\ refs = (IF held THEN 1 ELSE 0) + (IF joining > 0 THEN 1 ELSE 0)
    /\ mode = "Run" => held /\ joining = 0
    /\ deleted => ~held /\ joining = 0

(***************************************************************************)
(* The inductive invariant.                                                *)
(***************************************************************************)
PoolInv == TypeOK /\ NoUseAfterFree /\ ActionsOnce /\ Types /\ Added /\ Counts

(***************************************************************************)
(* There are not more threads in the vector than there are threads.        *)
(***************************************************************************)
LEMMA VectorBounded ==
    ASSUME ThreadPoolAssumption, NEW s \in Seq(Threads), Distinct(s)
    PROVE  Len(s) \in Nat /\ Cardinality(Threads) \in Nat /\ Len(s) <= Cardinality(Threads)
  <1>1. IsFiniteSet(Threads)
    BY DEF ThreadPoolAssumption
  <1>2. Cardinality(ToSet(s)) = Len(s) /\ Len(s) \in Nat
    BY ONLY s \in Seq(Threads), Distinct(s), DistinctLength
  <1>3. ToSet(s) \subseteq Threads
    BY ONLY s \in Seq(Threads), ToSetMember
  <1> QED
    BY <1>1, <1>2, <1>3, FS_Subset, FS_CardinalityType

(***************************************************************************)
(* An injective sequence in the words of the lemmas.                       *)
(***************************************************************************)
LEMMA InjectiveDistinct ==
    ASSUME NEW S, NEW s \in Seq(S)
    PROVE  IsInjective(s) <=> Distinct(s)
  BY LenProperties DEF IsInjective, Distinct

(***************************************************************************)
(* A thread that has begun and has not stopped goes on to another place:   *)
(* it is not one that stop() has waited for.                               *)
(***************************************************************************)
LEMMA ThreadMoves ==
    ASSUME ThreadPoolAssumption, PoolInv, NEW t \in Threads, NEW l \in Places \union Actions,
           thr[t] \notin {"absent", "stopped"}, l # "absent",
           Goto(t, l), Own, ios' \in Seq(Actions)
    PROVE  NoUseAfterFree' /\ Types' /\ Added' /\ Counts'
  <1>1. /\ thr' = [thr EXCEPT ![t] = l]
        /\ held' = held /\ refs' = refs /\ mode' = mode /\ deleted' = deleted
        /\ threads' = threads /\ joining' = joining
    BY DEF Goto, Own
  <1>2. Types'
    BY <1>1 DEF PoolInv, Types
  <1>3. Added'
    BY <1>1 DEF PoolInv, Added, Types, Distinct
  <1>4. Counts'
    BY <1>1 DEF PoolInv, Counts
  <1>5. NoUseAfterFree'
    <2> SUFFICES ASSUME NEW n \in DOMAIN threads, n < joining \/ deleted
                 PROVE  thr'[threads[n]] = "stopped"
      BY <1>1 DEF NoUseAfterFree
    <2>1. thr[threads[n]] = "stopped"
      BY DEF PoolInv, NoUseAfterFree
    <2>2. threads[n] \in Threads /\ thr \in [Threads -> Places \union Actions]
      BY ElementOfSeq, LenProperties DEF PoolInv, Types
    <2> QED
      BY <1>1, <2>1, <2>2
  <1> QED
    BY <1>2, <1>3, <1>4, <1>5

(***************************************************************************)
(* What the invariant says of the variables, for the steps below.          *)
(***************************************************************************)
LEMMA Facts ==
    ASSUME ThreadPoolAssumption, PoolInv
    PROVE  /\ threads \in Seq(Threads) /\ thr \in [Threads -> Places \union Actions]
           /\ ios \in Seq(Actions) /\ Distinct(ios) /\ Len(ios) \in Nat
           /\ ToSet(ios) \subseteq Actions
           /\ act \in [Actions -> {"new", "posted", "running", "done", "cancelled"}]
           /\ \A a \in Actions : act[a] = "posted" <=> a \in ToSet(ios)
           /\ \A a \in Actions : act[a] = "running" <=> \E t \in Threads : thr[t] = a
           /\ \A t, u \in Threads : thr[t] \in Actions /\ thr[u] = thr[t] => u = t
           /\ \A a \in Actions : a \notin Places
           /\ held \in BOOLEAN /\ mode \in {"Run", "Shutdown"} /\ refs \in 0..2
  <1>1. Distinct(ios)
    BY InjectiveDistinct DEF PoolInv, ActionsOnce, Types
  <1>2. ToSet(ios) \subseteq Actions /\ Len(ios) \in Nat
    BY ToSetMember DEF PoolInv, Types
  <1> QED
    BY <1>1, <1>2 DEF PoolInv, ActionsOnce, Types, TypeOK, ThreadPoolAssumption

(***************************************************************************)
(* A step that leaves actions alone leaves them in their places.           *)
(***************************************************************************)
LEMMA SameActions ==
    ASSUME ThreadPoolAssumption, PoolInv, ios' = ios, act' = act, thr' \in [Threads -> Places \union Actions],
           \A t \in Threads : thr'[t] = thr[t] \/ {thr'[t], thr[t]} \subseteq Places
    PROVE  ActionsOnce'
  <1>1. \A a \in Actions, t \in Threads : thr'[t] = a <=> thr[t] = a
    BY DEF ThreadPoolAssumption
  <1>2. \A t \in Threads : thr'[t] \in Actions => thr'[t] = thr[t]
    BY <1>1
  <1> QED
    BY <1>1, <1>2, Facts DEF ActionsOnce, PoolInv

-----------------------------------------------------------------------------
\* The invariant, action by action.

(***************************************************************************)
(* A new pool satisfies the invariant.                                     *)
(***************************************************************************)
LEMMA InitPoolInv ==
    ASSUME ThreadPoolAssumption, Init
    PROVE  PoolInv
  <1>1. /\ threads = <<>> /\ ios = <<>> /\ Len(threads) = 0 /\ threads \in Seq(Threads)
        /\ ios \in Seq(Actions) /\ ToSet(threads) = {} /\ ToSet(ios) = {} /\ DOMAIN ios = {} /\ DOMAIN threads = {}
    BY EmptySeq DEF Init, ToSet
  <1>2. thr = [t \in Threads |-> "absent"] /\ act = [a \in Actions |-> "new"]
    BY DEF Init
  <1>3. Cardinality(Threads) \in Nat /\ \A a \in Actions : a \notin Places
    BY FS_CardinalityType DEF ThreadPoolAssumption
  <1>4. TypeOK
    BY <1>1, <1>2, <1>3 DEF Init, TypeOK
  <1>5. ActionsOnce
    BY <1>1, <1>2, <1>3 DEF ActionsOnce, IsInjective, Places
  <1>6. NoUseAfterFree
    BY <1>1 DEF NoUseAfterFree
  <1>7. Types /\ Added /\ Counts
    <2>1. Types
      BY <1>1, <1>2 DEF Init, Types, Places
    <2>2. Added
      BY <1>1, <1>2 DEF Added, Distinct
    <2>3. Counts
      BY <1>1 DEF Init, Counts
    <2> QED
      BY <2>1, <2>2, <2>3
  <1> QED
    BY <1>4, <1>5, <1>6, <1>7 DEF PoolInv

(***************************************************************************)
(* A thread is added to a running pool.                                    *)
(***************************************************************************)
LEMMA AddThreadInv ==
    ASSUME ThreadPoolAssumption, PoolInv, NEW t \in Threads, AddThread(t)
    PROVE  PoolInv'
  <1>1. /\ held /\ joining = 0 /\ thr[t] = "absent" /\ mode = "Run" /\ refs = 1 /\ ~deleted
        /\ threads' = Append(threads, t) /\ thr' = [thr EXCEPT ![t] = "init"]
        /\ UNCHANGED <<held, refs, mode, ios, deleted, act, joining>>
    BY DEF AddThread, PoolInv, Counts, TypeOK
  <1>2. /\ threads \in Seq(Threads) /\ thr \in [Threads -> Places \union Actions] /\ Distinct(threads)
        /\ t \notin ToSet(threads)
    BY <1>1 DEF PoolInv, Types, Added
  <1>3. /\ threads' \in Seq(Threads) /\ Len(threads') = Len(threads) + 1 /\ Distinct(threads')
        /\ ToSet(threads') = ToSet(threads) \union {t} /\ Len(threads) \in Nat
    BY <1>1, <1>2, AppendDistinct, LenProperties
  <1>4. Types' /\ Added' /\ Counts'
    <2>1. Types'
      BY <1>1, <1>2, <1>3 DEF PoolInv, Types, Places
    <2>2. Added'
      BY <1>1, <1>2, <1>3 DEF PoolInv, Added
    <2>3. Counts'
      BY <1>1, <1>3 DEF PoolInv, Counts
    <2> QED
      BY <2>1, <2>2, <2>3
  <1>5. TypeOK'
    BY <1>1 DEF PoolInv, TypeOK
  <1>6. NoUseAfterFree'
    <2>1. DOMAIN threads' = 1..Len(threads')
      BY <1>3, LenProperties
    <2> QED
      BY <1>1, <1>3, <2>1 DEF NoUseAfterFree
  <1>7. ActionsOnce'
    <2>1. \A u \in Threads : thr'[u] = thr[u] \/ {thr'[u], thr[u]} \subseteq Places
      BY <1>1, <1>2 DEF Places
    <2>2. thr' \in [Threads -> Places \union Actions]
      BY <1>4 DEF Types
    <2> QED
      BY <1>1, <2>1, <2>2, SameActions
  <1> QED
    BY <1>4, <1>5, <1>6, <1>7 DEF PoolInv

(***************************************************************************)
(* An action is posted.                                                    *)
(***************************************************************************)
LEMMA PostInv ==
    ASSUME ThreadPoolAssumption, PoolInv, NEW a \in Actions, Post(a)
    PROVE  PoolInv'
  <1>1. /\ act[a] = "new" /\ ios' = Append(ios, a) /\ act' = [act EXCEPT ![a] = "posted"]
        /\ UNCHANGED <<held, refs, mode, deleted, threads, thr, joining>>
    BY DEF Post
  <1>2. a \notin ToSet(ios) /\ ios \in Seq(Actions) /\ Distinct(ios)
    BY <1>1, Facts
  <1>3. ios' \in Seq(Actions) /\ Distinct(ios') /\ ToSet(ios') = ToSet(ios) \union {a}
    BY <1>1, <1>2, AppendDistinct
  <1>4. Types' /\ Added' /\ Counts' /\ NoUseAfterFree'
    BY <1>1, <1>3 DEF PoolInv, Types, Added, Counts, NoUseAfterFree, Distinct, ToSet
  <1>5. TypeOK'
    BY <1>1, <1>3 DEF PoolInv, TypeOK
  <1>6. ActionsOnce'
    <2>1. IsInjective(ios')
      BY <1>3, InjectiveDistinct
    <2>2. \A b \in Actions : act'[b] = "posted" <=> b \in ToSet(ios')
      BY <1>1, <1>3, Facts
    <2>3. \A b \in Actions : act'[b] = "running" <=> \E t \in Threads : thr'[t] = b
      BY <1>1, Facts
    <2> QED
      BY <1>1, <2>1, <2>2, <2>3, Facts DEF ActionsOnce
  <1> QED
    BY <1>4, <1>5, <1>6 DEF PoolInv

(***************************************************************************)
(* stop() begins, after which the network thread is in it.                 *)
(***************************************************************************)
LEMMA StopInv ==
    ASSUME ThreadPoolAssumption, PoolInv, Stop \/ Drop
    PROVE  PoolInv'
  <1>1. /\ held /\ joining = 0 /\ refs = 1 /\ ~deleted /\ mode \in {"Run", "Shutdown"}
        /\ UNCHANGED <<ios, deleted, threads, thr, act>>
    BY DEF Stop, Drop, PoolInv, Counts, TypeOK
  <1>2. \/ held' = TRUE /\ mode' = "Shutdown" /\ joining' = 1 /\ refs' = 2
        \/ held' = FALSE /\ mode' = "Shutdown" /\ joining' = 1 /\ refs' = 1
        \/ held' = FALSE /\ mode' = "Shutdown" /\ joining' = 0 /\ refs' = 0
    <2>1. CASE Stop
      <3>1. held' = held /\ held \in BOOLEAN /\ mode' = "Shutdown" /\ joining' = 1 /\ refs' = refs + 1
        BY <2>1, Facts DEF Stop, EnterStop
      <3> QED
        BY <1>1, <3>1
    <2>2. CASE Drop
      BY <1>1, <2>2 DEF Drop, EnterStop
    <2> QED
      BY <2>1, <2>2
  <1>3. Len(threads) \in Nat /\ Cardinality(Threads) \in Nat
    BY VectorBounded DEF PoolInv, Types, Added
  <1>4. TypeOK'
    <2>1. joining' \in 0..(Cardinality(Threads) + 1) /\ refs' \in 0..2
      BY <1>2, <1>3
    <2>2. held' \in BOOLEAN /\ mode' \in {"Run", "Shutdown"}
      BY ONLY <1>2, Zenon
    <2>3. ToSet(ios') \subseteq Actions
      BY <1>1, Facts
    <2>4. act' \in [Actions -> {"new", "posted", "running", "done", "cancelled"}]
      BY <1>1, Facts
    <2> QED
      BY <2>1, <2>2, <2>3, <2>4 DEF TypeOK
  <1>5. Types' /\ Added'
    BY <1>1 DEF PoolInv, Types, Added, Distinct, ToSet
  <1>6. Counts'
    BY <1>1, <1>2, <1>3 DEF Counts
  <1>7. NoUseAfterFree'
    <2>1. \A n \in DOMAIN threads : n \in Nat /\ n >= 1
      BY LenProperties DEF PoolInv, Types
    <2>2. joining' \in {0, 1}
      BY <1>2
    <2>3. \A n \in DOMAIN threads : ~(n < joining')
      BY <2>1, <2>2
    <2> QED
      BY <1>1, <2>3 DEF NoUseAfterFree
  <1>8. ActionsOnce'
    BY <1>1, SameActions, Facts
  <1> QED
    BY <1>4, <1>5, <1>6, <1>7, <1>8 DEF PoolInv

(***************************************************************************)
(* stop() has waited for one more thread.                                  *)
(***************************************************************************)
LEMMA JoinInv ==
    ASSUME ThreadPoolAssumption, PoolInv, Join
    PROVE  PoolInv'
  <1>1. /\ joining \in DOMAIN threads /\ thr[threads[joining]] = "stopped" /\ joining' = joining + 1
        /\ UNCHANGED <<held, refs, mode, ios, deleted, threads, thr, act>>
    BY DEF Join, Joined
  <1>2. /\ Len(threads) \in Nat /\ Cardinality(Threads) \in Nat /\ Len(threads) <= Cardinality(Threads)
        /\ DOMAIN threads = 1..Len(threads)
    BY VectorBounded, LenProperties DEF PoolInv, Types, Added
  <1>3. TypeOK'
    BY <1>1, <1>2 DEF PoolInv, TypeOK
  <1>4. Types' /\ Added'
    BY <1>1 DEF PoolInv, Types, Added, Distinct, ToSet
  <1>5. Counts'
    BY <1>1, <1>2 DEF PoolInv, Counts
  <1>6. NoUseAfterFree'
    <2>1. \A n \in DOMAIN threads : n < joining + 1 => n < joining \/ n = joining
      BY <1>1, <1>2
    <2> QED
      BY <1>1, <2>1 DEF PoolInv, NoUseAfterFree
  <1>7. ActionsOnce'
    BY <1>1, SameActions, Facts
  <1> QED
    BY <1>3, <1>4, <1>5, <1>6, <1>7 DEF PoolInv

(***************************************************************************)
(* stop() returns: all threads were waited for, and the last reference     *)
(* cancels what is left in the io_service.                                 *)
(***************************************************************************)
LEMMA StopReturnsInv ==
    ASSUME ThreadPoolAssumption, PoolInv, StopReturns
    PROVE  PoolInv'
  <1>1. /\ joining > Len(threads) /\ joining' = 0 /\ refs' = refs - 1
        /\ UNCHANGED <<held, mode, threads, thr>>
        /\ \/ refs = 1 /\ deleted' = TRUE /\ ios' = <<>> /\ act' = Cancelled(ios)
           \/ refs # 1 /\ UNCHANGED <<deleted, ios, act>>
    BY DEF StopReturns
  <1>2. /\ Len(threads) \in Nat /\ Cardinality(Threads) \in Nat
        /\ DOMAIN threads = 1..Len(threads)
    BY VectorBounded, LenProperties DEF PoolInv, Types, Added
  <1>3. /\ joining \in Nat /\ joining > 0 /\ ~deleted /\ mode = "Shutdown"
        /\ refs = (IF held THEN 1 ELSE 0) + 1
    BY <1>1, <1>2 DEF PoolInv, Counts, TypeOK
  <1>4. \A n \in DOMAIN threads : thr[threads[n]] = "stopped"
    <2>1. \A n \in DOMAIN threads : n < joining
      BY <1>1, <1>2, <1>3
    <2> QED
      BY <2>1 DEF PoolInv, NoUseAfterFree
  <1>5. NoUseAfterFree'
    BY <1>1, <1>4 DEF NoUseAfterFree
  <1>6. Counts'
    <2>1. held \in BOOLEAN /\ (refs = 1 => ~held)
      BY <1>3, Facts
    <2> QED
      BY <1>1, <1>2, <1>3, <2>1 DEF Counts
  <1>7. Added'
    BY <1>1 DEF PoolInv, Added, Distinct, ToSet
  <1>8. CASE refs # 1
    <2>1. UNCHANGED <<deleted, ios, act>>
      BY <1>1, <1>8
    <2>2. Types'
      BY <1>1, <2>1 DEF PoolInv, Types
    <2>3. ActionsOnce'
      BY <1>1, <2>1, SameActions, Facts
    <2>4. TypeOK'
      BY <1>1, <1>2, <1>3, <1>8, <2>1, Facts DEF PoolInv, TypeOK
    <2> QED
      BY <1>5, <1>6, <1>7, <2>2, <2>3, <2>4 DEF PoolInv
  <1>9. CASE refs = 1
    <2>1. deleted' = TRUE /\ ios' = <<>> /\ act' = Cancelled(ios)
      BY <1>1, <1>9
    <2>2. ios' \in Seq(Actions) /\ ToSet(ios') = {} /\ DOMAIN ios' = {}
      BY <2>1, EmptySeq DEF ToSet
    <2>3. Types'
      BY <1>1, <2>1, <2>2 DEF PoolInv, Types
    <2>4. act' = [a \in Actions |-> IF a \in ToSet(ios) THEN "cancelled" ELSE act[a]]
      BY <2>1 DEF Cancelled
    <2>5. act' \in [Actions -> {"new", "posted", "running", "done", "cancelled"}]
      BY <2>4, Facts
    <2>6. TypeOK'
      BY <1>1, <1>2, <1>3, <1>9, <2>2, <2>5, Facts DEF TypeOK
    <2>7. \A a \in Actions : act'[a] = "posted" <=> a \in ToSet(ios')
      BY <2>2, <2>4, Facts
    <2>8. \A a \in Actions : act'[a] = "running" <=> act[a] = "running"
      BY <2>4, Facts
    <2>9. ActionsOnce'
      BY <1>1, <2>2, <2>7, <2>8, Facts DEF ActionsOnce, IsInjective
    <2> QED
      BY <1>5, <1>6, <1>7, <2>3, <2>6, <2>9 DEF PoolInv
  <1> QED
    BY <1>8, <1>9

(***************************************************************************)
(* The steps of a thread that do not touch an action.                      *)
(***************************************************************************)
LEMMA PlainStepInv ==
    ASSUME ThreadPoolAssumption, PoolInv, NEW t \in Threads,
           InitThread(t) \/ LeaveLoop(t) \/ SetStopped(t)
    PROVE  PoolInv'
  <1>1. PICK l \in {"idle", "exiting", "stopped"} : Goto(t, l)
    BY DEF InitThread, LeaveLoop, SetStopped
  <1>2. thr[t] \in {"init", "idle", "exiting"} /\ Own /\ UNCHANGED <<ios, act>>
    BY DEF InitThread, LeaveLoop, SetStopped
  <1>3. l \in Places /\ l # "absent" /\ thr[t] \notin {"absent", "stopped"} /\ ios' \in Seq(Actions)
    BY <1>2, Facts DEF Places
  <1>4. NoUseAfterFree' /\ Types' /\ Added' /\ Counts'
    BY <1>1, <1>2, <1>3, ThreadMoves
  <1>5. ActionsOnce'
    <2>1. \A u \in Threads : thr'[u] = thr[u] \/ {thr'[u], thr[u]} \subseteq Places
      BY <1>1, <1>2, <1>3, Facts DEF Goto, Places
    <2> QED
      BY <1>2, <1>4, <2>1, SameActions DEF Types
  <1>6. TypeOK'
    BY <1>2 DEF PoolInv, TypeOK, Own
  <1> QED
    BY <1>4, <1>5, <1>6 DEF PoolInv

(***************************************************************************)
(* run_one() takes the oldest action out of the io_service.                *)
(***************************************************************************)
LEMMA TakeActionInv ==
    ASSUME ThreadPoolAssumption, PoolInv, NEW t \in Threads, TakeAction(t)
    PROVE  PoolInv'
  <1> DEFINE a == Head(ios)
  <1>1. /\ thr[t] = "idle" /\ ios # <<>> /\ Goto(t, a) /\ ios' = Tail(ios)
        /\ act' = [act EXCEPT ![a] = "running"] /\ Own
    BY DEF TakeAction
  <1>2. /\ ios \in Seq(Actions) /\ Distinct(ios) /\ Len(ios) \in Nat /\ Len(ios) >= 1
        /\ DOMAIN ios = 1..Len(ios) /\ a = ios[1] /\ a \in Actions
        /\ ios' \in Seq(Actions) /\ Len(ios') = Len(ios) - 1
        /\ \A i \in 1..(Len(ios) - 1) : ios'[i] = ios[i + 1]
    BY <1>1, Facts, LenProperties, HeadTailProperties, EmptySeq
  <1> HIDE DEF a
  <1>3. /\ \A x : x \in ToSet(ios) <=> \E i \in 1..Len(ios) : ios[i] = x
        /\ \A x : x \in ToSet(ios') <=> \E i \in 1..Len(ios') : ios'[i] = x
    BY <1>2, ToSetMember
  <1>4. Distinct(ios')
    BY <1>2 DEF Distinct
  <1>5. ToSet(ios') = ToSet(ios) \ {a}
    <2>1. ASSUME NEW x \in ToSet(ios') PROVE x \in ToSet(ios) /\ x # a
      <3>1. PICK i \in 1..(Len(ios) - 1) : ios[i + 1] = x
        BY <1>2, <1>3
      <3>2. i + 1 \in 1..Len(ios) /\ 1 \in 1..Len(ios) /\ i + 1 # 1
        BY <1>2
      <3> QED
        BY <1>2, <1>3, <3>1, <3>2 DEF Distinct
    <2>2. ASSUME NEW x \in ToSet(ios), x # a PROVE x \in ToSet(ios')
      <3>1. PICK i \in 1..Len(ios) : ios[i] = x
        BY <1>3
      <3>2. i # 1
        BY <1>2, <2>2, <3>1
      <3>3. i - 1 \in 1..(Len(ios) - 1) /\ (i - 1) + 1 = i
        BY <1>2, <3>2
      <3>4. ios'[i - 1] = x
        BY <1>2, <3>1, <3>3
      <3> QED
        BY <1>2, <1>3, <3>3, <3>4
    <2> QED
      BY <2>1, <2>2
  <1>6. a \in ToSet(ios) /\ a \notin Places /\ act[a] = "posted"
    BY <1>2, <1>3, Facts
  <1>7. thr' = [thr EXCEPT ![t] = a] /\ thr \in [Threads -> Places \union Actions]
    BY <1>1, Facts DEF Goto
  <1>8. NoUseAfterFree' /\ Types' /\ Added' /\ Counts'
    <2>1. a \in Places \union Actions /\ a # "absent" /\ thr[t] \notin {"absent", "stopped"}
      BY <1>1, <1>2, <1>6 DEF Places
    <2> QED
      BY <1>1, <1>2, <2>1, ThreadMoves
  <1>9. act' \in [Actions -> {"new", "posted", "running", "done", "cancelled"}]
    BY <1>1, Facts
  <1>10. TypeOK'
    BY <1>1, <1>5, <1>9, Facts DEF PoolInv, TypeOK, Own
  <1>11. ActionsOnce'
    <2>1. IsInjective(ios')
      BY <1>2, <1>4, InjectiveDistinct
    <2>2. \A b \in Actions : act'[b] = "posted" <=> b \in ToSet(ios')
      BY <1>1, <1>5, Facts
    <2>3. \A u \in Threads : thr[u] # a
      BY <1>2, <1>6, Facts
    <2>4. \A b \in Actions : act'[b] = "running" <=> \E u \in Threads : thr'[u] = b
      <3>1. ASSUME NEW b \in Actions, b # a
            PROVE  (\E u \in Threads : thr'[u] = b) <=> \E u \in Threads : thr[u] = b
        <4>1. b \notin Places
          BY Facts
        <4> QED
          BY <1>1, <1>7, <3>1, <4>1 DEF Places
      <3>2. thr'[t] = a /\ act'[a] = "running"
        BY <1>1, <1>2, <1>7, Facts
      <3>3. \A b \in Actions : b # a => act'[b] = act[b]
        BY <1>1, Facts
      <3> QED
        BY <3>1, <3>2, <3>3, Facts
    <2>5. \A u, v \in Threads : thr'[u] \in Actions /\ thr'[v] = thr'[u] => v = u
      BY <1>7, <2>3, Facts
    <2> QED
      BY <2>1, <2>2, <2>4, <2>5 DEF ActionsOnce
  <1> QED
    BY <1>8, <1>10, <1>11 DEF PoolInv

(***************************************************************************)
(* An action returns, or throws and is cancelled.                          *)
(***************************************************************************)
LEMMA ActionEndsInv ==
    ASSUME ThreadPoolAssumption, PoolInv, NEW t \in Threads, EndAction(t) \/ ActionThrows(t)
    PROVE  PoolInv'
  <1> DEFINE a == thr[t]
  <1>1. a \in Actions /\ ios' = ios /\ Own
    BY DEF EndAction, ActionThrows
  <1>2. PICK l \in {"idle", "exiting"} : Goto(t, l)
    BY DEF EndAction, ActionThrows, OnError
  <1>3. PICK r \in {"done", "cancelled"} : act' = [act EXCEPT ![a] = r]
    BY DEF EndAction, ActionThrows
  <1>4. l \in Places /\ l # "absent" /\ a \notin Places /\ a \notin {"absent", "stopped"}
    BY <1>1, Facts DEF Places
  <1>5. thr' = [thr EXCEPT ![t] = l] /\ thr \in [Threads -> Places \union Actions]
    BY <1>2, Facts DEF Goto
  <1>6. NoUseAfterFree' /\ Types' /\ Added' /\ Counts'
    BY <1>1, <1>2, <1>4, ThreadMoves, Facts
  <1>7. act[a] = "running" /\ \A u \in Threads : thr[u] = a => u = t
    BY <1>1, Facts
  <1> HIDE DEF a
  <1>8. \A b \in Actions : act'[b] = IF b = a THEN r ELSE act[b]
    BY <1>3, Facts
  <1>9. TypeOK'
    <2>1. act' \in [Actions -> {"new", "posted", "running", "done", "cancelled"}]
      BY <1>3, Facts
    <2> QED
      BY <1>1, <2>1, Facts DEF PoolInv, TypeOK, Own
  <1>10. ActionsOnce'
    <2>1. \A b \in Actions : act'[b] = "posted" <=> b \in ToSet(ios')
      BY <1>1, <1>7, <1>8, Facts
    <2>2. \A b \in Actions, u \in Threads : thr'[u] = b <=> thr[u] = b /\ u # t
      BY <1>4, <1>5, Facts
    <2>3. \A b \in Actions : act'[b] = "running" <=> \E u \in Threads : thr'[u] = b
      <3>1. ASSUME NEW b \in Actions, b # a PROVE \A u \in Threads : thr[u] = b => u # t
        BY <3>1 DEF a
      <3> QED
        BY <1>1, <1>7, <1>8, <2>2, <3>1, Facts
    <2>4. \A u, v \in Threads : thr'[u] \in Actions /\ thr'[v] = thr'[u] => v = u
      BY <2>2, Facts
    <2>5. IsInjective(ios')
      BY <1>1 DEF PoolInv, ActionsOnce, IsInjective
    <2> QED
      BY <2>1, <2>3, <2>4, <2>5 DEF ActionsOnce
  <1> QED
    BY <1>6, <1>9, <1>10 DEF PoolInv

(***************************************************************************)
(* Every step keeps the invariant.                                         *)
(***************************************************************************)
LEMMA NextPoolInv ==
    ASSUME ThreadPoolAssumption, PoolInv, [Next]_vars
    PROVE  PoolInv'
  <1>1. CASE UNCHANGED vars
    <2>1. /\ held' = held /\ refs' = refs /\ mode' = mode /\ ios' = ios /\ deleted' = deleted
          /\ threads' = threads /\ thr' = thr /\ act' = act /\ joining' = joining
      BY <1>1 DEF vars
    <2> QED
      BY <2>1 DEF PoolInv, TypeOK, NoUseAfterFree, ActionsOnce, Types, Added, Counts,
                  IsInjective, Distinct, ToSet
  <1> QED
    BY <1>1, AddThreadInv, PostInv, StopInv, JoinInv, StopReturnsInv, PlainStepInv, TakeActionInv,
       ActionEndsInv DEF Next, ThreadStep

-----------------------------------------------------------------------------
(***************************************************************************)
(* What NothingLeftOver needs besides: a pool that is destroyed has an     *)
(* empty io_service, and without an explicit stop() a pool is held as long *)
(* as it runs and destroyed as soon as its stop() has returned.            *)
(***************************************************************************)
GoneOK ==
    /\ deleted => ios = <<>>
    /\ ~ExplicitStop => (held <=> mode = "Run")
    /\ ~ExplicitStop /\ ~held /\ joining = 0 => deleted

(***************************************************************************)
(* Nothing is posted to a pool that is destroyed, and the stop() that the  *)
(* last reference calls is the one that destroys it.                       *)
(***************************************************************************)
LEMMA NextGoneOK ==
    ASSUME ThreadPoolAssumption, PoolInv, GoneOK, [Next]_vars
    PROVE  GoneOK'
  <1>1. /\ deleted \in BOOLEAN /\ held \in BOOLEAN /\ mode \in {"Run", "Shutdown"}
        /\ refs = (IF held THEN 1 ELSE 0) + (IF joining > 0 THEN 1 ELSE 0)
        /\ mode = "Run" => held /\ joining = 0
        /\ deleted => ~held /\ joining = 0
        /\ joining \in Nat /\ Len(threads) \in Nat
    <2>1. Len(threads) \in Nat
      BY LenProperties DEF PoolInv, Types
    <2> QED
      BY <2>1 DEF PoolInv, Counts, Types, TypeOK
  <1>2. ASSUME NEW t \in Threads, AddThread(t)
        PROVE  GoneOK'
    BY <1>2 DEF AddThread, GoneOK
  <1>3. ASSUME NEW a \in Actions, Post(a)
        PROVE  GoneOK'
    <2>1. /\ held /\ ~deleted
          /\ held' = held /\ mode' = mode /\ deleted' = deleted /\ joining' = joining
      BY <1>1, <1>3 DEF Post
    <2> QED
      BY <2>1 DEF GoneOK
  <1>4. ASSUME Stop \/ Drop
        PROVE  GoneOK'
    <2>1. held /\ ~deleted /\ deleted' = deleted /\ ios' = ios
      BY <1>1, <1>4 DEF Stop, Drop
    <2>2. ASSUME ~ExplicitStop
          PROVE  held' = FALSE /\ mode' = "Shutdown" /\ joining' = 1
      BY <1>4, <2>1, <2>2 DEF Stop, Drop, EnterStop, GoneOK
    <2>3. CASE ExplicitStop
      BY <2>1, <2>3 DEF GoneOK
    <2>4. CASE ~ExplicitStop
      <3>1. ~held' /\ mode' # "Run" /\ joining' # 0 /\ ~deleted'
        BY <2>1, <2>2, <2>4
      <3> QED
        BY <3>1, <2>4 DEF GoneOK
    <2> QED
      BY <2>3, <2>4
  <1>5. ASSUME Join
        PROVE  GoneOK'
    <2>1. joining \in DOMAIN threads /\ DOMAIN threads = 1..Len(threads)
      BY <1>5, LenProperties DEF Join, PoolInv, Types
    <2>2. /\ joining' = joining + 1 /\ joining' # 0
          /\ held' = held /\ mode' = mode /\ deleted' = deleted /\ ios' = ios
      BY <1>1, <1>5, <2>1 DEF Join
    <2> QED
      BY <2>2 DEF GoneOK
  <1>6. ASSUME StopReturns
        PROVE  GoneOK'
    <2>1. joining > 0 /\ held' = held /\ mode' = mode
      BY <1>1, <1>6 DEF StopReturns
    <2>2. CASE refs = 1
      <3>1. deleted' = TRUE /\ ios' = <<>>
        BY <1>6, <2>2 DEF StopReturns
      <3> QED
        BY <2>1, <3>1 DEF GoneOK
    <2>3. CASE refs # 1
      <3>1. held /\ deleted' = deleted /\ ios' = ios
        BY <1>1, <1>6, <2>1, <2>3 DEF StopReturns
      <3> QED
        BY <2>1, <3>1 DEF GoneOK
    <2> QED
      BY <2>2, <2>3
  <1>7. ASSUME NEW t \in Threads, ThreadStep(t)
        PROVE  GoneOK'
    <2>1. held' = held /\ mode' = mode /\ deleted' = deleted /\ joining' = joining
      BY <1>7 DEF ThreadStep, InitThread, TakeAction, LeaveLoop, EndAction, ActionThrows, SetStopped, Own
    <2>2. ios' = ios \/ ios # <<>>
      BY <1>7 DEF ThreadStep, InitThread, TakeAction, LeaveLoop, EndAction, ActionThrows, SetStopped
    <2> QED
      BY <2>1, <2>2 DEF GoneOK
  <1>8. CASE UNCHANGED vars
    BY <1>8 DEF vars, GoneOK
  <1> QED
    BY <1>2, <1>3, <1>4, <1>5, <1>6, <1>7, <1>8 DEF Next

(***************************************************************************)
(* With an empty io_service, and all threads stopped, no action is owed.   *)
(***************************************************************************)
LEMMA GoneSettles ==
    ASSUME ThreadPoolAssumption, PoolInv, GoneOK
    PROVE  NothingLeftOver
  <1> SUFFICES ASSUME deleted, NEW a \in Actions
               PROVE  act[a] \in {"new", "done", "cancelled"}
    BY DEF NothingLeftOver, GoneOK
  <1>1. act[a] # "posted"
    <2>1. ToSet(ios) = {}
      BY EmptySeq DEF GoneOK, ToSet
    <2> QED
      BY <2>1, Facts
  <1>2. act[a] # "running"
    <2> SUFFICES ASSUME NEW t \in Threads, thr[t] = a
                 PROVE  FALSE
      BY Facts
    <2>1. a \notin Places
      BY Facts
    <2>2. t \in ToSet(threads)
      BY <2>1 DEF PoolInv, Added, Places
    <2>3. PICK n \in DOMAIN threads : threads[n] = t
      BY <2>2 DEF ToSet
    <2>4. thr[t] = "stopped"
      BY <2>3 DEF PoolInv, NoUseAfterFree
    <2> QED
      BY <2>1, <2>4 DEF Places
  <1> QED
    BY <1>1, <1>2, Facts

(***************************************************************************)
(* Whatever the interleaving of the network thread with any number of pool *)
(* threads, and whichever of them die of an error: no thread looks at the  *)
(* pool after it was destroyed (IThreadPool.cpp, stop() and Thread::run),  *)
(* no Thread is deleted before its thread has ended, every action is in    *)
(* one place: queued, run by one thread, or called or cancelled; and when  *)
(* the pool is gone, or was dropped without an explicit stop(), no action  *)
(* is left over.                                                           *)
(***************************************************************************)
THEOREM PoolIsSafe ==
    ASSUME ThreadPoolAssumption
    PROVE  Spec => []PoolSafe
  <1>1. Init => PoolInv /\ GoneOK
    BY InitPoolInv DEF Init, GoneOK
  <1>2. PoolInv /\ GoneOK /\ [Next]_vars => (PoolInv /\ GoneOK)'
    BY NextPoolInv, NextGoneOK
  <1>3. PoolInv /\ GoneOK => PoolSafe
    BY GoneSettles DEF PoolInv, PoolSafe
  <1> QED
    BY <1>1, <1>2, <1>3, PTL DEF Spec
=============================================================================
