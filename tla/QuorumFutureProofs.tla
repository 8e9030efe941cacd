------------------------- MODULE QuorumFutureProofs -------------------------
(***************************************************************************)
(* Proofs about module QuorumFuture, for any number of results.            *)
(***************************************************************************)
EXTENDS QuorumFuture, SequenceLemmas, TLAPS

(***************************************************************************)
(* The call stack: a send (f = 1), a cancel() (c = 1) that has come to     *)
(* result i and has removed n callbacks, and which of them was called by   *)
(* the other.  A send inside cancel() comes from a removed callback.       *)
(***************************************************************************)
Frames(st, f, c, i, n) ==
    /\ f \in {0, 1} /\ c \in {0, 1} /\ i \in 1..(Count + 1) /\ n \in Nat
    /\ \/ st = <<>> /\ f = 0 /\ c = 0 /\ n = 0
       \/ st = <<FinishFrame>> /\ f = 1 /\ c = 0 /\ n = 0
       \/ st = <<CancelFrame(i, n)>> /\ f = 0 /\ c = 1
       \/ st = <<CancelFrame(i, n), FinishFrame>> /\ f = 1 /\ c = 1
       \/ st = <<FinishFrame, CancelFrame(i, n)>> /\ f = 1 /\ c = 1 /\ n > 0

(***************************************************************************)
(* What the stack says of the rest: a send has an outcome, cancel() runs   *)
(* when no future is left and has unlinked the results before i, and there *)
(* is no waiter left behind a send, no callback behind a cancel().         *)
(***************************************************************************)
StackOK(f, c, i, n) ==
    /\ alive => promises = (Count - built) + Cardinality(linked) + f + n
    /\ f = 1 => outcome # Unset
    /\ outcome # Unset /\ f = 0 => ~waiting
    /\ c = 1 => futures = 0 /\ \A x \in linked : x >= i
    /\ futures = 0 /\ c = 0 => linked = {}

(***************************************************************************)
(* The future references are the handles, the waiter, and quorum() itself  *)
(* until it returns; nothing is linked that quorum() has not looked at.    *)
(***************************************************************************)
Handed == IF Building THEN 1 ELSE 0
Waits == IF waiting THEN 1 ELSE 0
RefsOK ==
    /\ futures = Cardinality(handles) + Waits + Handed
    /\ Building => handles = {} /\ ~waiting
    /\ built < Count => alive
    /\ \A x \in linked : x <= built

(***************************************************************************)
(* While there is no outcome every report was a success, and the promises  *)
(* count the reports to come.                                              *)
(***************************************************************************)
NoneYet ==
    outcome = Unset /\ alive =>
        /\ promises = Count - Len(order)
        /\ Len(order) < required
        /\ \A j \in 1..Len(order) : order[j] = "value"

(***************************************************************************)
(* What OutcomeIsRight says of a quorum that has an outcome.               *)
(***************************************************************************)
Decided ==
    /\ outcome = "set" => Successes >= required
    /\ outcome = "error" => Successes < required /\ Successes < Len(order)

(***************************************************************************)
(* All that does not speak of the stack; and the inductive invariant.      *)
(***************************************************************************)
Plain == TypeOK /\ order \in Seq({"value", "error"}) /\ RefsOK /\ Lifetime /\ NoneYet /\ Decided

Stacked(f, c, i, n) == Frames(stack, f, c, i, n) /\ StackOK(f, c, i, n)

QuorumInv ==
    Plain /\ \E f, c \in {0, 1}, i \in 1..(Count + 1), n \in Nat : Stacked(f, c, i, n)

-----------------------------------------------------------------------------
(***************************************************************************)
(* Two frames on the stack.                                                *)
(***************************************************************************)
LEMMA TwoFrames ==
    ASSUME NEW a, NEW b
    PROVE  <<a>> \o <<b>> = <<a, b>>
  <1> DEFINE s == <<a>>
             t == <<b>>
             u == <<a, b>>
  <1>1. s \in Seq({a, b}) /\ t \in Seq({a, b}) /\ u \in Seq({a, b})
    OBVIOUS
  <1>2. Len(s) = 1 /\ Len(t) = 1 /\ Len(u) = 2 /\ s[1] = a /\ t[1] = b /\ u[1] = a /\ u[2] = b
    OBVIOUS
  <1> HIDE DEF s, t, u
  <1>3. s \o t \in Seq({a, b}) /\ Len(s \o t) = Len(s) + Len(t)
    BY <1>1, ConcatProperties
  <1>4. \A j \in 1..(Len(s) + Len(t)) : (s \o t)[j] = IF j <= Len(s) THEN s[j] ELSE t[j - Len(s)]
    BY <1>1, ConcatProperties
  <1>5. Len(s \o t) = Len(u) /\ (s \o t)[1] = u[1] /\ (s \o t)[2] = u[2]
    BY <1>2, <1>3, <1>4
  <1>6. \A j \in 1..Len(u) : (s \o t)[j] = u[j]
    BY <1>2, <1>5
  <1>7. s \o t = u
    BY <1>1, <1>3, <1>5, <1>6, SeqEqual
  <1> QED
    BY <1>7 DEF s, t, u

(***************************************************************************)
(* Calls and returns: what the top of the stack is, what is below it, and  *)
(* what a further call makes of it.                                        *)
(***************************************************************************)
LEMMA TopFrame ==
    ASSUME QuorumAssumption, NEW st, NEW f \in {0, 1}, NEW c \in {0, 1},
           NEW i \in 1..(Count + 1), NEW n \in Nat, Frames(st, f, c, i, n)
    PROVE  /\ st = <<>> <=> f = 0 /\ c = 0
           /\ c = 0 => n = 0
           /\ st # <<>> /\ Head(st).op = "finish" =>
                f = 1 /\ Frames(Tail(st), 0, c, i, n) /\ (c = 0 \/ n > 0)
           /\ st # <<>> /\ Head(st).op = "cancel" =>
                /\ c = 1 /\ Head(st).i = i /\ Head(st).n = n
                /\ Frames(Tail(st), f, 0, 1, 0)
           /\ \A k \in DOMAIN st : st[k].op \in {"finish", "cancel"}
  <1>1. 1 \in 1..(Count + 1) /\ 0 \in Nat
    BY DEF QuorumAssumption
  <1>2. CASE st = <<>> /\ f = 0 /\ c = 0 /\ n = 0
    BY <1>2
  <1>3. CASE st = <<FinishFrame>> /\ f = 1 /\ c = 0 /\ n = 0
    <2>1. st # <<>> /\ Head(st) = FinishFrame /\ Tail(st) = <<>> /\ DOMAIN st = {1}
      BY <1>3
    <2> QED
      BY <1>1, <1>3, <2>1 DEF Frames, FinishFrame
  <1>4. CASE st = <<CancelFrame(i, n)>> /\ f = 0 /\ c = 1
    <2>1. st # <<>> /\ Head(st) = CancelFrame(i, n) /\ Tail(st) = <<>> /\ DOMAIN st = {1}
      BY <1>4
    <2> QED
      BY <1>1, <1>4, <2>1 DEF Frames, CancelFrame
  <1>5. CASE st = <<CancelFrame(i, n), FinishFrame>> /\ f = 1 /\ c = 1
    <2>1. st # <<>> /\ Head(st) = CancelFrame(i, n) /\ Tail(st) = <<FinishFrame>> /\ DOMAIN st = {1, 2}
      BY <1>5
    <2> QED
      BY <1>1, <1>5, <2>1 DEF Frames, CancelFrame, FinishFrame
  <1>6. CASE st = <<FinishFrame, CancelFrame(i, n)>> /\ f = 1 /\ c = 1 /\ n > 0
    <2>1. st # <<>> /\ Head(st) = FinishFrame /\ Tail(st) = <<CancelFrame(i, n)>> /\ DOMAIN st = {1, 2}
      BY <1>6
    <2> QED
      BY <1>1, <1>6, <2>1 DEF Frames, CancelFrame, FinishFrame
  <1> QED
    BY <1>2, <1>3, <1>4, <1>5, <1>6 DEF Frames

(***************************************************************************)
(* A send begins outside of cancel() or behind a removed callback, a       *)
(* cancel() at any time when there is none.                                *)
(***************************************************************************)
LEMMA PushFrame ==
    ASSUME QuorumAssumption, NEW st, NEW f \in {0, 1}, NEW c \in {0, 1},
           NEW i \in 1..(Count + 1), NEW n \in Nat, Frames(st, f, c, i, n)
    PROVE  /\ f = 0 /\ (c = 0 \/ n > 0) => Frames(<<FinishFrame>> \o st, 1, c, i, n)
           /\ c = 0 => Frames(<<CancelFrame(1, 0)>> \o st, f, 1, 1, 0)
  <1>1. 1 \in 1..(Count + 1) /\ 0 \in Nat
    BY DEF QuorumAssumption
  <1>2. \A a : <<a>> \o <<>> = <<a>>
    OBVIOUS
  <1>3. \A a, b : <<a>> \o <<b>> = <<a, b>>
    BY TwoFrames
  <1>4. ASSUME f = 0, c = 0 \/ n > 0
        PROVE  Frames(<<FinishFrame>> \o st, 1, c, i, n)
    <2>1. CASE c = 0
      <3>1. st = <<>> /\ n = 0
        BY <1>4, <2>1 DEF Frames
      <3>2. <<FinishFrame>> \o st = <<FinishFrame>>
        BY <1>2, <3>1
      <3> QED
        BY <2>1, <3>1, <3>2 DEF Frames
    <2>2. CASE c = 1
      <3>1. st = <<CancelFrame(i, n)>> /\ n > 0
        BY <1>4, <2>2 DEF Frames
      <3>2. <<FinishFrame>> \o st = <<FinishFrame, CancelFrame(i, n)>>
        BY <1>3, <3>1
      <3> QED
        BY <2>2, <3>1, <3>2 DEF Frames
    <2> QED
      BY <2>1, <2>2
  <1>5. ASSUME c = 0
        PROVE  Frames(<<CancelFrame(1, 0)>> \o st, f, 1, 1, 0)
    <2>1. CASE f = 0
      <3>1. st = <<>>
        BY <1>5, <2>1 DEF Frames
      <3>2. <<CancelFrame(1, 0)>> \o st = <<CancelFrame(1, 0)>>
        BY <1>2, <3>1
      <3> QED
        BY <1>1, <2>1, <3>2 DEF Frames
    <2>2. CASE f = 1
      <3>1. st = <<FinishFrame>>
        BY <1>5, <2>2 DEF Frames
      <3>2. <<CancelFrame(1, 0)>> \o st = <<CancelFrame(1, 0), FinishFrame>>
        BY <1>3, <3>1
      <3> QED
        BY <1>1, <2>2, <3>2 DEF Frames
    <2> QED
      BY <2>1, <2>2
  <1> QED
    BY <1>4, <1>5

(***************************************************************************)
(* cancel() goes on to another result.                                     *)
(***************************************************************************)
LEMMA NextFrame ==
    ASSUME QuorumAssumption, NEW st, NEW f \in {0, 1}, NEW c \in {0, 1},
           NEW i \in 1..(Count + 1), NEW n \in Nat, Frames(st, f, c, i, n),
           st # <<>>, Head(st).op = "cancel", NEW j \in 1..(Count + 1), NEW m \in Nat
    PROVE  Frames(<<CancelFrame(j, m)>> \o Tail(st), f, 1, j, m)
  <1>1. Frames(Tail(st), f, 0, 1, 0)
    BY TopFrame
  <1>2. CASE f = 0
    <2>1. Tail(st) = <<>>
      BY <1>1, <1>2 DEF Frames
    <2>2. <<CancelFrame(j, m)>> \o Tail(st) = <<CancelFrame(j, m)>>
      <3>1. \A a : <<a>> \o <<>> = <<a>>
        OBVIOUS
      <3> QED
        BY <2>1, <3>1
    <2> QED
      BY <1>2, <2>2 DEF Frames
  <1>3. CASE f = 1
    <2>1. Tail(st) = <<FinishFrame>>
      BY <1>1, <1>3 DEF Frames
    <2>2. <<CancelFrame(j, m)>> \o Tail(st) = <<CancelFrame(j, m), FinishFrame>>
      BY <2>1, TwoFrames
    <2> QED
      BY <1>3, <2>2 DEF Frames
  <1> QED
    BY <1>2, <1>3

-----------------------------------------------------------------------------
(***************************************************************************)
(* Successes counts the values before the first error.                     *)
(***************************************************************************)
Good(s) == {k \in DOMAIN s : \A j \in 1..k : s[j] = "value"}

(***************************************************************************)
(* Its size is at most the number of reports, and all of them if every one *)
(* was a success.                                                          *)
(***************************************************************************)
LEMMA GoodSize ==
    ASSUME NEW s \in Seq({"value", "error"})
    PROVE  /\ Len(s) \in Nat /\ IsFiniteSet(Good(s)) /\ Cardinality(Good(s)) \in 0..Len(s)
           /\ (\A j \in 1..Len(s) : s[j] = "value") => Cardinality(Good(s)) = Len(s)
           /\ Good(s) \subseteq 1..Len(s)
  <1>1. Len(s) \in Nat /\ DOMAIN s = 1..Len(s)
    BY LenProperties
  <1>2. Good(s) \subseteq 1..Len(s)
    BY <1>1 DEF Good
  <1>3. IsFiniteSet(1..Len(s)) /\ Cardinality(1..Len(s)) = Len(s)
    <2>1. 1 \in Int /\ Len(s) \in Int
      BY <1>1
    <2>2. /\ IsFiniteSet(1..Len(s))
          /\ Cardinality(1..Len(s)) = IF 1 > Len(s) THEN 0 ELSE Len(s) - 1 + 1
      BY ONLY <2>1, FS_Interval
    <2> QED
      BY <1>1, <2>2
  <1>4. IsFiniteSet(Good(s)) /\ Cardinality(Good(s)) <= Len(s) /\ Cardinality(Good(s)) \in Nat
    BY <1>2, <1>3, FS_Subset, FS_CardinalityType
  <1>5. ASSUME \A j \in 1..Len(s) : s[j] = "value"
        PROVE  Cardinality(Good(s)) = Len(s)
    <2>1. Good(s) = 1..Len(s)
      BY <1>1, <1>5 DEF Good
    <2> QED
      BY <1>3, <2>1
  <1> QED
    BY <1>1, <1>2, <1>4, <1>5

(***************************************************************************)
(* One more report does not take successes back, and after an error there  *)
(* are no further ones.                                                    *)
(***************************************************************************)
LEMMA GoodAppend ==
    ASSUME NEW s \in Seq({"value", "error"}), NEW r \in {"value", "error"}
    PROVE  /\ Append(s, r) \in Seq({"value", "error"}) /\ Len(Append(s, r)) = Len(s) + 1
           /\ Cardinality(Good(Append(s, r))) >= Cardinality(Good(s))
           /\ r = "error" \/ Cardinality(Good(s)) < Len(s) =>
                Cardinality(Good(Append(s, r))) = Cardinality(Good(s))
           /\ r = "value" /\ (\A j \in 1..Len(s) : s[j] = "value") =>
                \A j \in 1..(Len(s) + 1) : Append(s, r)[j] = "value"
  <1> DEFINE t == Append(s, r)
  <1>1. /\ t \in Seq({"value", "error"}) /\ Len(t) = Len(s) + 1 /\ Len(s) \in Nat
        /\ \A j \in 1..Len(s) : t[j] = s[j]
        /\ t[Len(s) + 1] = r
    BY AppendProperties, LenProperties
  <1> HIDE DEF t
  <1>2. DOMAIN s = 1..Len(s) /\ DOMAIN t = 1..(Len(s) + 1)
    BY <1>1, LenProperties
  <1>3. Good(s) = {k \in 1..Len(s) : \A j \in 1..k : s[j] = "value"}
    BY <1>2 DEF Good
  <1>4. Good(t) = {k \in 1..(Len(s) + 1) : \A j \in 1..k : t[j] = "value"}
    BY <1>2 DEF Good
  <1>5. \A k \in 1..Len(s) : k \in Good(t) <=> k \in Good(s)
    <2> SUFFICES ASSUME NEW k \in 1..Len(s)
                 PROVE  k \in Good(t) <=> k \in Good(s)
      OBVIOUS
    <2>1. \A j \in 1..k : j \in 1..Len(s)
      BY <1>1
    <2>2. (\A j \in 1..k : t[j] = "value") <=> (\A j \in 1..k : s[j] = "value")
      BY <1>1, <2>1
    <2>3. k \in 1..(Len(s) + 1)
      BY <1>1
    <2> QED
      BY <1>3, <1>4, <2>2, <2>3
  <1>6. Good(s) \subseteq Good(t)
    BY <1>1, <1>3, <1>5
  <1>7. /\ IsFiniteSet(Good(t)) /\ Cardinality(Good(t)) \in Nat
        /\ Cardinality(Good(s)) \in Nat /\ Cardinality(Good(s)) <= Len(s)
        /\ (\A j \in 1..Len(s) : s[j] = "value") => Cardinality(Good(s)) = Len(s)
    BY <1>1, GoodSize
  <1>8. Cardinality(Good(t)) >= Cardinality(Good(s))
    BY <1>6, <1>7, FS_Subset
  <1>9. ASSUME r = "error" \/ Cardinality(Good(s)) < Len(s)
        PROVE  Cardinality(Good(t)) = Cardinality(Good(s))
    <2>1. \E j \in 1..(Len(s) + 1) : t[j] # "value"
      BY <1>1, <1>7, <1>9
    <2>2. Len(s) + 1 \notin Good(t)
      BY <1>1, <1>4, <2>1
    <2>3. Good(t) = Good(s)
      <3>1. \A k \in Good(t) : k \in 1..Len(s)
        BY <1>1, <1>4, <2>2
      <3> QED
        BY <1>5, <1>6, <3>1
    <2> QED
      BY <2>3
  <1>10. ASSUME r = "value", \A j \in 1..Len(s) : s[j] = "value"
         PROVE  \A j \in 1..(Len(s) + 1) : t[j] = "value"
    BY <1>1, <1>10
  <1> QED
    BY <1>1, <1>8, <1>9, <1>10 DEF t

-----------------------------------------------------------------------------
(***************************************************************************)
(* The types, and the sizes of the two sets.                               *)
(***************************************************************************)
LEMMA QuorumFacts ==
    ASSUME QuorumAssumption, Plain
    PROVE  /\ Count \in Nat /\ built \in 0..Count /\ required \in 0..Count
           /\ promises \in 0..Count /\ futures \in Nat
           /\ linked \subseteq 1..Count /\ IsFiniteSet(linked) /\ Cardinality(linked) \in Nat
           /\ (Cardinality(linked) = 0 <=> linked = {})
           /\ handles \subseteq Handles /\ IsFiniteSet(handles) /\ Cardinality(handles) \in Nat
           /\ (Cardinality(handles) = 0 <=> handles = {})
  <1>1. /\ Count \in Nat /\ IsFiniteSet(Handles)
        /\ built \in 0..Count /\ required \in 0..Count /\ promises \in 0..Count
        /\ futures \in Nat /\ linked \subseteq 1..Count /\ handles \subseteq Handles
    BY DEF QuorumAssumption, Plain, TypeOK, Results
  <1>2. IsFiniteSet(1..Count)
    BY <1>1, FS_Interval
  <1>3. IsFiniteSet(linked) /\ IsFiniteSet(handles)
    BY <1>1, <1>2, FS_Subset
  <1> QED
    BY <1>1, <1>3, FS_CardinalityType, FS_EmptySet

(***************************************************************************)
(* Until quorum() returns it has the only future; then the futures are the *)
(* handles and the waiter.                                                 *)
(***************************************************************************)
LEMMA Phases ==
    ASSUME QuorumAssumption, Plain
    PROVE  /\ Building => futures = 1 /\ handles = {} /\ ~waiting /\ alive
           /\ ~Building => built = Count /\ futures = Cardinality(handles) + Waits
           /\ ~Building => (futures = 0 <=> handles = {} /\ ~waiting)
  <1>1. /\ futures = Cardinality(handles) + Waits + Handed
        /\ Building => handles = {} /\ ~waiting
        /\ built < Count => alive
    BY DEF Plain, RefsOK
  <1>2. ~Building => built = Count
    BY QuorumFacts DEF Building
  <1>3. Building => alive
    BY <1>1 DEF Building
  <1>4. Building => Handed = 1 /\ Waits = 0 /\ Cardinality(handles) = 0
    BY <1>1, QuorumFacts DEF Handed, Waits
  <1>5. ~Building => Handed = 0
    BY DEF Handed
  <1>6. (waiting => Waits = 1) /\ (~waiting => Waits = 0)
    BY DEF Waits
  <1> QED
    BY <1>1, <1>2, <1>3, <1>4, <1>5, <1>6, QuorumFacts

(***************************************************************************)
(* oneSuccess and oneError, called by quorum() itself or, with a callback  *)
(* that is not linked any more, by the result: the quorum survives the     *)
(* call, and the promises count one result less.                           *)
(***************************************************************************)
LEMMA ReportInv ==
    ASSUME QuorumAssumption, Plain, NEW f \in {0, 1}, NEW c \in {0, 1},
           NEW i \in 1..(Count + 1), NEW n \in Nat, Stacked(f, c, i, n),
           NEW r \in {"value", "error"}, Report(r), alive,
           c = 0 \/ n > 0, futures > 0 \/ c = 1,
           built' \in 0..Count, linked' \subseteq linked, Cardinality(linked') \in Nat,
           (Count - built') + Cardinality(linked') = (Count - built) + Cardinality(linked) - 1,
           UNCHANGED <<required, futures, waiting>>
    PROVE  /\ alive' /\ order' \in Seq({"value", "error"}) /\ promises' \in 0..Count
           /\ outcome' \in Outcomes \union {Unset}
           /\ NoneYet' /\ Decided' /\ (stack' # <<>> \/ stack' = stack)
           /\ \E g \in {0, 1} : Frames(stack', g, c, i, n) /\ StackOK(g, c, i, n)'
  <1> DEFINE R == (Count - built) + Cardinality(linked)
             S == (Count - built') + Cardinality(linked')
  <1>1. /\ R \in Nat /\ S \in Nat /\ S = R - 1 /\ R >= 1
        /\ Count \in Nat /\ required \in 0..Count /\ promises \in 0..Count
    BY QuorumFacts
  <1>2. promises = R + f + n /\ (f = 1 => outcome # Unset)
    BY DEF Stacked, StackOK
  <1> HIDE DEF R, S
  <1>3. ~(promises = 1 /\ futures = 0)
    BY <1>1, <1>2
  <1>4. outcome = Unset =>
          /\ f = 0 /\ promises = Count - Len(order) /\ Len(order) < required
          /\ \A j \in 1..Len(order) : order[j] = "value"
    BY <1>2 DEF Plain, NoneYet
  <1>5. /\ order \in Seq({"value", "error"}) /\ order' = Append(order, r)
        /\ outcome \in Outcomes \union {Unset}
        /\ Successes = Cardinality(Good(order)) /\ Successes' = Cardinality(Good(order'))
    BY DEF Plain, TypeOK, Report, Successes, Good
  <1>6. /\ Len(order) \in Nat /\ Successes \in 0..Len(order)
        /\ outcome = Unset => Successes = Len(order)
    BY <1>4, <1>5, GoodSize
  <1>7. /\ order' \in Seq({"value", "error"}) /\ Len(order') = Len(order) + 1
        /\ Successes' >= Successes
        /\ r = "error" \/ Successes < Len(order) => Successes' = Successes
        /\ r = "value" /\ outcome = Unset => \A j \in 1..Len(order') : order'[j] = "value"
    <2>1. /\ order' \in Seq({"value", "error"}) /\ Len(order') = Len(order) + 1
          /\ Cardinality(Good(order')) >= Cardinality(Good(order))
          /\ r = "error" \/ Cardinality(Good(order)) < Len(order) =>
               Cardinality(Good(order')) = Cardinality(Good(order))
          /\ r = "value" /\ (\A j \in 1..Len(order) : order[j] = "value") =>
               \A j \in 1..(Len(order) + 1) : order'[j] = "value"
      BY <1>5, GoodAppend
    <2> QED
      BY <1>4, <1>5, <2>1
  <1>8. r = "value" /\ outcome = Unset => Successes' = Len(order')
    BY <1>5, <1>7, GoodSize
  <1>9. CASE canBeSet /\ (r = "error" \/ promises = antiQuorum)
    <2>1. outcome = Unset
      BY <1>9 DEF canBeSet
    <2>2. PICK o \in {"set", "error"} :
            /\ SendAndDelPromiseRef(o)
            /\ o = "set" => r = "value" /\ promises = antiQuorum
            /\ o = "error" => r = "error"
      BY <1>9 DEF Report, oneSuccess, oneError
    <2>3. outcome' = o /\ stack' = <<FinishFrame>> \o stack /\ promises' = promises /\ alive' = alive
      BY <1>3, <2>2 DEF SendAndDelPromiseRef
    <2>4. Frames(stack', 1, c, i, n)
      BY <1>4, <2>1, <2>3, PushFrame DEF Stacked
    <2>5. stack' # <<>>
      BY <2>4, TopFrame
    <2>6. outcome' # Unset
      BY <2>3 DEF Unset
    <2>7. Decided'
      <3>1. CASE o = "set"
        <4>1. Len(order') = required
          <5>1. promises = Count - Len(order) /\ Len(order') = Len(order) + 1
            BY <1>4, <1>7, <2>1
          <5>2. promises = Count - required + 1
            BY <2>2, <3>1 DEF antiQuorum
          <5> QED
            BY ONLY <1>1, <1>6, <5>1, <5>2
        <4>2. Successes' = required
          BY <1>8, <2>1, <2>2, <3>1, <4>1
        <4> QED
          BY <1>1, <2>3, <3>1, <4>2 DEF Decided
      <3>2. CASE o = "error"
        <4>1. Successes' = Len(order)
          BY <1>6, <1>7, <2>1, <2>2, <3>2
        <4>2. Successes' < required /\ Successes' < Len(order')
          BY <1>1, <1>4, <1>6, <1>7, <2>1, <4>1
        <4> QED
          BY <2>3, <3>2, <4>2 DEF Decided
      <3> QED
        BY <3>1, <3>2
    <2>8. NoneYet'
      BY <2>6 DEF NoneYet, Unset
    <2>9. promises' = S + 1 + n
      BY <1>1, <1>2, <1>4, <2>1, <2>3
    <2>10. StackOK(1, c, i, n)'
      <3>1. /\ c = 1 => futures' = 0 /\ \A x \in linked' : x >= i
            /\ ~(futures' = 0 /\ c = 0)
        BY QuorumFacts DEF Stacked, StackOK
      <3> QED
        BY <2>6, <2>9, <3>1 DEF StackOK, S, Unset
    <2>11. alive' /\ promises' \in 0..Count /\ outcome' \in Outcomes \union {Unset}
      BY <1>1, <2>3 DEF Outcomes
    <2> QED
      BY <1>7, <2>4, <2>5, <2>7, <2>8, <2>10, <2>11
  <1>10. CASE ~(canBeSet /\ (r = "error" \/ promises = antiQuorum))
    <2>1. DelPromiseRef
      BY <1>10 DEF Report, oneSuccess, oneError
    <2>2. promises' = promises - 1 /\ stack' = stack
      BY <2>1 DEF DelPromiseRef
    <2>3. alive'
      BY <1>3, <2>1 DEF DelPromiseRef
    <2>4. outcome = Unset =>
            r = "value" /\ promises > 1 /\ Len(order') < required /\ promises' = Count - Len(order')
      <3> SUFFICES ASSUME outcome = Unset
                   PROVE  /\ r = "value" /\ promises > 1 /\ Len(order') < required
                          /\ promises' = Count - Len(order')
        OBVIOUS
      <3>1. r = "value" /\ promises # antiQuorum
        BY <1>10 DEF canBeSet
      <3>2. Len(order) + 1 < required
        <4>1. promises = Count - Len(order) /\ Len(order) < required
          BY <1>4
        <4>2. promises # Count - required + 1
          BY <3>1 DEF antiQuorum
        <4> QED
          BY ONLY <1>1, <1>6, <4>1, <4>2
      <3> QED
        BY <1>1, <1>4, <1>6, <1>7, <2>2, <3>1, <3>2
    <2>5. outcome' = outcome
      BY <2>1, <2>4 DEF DelPromiseRef, canBeSet
    <2>6. NoneYet'
      BY <1>7, <2>4, <2>5 DEF NoneYet
    <2>7. Decided'
      <3>1. CASE outcome = "set"
        <4>1. Successes >= required
          BY <3>1 DEF Plain, Decided
        <4>2. Successes' \in Nat
          <5>1. Len(order') \in Nat /\ Cardinality(Good(order')) \in 0..Len(order')
            BY ONLY <1>7, GoodSize
          <5> QED
            BY <1>5, <5>1
        <4> QED
          BY <1>1, <1>6, <1>7, <2>5, <3>1, <4>1, <4>2 DEF Decided
      <3>2. CASE outcome = "error"
        <4>1. Successes < required /\ Successes < Len(order)
          BY <3>2 DEF Plain, Decided
        <4>2. Successes' = Successes
          BY <1>7, <4>1
        <4> QED
          BY <1>1, <1>6, <1>7, <2>5, <3>2, <4>1, <4>2 DEF Decided
      <3> QED
        BY <2>5, <3>1, <3>2 DEF Decided
    <2>8. promises' = S + f + n /\ promises' \in 0..Count
      BY <1>1, <1>2, <2>2
    <2>9. StackOK(f, c, i, n)'
      <3>1. /\ c = 1 => futures' = 0 /\ \A x \in linked' : x >= i
            /\ ~(futures' = 0 /\ c = 0)
            /\ f = 1 => outcome # Unset
            /\ outcome # Unset /\ f = 0 => ~waiting
        BY QuorumFacts DEF Stacked, StackOK
      <3>2. waiting' = waiting
        OBVIOUS
      <3> QED
        BY <2>5, <2>8, <3>1, <3>2 DEF StackOK, S
    <2>10. Frames(stack', f, c, i, n)
      BY <2>2 DEF Stacked
    <2> QED
      BY <1>5, <1>7, <2>2, <2>3, <2>5, <2>6, <2>7, <2>8, <2>9, <2>10
  <1> QED
    BY <1>9, <1>10

(***************************************************************************)
(* The loop of quorum().                                                   *)
(***************************************************************************)
LEMMA BuildInv ==
    ASSUME QuorumAssumption, QuorumInv, Build
    PROVE  QuorumInv'
  <1>1. PICK f \in {0, 1}, c \in {0, 1}, i \in 1..(Count + 1), n \in Nat :
          Plain /\ Stacked(f, c, i, n)
    BY DEF QuorumInv
  <1>2. /\ built < Count /\ stack = <<>> /\ built' = built + 1
        /\ UNCHANGED <<required, result, futures, waiting, handles, heard>>
    BY DEF Build
  <1>3. f = 0 /\ c = 0 /\ n = 0
    BY <1>1, <1>2, TopFrame DEF Stacked
  <1>4. futures = 1 /\ handles = {} /\ ~waiting /\ alive
    BY <1>1, <1>2, Phases DEF Building
  <1>5. built' \in 0..Count /\ built' \in 1..Count /\ built' \notin linked /\ Count - built' = (Count - built) - 1
    <2>1. \A x \in linked : x <= built
      BY <1>1 DEF Plain, RefsOK
    <2>2. Count \in Nat /\ built \in Nat
      BY <1>1, QuorumFacts
    <2> QED
      BY <1>2, <2>1, <2>2
  <1>6. ASSUME alive', linked' \subseteq linked \union {built'}
        PROVE  RefsOK' /\ Lifetime'
    <2>1. Building'
      BY <1>2, <1>4, <1>6 DEF Building
    <2>2. Cardinality(handles') = 0
      BY <1>2, <1>4, FS_EmptySet
    <2>3. futures' = Cardinality(handles') + Waits' + Handed'
      BY <1>2, <1>4, <2>1, <2>2 DEF Waits, Handed
    <2>4. \A x \in linked' : x <= built'
      <3>1. \A x \in linked : x <= built /\ x \in Nat
        BY <1>1, QuorumFacts DEF Plain, RefsOK
      <3>2. built \in Nat /\ built' = built + 1
        BY <1>1, <1>2, QuorumFacts
      <3> QED
        BY <1>6, <3>1, <3>2
    <2>5. handles' = {} /\ ~waiting'
      BY <1>2, <1>4
    <2> QED
      BY <1>6, <2>1, <2>3, <2>4, <2>5 DEF RefsOK, Lifetime
  <1>7. /\ required' \in 0..Count /\ result' \in [Results -> {"pending", "value", "error"}]
        /\ futures' \in Nat /\ waiting' \in BOOLEAN /\ handles' \subseteq Handles
        /\ heard' \subseteq Outcomes
    BY <1>1, <1>2 DEF Plain, TypeOK
  <1>8. CASE result[built'] = "pending"
    <2>1. linked' = linked \union {built'} /\ UNCHANGED <<promises, outcome, alive, stack, order>>
      BY <1>8 DEF Build
    <2>2. Cardinality(linked') = Cardinality(linked) + 1
      BY <1>1, <1>5, <2>1, CardinalityAdd, QuorumFacts
    <2>3. RefsOK' /\ Lifetime'
      BY <1>4, <1>6, <2>1
    <2>4. TypeOK'
      BY <1>1, <1>5, <1>7, <2>1 DEF Plain, TypeOK, Results
    <2>5. NoneYet' /\ Decided'
      BY <1>1, <1>2, <2>1 DEF Plain, NoneYet, Decided, Successes
    <2>6. order' \in Seq({"value", "error"})
      BY <1>1, <2>1 DEF Plain
    <2>7. promises' = (Count - built') + Cardinality(linked') + 0 + 0
      BY <1>1, <1>3, <1>4, <1>5, <2>1, <2>2, QuorumFacts DEF Stacked, StackOK
    <2>8. StackOK(f, c, i, n)'
      BY <1>2, <1>3, <1>4, <2>7 DEF StackOK
    <2>9. Frames(stack', f, c, i, n)
      BY <1>1, <2>1 DEF Stacked
    <2> QED
      BY <2>3, <2>4, <2>5, <2>6, <2>8, <2>9 DEF QuorumInv, Plain, Stacked
  <1>9. CASE result[built'] # "pending"
    <2>1. Report(result[built']) /\ linked' = linked
      BY <1>9 DEF Build
    <2>2. result[built'] \in {"value", "error"}
      BY <1>1, <1>5, <1>9 DEF Plain, TypeOK, Results
    <2>3. /\ Cardinality(linked') \in Nat /\ linked' \subseteq linked
          /\ (Count - built') + Cardinality(linked') = (Count - built) + Cardinality(linked) - 1
      BY <1>1, <1>5, <2>1, QuorumFacts
    <2>4. /\ c = 0 \/ n > 0
          /\ futures > 0 \/ c = 1
          /\ UNCHANGED <<required, futures, waiting>>
      BY <1>2, <1>3, <1>4
    <2> DEFINE r == result[built']
    <2>5. r \in {"value", "error"} /\ Report(r)
      BY <2>1, <2>2
    <2> HIDE DEF r
    <2>6. /\ Plain /\ Stacked(f, c, i, n) /\ alive /\ (c = 0 \/ n > 0) /\ (futures > 0 \/ c = 1)
          /\ built' \in 0..Count /\ linked' \subseteq linked /\ Cardinality(linked') \in Nat
          /\ (Count - built') + Cardinality(linked') = (Count - built) + Cardinality(linked) - 1
          /\ UNCHANGED <<required, futures, waiting>>
      BY <1>1, <1>4, <1>5, <2>3, <2>4
    <2>7. /\ alive' /\ order' \in Seq({"value", "error"}) /\ promises' \in 0..Count
          /\ outcome' \in Outcomes \union {Unset}
          /\ NoneYet' /\ Decided' /\ (stack' # <<>> \/ stack' = stack)
          /\ \E g \in {0, 1} : Frames(stack', g, c, i, n) /\ StackOK(g, c, i, n)'
      BY ONLY QuorumAssumption, f \in {0, 1}, c \in {0, 1}, i \in 1..(Count + 1), n \in Nat,
              <2>5, <2>6, ReportInv
    <2>8. RefsOK' /\ Lifetime'
      BY <1>6, <2>3, <2>7
    <2>9. \A k \in DOMAIN stack' : stack'[k].op \in {"finish", "cancel"}
      BY <2>7, TopFrame
    <2>10. TypeOK'
      BY <1>1, <1>5, <1>7, <2>1, <2>7, <2>9 DEF Plain, TypeOK
    <2> QED
      BY <2>7, <2>8, <2>10 DEF QuorumInv, Plain, Stacked
  <1> QED
    BY <1>8, <1>9

(***************************************************************************)
(* quorum() returns.                                                       *)
(***************************************************************************)
LEMMA ReturnInv ==
    ASSUME QuorumAssumption, QuorumInv, Return
    PROVE  QuorumInv'
  <1>1. PICK f \in {0, 1}, c \in {0, 1}, i \in 1..(Count + 1), n \in Nat :
          Plain /\ Stacked(f, c, i, n)
    BY DEF QuorumInv
  <1>2. PICK h \in Handles :
          /\ built = Count /\ Building /\ handles' = {h}
          /\ UNCHANGED <<required, result, built, linked, promises, futures, outcome, alive,
                         waiting, stack, order, heard>>
    BY DEF Return
  <1>3. futures = 1 /\ ~waiting /\ alive /\ Count \in Nat
    BY <1>1, <1>2, Phases, QuorumFacts
  <1>4. ~Building'
    BY <1>2, <1>3 DEF Building
  <1>5. futures' = Cardinality(handles') + Waits' + Handed'
    <2>1. Cardinality(handles') = 1
      BY <1>2, FS_Singleton
    <2> QED
      BY <1>2, <1>3, <1>4, <2>1 DEF Waits, Handed
  <1>6. RefsOK'
    <2>1. \A x \in linked : x <= built
      BY <1>1 DEF Plain, RefsOK
    <2> QED
      BY <1>2, <1>3, <1>4, <1>5, <2>1 DEF RefsOK
  <1>7. Lifetime'
    BY <1>2, <1>3 DEF Lifetime
  <1>8. TypeOK' /\ order' \in Seq({"value", "error"})
    BY <1>1, <1>2 DEF Plain, TypeOK
  <1>9. NoneYet' /\ Decided'
    BY <1>1, <1>2 DEF Plain, NoneYet, Decided, Successes
  <1>10. Stacked(f, c, i, n)'
    BY <1>1, <1>2 DEF Stacked, Frames, StackOK
  <1> QED
    BY <1>6, <1>7, <1>8, <1>9, <1>10 DEF QuorumInv, Plain

(***************************************************************************)
(* Other code calls into the quorum outside of its functions, or inside of *)
(* cancel() after a callback was removed.                                  *)
(***************************************************************************)
LEMMA UserBehindCallback ==
    ASSUME QuorumAssumption, NEW f \in {0, 1}, NEW c \in {0, 1},
           NEW i \in 1..(Count + 1), NEW n \in Nat, Stacked(f, c, i, n), UserRuns
    PROVE  c = 0 \/ n > 0
  <1>1. CASE stack = <<>>
    BY <1>1, TopFrame DEF Stacked
  <1>2. CASE InFinish
    BY <1>2, TopFrame DEF Stacked, InFinish
  <1>3. CASE InCancel /\ Head(stack).n > 0
    BY <1>3, TopFrame DEF Stacked, InCancel
  <1> QED
    BY <1>1, <1>2, <1>3 DEF UserRuns

(***************************************************************************)
(* A result is set.                                                        *)
(***************************************************************************)
LEMMA CompleteInv ==
    ASSUME QuorumAssumption, QuorumInv, UserRuns,
           NEW x \in Results, NEW r \in {"value", "error"}, Complete(x, r)
    PROVE  QuorumInv'
  <1>1. PICK f \in {0, 1}, c \in {0, 1}, i \in 1..(Count + 1), n \in Nat :
          Plain /\ Stacked(f, c, i, n)
    BY DEF QuorumInv
  <1>2. /\ built = Count /\ ~Building /\ linked' = linked \ {x}
        /\ result' = [result EXCEPT ![x] = r]
        /\ UNCHANGED <<required, built, futures, waiting, handles, heard>>
    BY DEF Complete
  <1>3. /\ required' \in 0..Count /\ result' \in [Results -> {"pending", "value", "error"}]
        /\ futures' \in Nat /\ waiting' \in BOOLEAN /\ handles' \subseteq Handles
        /\ heard' \subseteq Outcomes /\ built' \in 0..Count /\ linked' \subseteq Results
    BY <1>1, <1>2 DEF Plain, TypeOK
  <1>4. CASE x \notin linked
    <2>1. linked' = linked /\ UNCHANGED <<promises, outcome, alive, stack, order>>
      BY <1>2, <1>4 DEF Complete
    <2>2. RefsOK' /\ Lifetime'
      BY <1>1, <1>2, <2>1 DEF Plain, RefsOK, Lifetime, Waits, Handed, Building
    <2>3. TypeOK' /\ order' \in Seq({"value", "error"})
      BY <1>1, <1>3, <2>1 DEF Plain, TypeOK
    <2>4. NoneYet' /\ Decided'
      BY <1>1, <1>2, <2>1 DEF Plain, NoneYet, Decided, Successes
    <2>5. Stacked(f, c, i, n)'
      BY <1>1, <1>2, <2>1 DEF Stacked, Frames, StackOK
    <2> QED
      BY <2>2, <2>3, <2>4, <2>5 DEF QuorumInv, Plain
  <1>5. CASE x \in linked
    <2>1. alive /\ Report(r)
      BY <1>1, <1>2, <1>5 DEF Plain, Lifetime, Complete
    <2>2. (c = 0 \/ n > 0) /\ (futures > 0 \/ c = 1)
      <3>1. c = 0 \/ n > 0
        BY <1>1, UserBehindCallback
      <3>2. futures \in Nat /\ (futures = 0 /\ c = 0 => linked = {})
        BY <1>1, QuorumFacts DEF Stacked, StackOK
      <3> QED
        BY <1>5, <3>1, <3>2
    <2>3. /\ linked' \subseteq linked /\ Cardinality(linked') \in Nat
          /\ Cardinality(linked') = Cardinality(linked) - 1
      BY <1>1, <1>2, <1>5, QuorumFacts, CardinalityRemove, FS_Subset, FS_CardinalityType
    <2>4. /\ (Count - built') + Cardinality(linked') = (Count - built) + Cardinality(linked) - 1
          /\ UNCHANGED <<required, futures, waiting>>
      BY <1>1, <1>2, <2>3, QuorumFacts
    <2>5. /\ alive' /\ order' \in Seq({"value", "error"}) /\ promises' \in 0..Count
          /\ outcome' \in Outcomes \union {Unset}
          /\ NoneYet' /\ Decided' /\ (stack' # <<>> \/ stack' = stack)
          /\ \E g \in {0, 1} : Frames(stack', g, c, i, n) /\ StackOK(g, c, i, n)'
      BY ONLY QuorumAssumption, f \in {0, 1}, c \in {0, 1}, i \in 1..(Count + 1), n \in Nat,
              r \in {"value", "error"}, <1>1, <1>3, <2>1, <2>2, <2>3, <2>4, ReportInv
    <2>6. ~Building'
      BY <1>2, <2>1 DEF Building
    <2>7. RefsOK'
      <3>1. /\ futures = Cardinality(handles) + Waits + Handed
            /\ \A y \in linked : y <= built
        BY <1>1 DEF Plain, RefsOK
      <3>2. Handed' = Handed /\ Waits' = Waits
        BY <1>2, <2>6 DEF Handed, Waits
      <3> QED
        BY <1>2, <2>3, <2>5, <2>6, <3>1, <3>2 DEF RefsOK
    <2>8. Lifetime'
      <3>1. CASE futures > 0
        <4>1. handles # {} \/ waiting
          BY <1>1, <1>2, <3>1, Phases
        <4> QED
          BY <1>2, <2>5, <4>1 DEF Lifetime
      <3>2. CASE c = 1
        <4>1. stack # <<>>
          BY <1>1, <3>2, TopFrame DEF Stacked
        <4> QED
          BY <2>5, <4>1 DEF Lifetime
      <3> QED
        BY <2>2, <3>1, <3>2
    <2>9. \A k \in DOMAIN stack' : stack'[k].op \in {"finish", "cancel"}
      BY <2>5, TopFrame
    <2>10. TypeOK'
      BY <1>3, <2>1, <2>5, <2>9 DEF TypeOK
    <2> QED
      BY <2>5, <2>7, <2>8, <2>10 DEF QuorumInv, Plain, Stacked
  <1> QED
    BY <1>4, <1>5

(***************************************************************************)
(* Another future, or the waiter, comes to the handles there are.          *)
(***************************************************************************)
LEMMA AddFutureInv ==
    ASSUME QuorumAssumption, QuorumInv, handles # {}, handles \subseteq handles',
           handles' \subseteq Handles, waiting' \in BOOLEAN, waiting' => waiting \/ outcome = Unset,
           futures' = futures + 1, Cardinality(handles') + Waits' = Cardinality(handles) + Waits + 1,
           UNCHANGED <<required, result, built, linked, promises, outcome, alive, stack, order, heard>>
    PROVE  QuorumInv'
  <1>1. PICK f \in {0, 1}, c \in {0, 1}, i \in 1..(Count + 1), n \in Nat :
          Plain /\ Stacked(f, c, i, n)
    BY DEF QuorumInv
  <1>2. handles' # {} /\ ~Building /\ alive /\ built = Count
    BY <1>1, Phases DEF Plain, Lifetime
  <1>3. ~Building'
    BY <1>2, QuorumFacts, <1>1 DEF Building
  <1>4. futures = Cardinality(handles) + Waits /\ futures > 0 /\ futures \in Nat
    BY <1>1, <1>2, Phases, QuorumFacts
  <1>5. RefsOK'
    <2>1. Handed' = 0 /\ \A x \in linked : x <= built
      BY <1>1, <1>3 DEF Handed, Plain, RefsOK
    <2>2. Cardinality(handles') + Waits' + 0 = Cardinality(handles') + Waits'
      <3>1. handles' \subseteq Handles /\ IsFiniteSet(Handles)
        BY DEF QuorumAssumption
      <3>2. Cardinality(handles') \in Nat
        BY <3>1, FS_Subset, FS_CardinalityType
      <3> QED
        BY <3>2 DEF Waits
    <2> QED
      BY <1>2, <1>3, <1>4, <2>1, <2>2 DEF RefsOK
  <1>6. Lifetime'
    BY <1>2 DEF Lifetime
  <1>7. TypeOK' /\ order' \in Seq({"value", "error"})
    BY <1>1, <1>4 DEF Plain, TypeOK
  <1>8. NoneYet' /\ Decided'
    BY <1>1 DEF Plain, NoneYet, Decided, Successes
  <1>9. c = 0 /\ (outcome # Unset /\ f = 0 => ~waiting)
    BY <1>1, <1>4 DEF Stacked, StackOK
  <1>10. StackOK(f, c, i, n)'
    BY <1>1, <1>4, <1>9 DEF Stacked, StackOK
  <1>11. Frames(stack', f, c, i, n)
    BY <1>1 DEF Stacked
  <1> QED
    BY <1>5, <1>6, <1>7, <1>8, <1>10, <1>11 DEF QuorumInv, Plain, Stacked

(***************************************************************************)
(* A future goes.  The last one destroys a quorum that nothing is to come  *)
(* for, and cancels another one.                                           *)
(***************************************************************************)
LEMMA DelFutureInv ==
    ASSUME QuorumAssumption, QuorumInv, DelFutureRef, handles # {} \/ waiting,
           handles' \subseteq handles, waiting' \in BOOLEAN, waiting' => waiting,
           Cardinality(handles') + Waits' = Cardinality(handles) + Waits - 1,
           heard' \subseteq Outcomes,
           UNCHANGED <<required, result, built, linked, promises, outcome, order>>
    PROVE  QuorumInv'
  <1>1. PICK f \in {0, 1}, c \in {0, 1}, i \in 1..(Count + 1), n \in Nat :
          Plain /\ Stacked(f, c, i, n)
    BY DEF QuorumInv
  <1>2. ~Building /\ alive /\ built = Count /\ futures = Cardinality(handles) + Waits /\ futures # 0
    BY <1>1, Phases DEF Plain, Lifetime
  <1>3. c = 0 /\ n = 0
    <2>1. c # 1
      BY <1>1, <1>2 DEF Stacked, StackOK
    <2>2. Frames(stack, f, c, i, n)
      BY <1>1 DEF Stacked
    <2>3. c = 0 => n = 0
      BY <2>2, TopFrame
    <2> QED
      BY <2>1, <2>3
  <1>4. /\ handles' \subseteq Handles /\ IsFiniteSet(handles') /\ Cardinality(handles') \in Nat
        /\ Cardinality(handles') = 0 <=> handles' = {}
    <2>1. handles' \subseteq Handles /\ IsFiniteSet(Handles)
      BY <1>1, QuorumFacts DEF QuorumAssumption
    <2>2. IsFiniteSet(handles')
      BY <2>1, FS_Subset
    <2> QED
      BY <2>1, <2>2, FS_CardinalityType, FS_EmptySet
  <1>5. (waiting' => Waits' = 1) /\ (~waiting' => Waits' = 0)
    BY DEF Waits
  <1>6. /\ futures' = Cardinality(handles') + Waits' /\ futures' \in Nat /\ futures' = futures - 1
        /\ futures' = 0 <=> handles' = {} /\ ~waiting'
    <2>1. futures' = futures - 1
      BY DEF DelFutureRef
    <2>2. futures \in Nat
      BY <1>1, QuorumFacts
    <2>3. futures - 1 = Cardinality(handles') + Waits'
      <3>1. Cardinality(handles) \in Nat /\ Waits \in {0, 1}
        BY <1>1, QuorumFacts DEF Waits
      <3> QED
        BY <1>2, <3>1
    <2>4. Waits' \in {0, 1} /\ (Waits' = 0 <=> ~waiting')
      BY <1>5
    <2>5. futures' \in Nat /\ (futures' = 0 <=> Cardinality(handles') = 0 /\ Waits' = 0)
      BY <1>2, <1>4, <2>1, <2>2, <2>3, <2>4
    <2> QED
      BY <1>4, <2>1, <2>3, <2>4, <2>5
  <1>7. ~Building'
    BY <1>1, <1>2, <1>6, QuorumFacts DEF Building
  <1>8. RefsOK'
    <2>1. Handed' = 0 /\ \A x \in linked : x <= built
      BY <1>1, <1>7 DEF Handed, Plain, RefsOK
    <2>2. Cardinality(handles') + Waits' + 0 = Cardinality(handles') + Waits'
      BY <1>4, <1>5
    <2>3. Count \in Nat
      BY DEF QuorumAssumption
    <2> QED
      BY <1>2, <1>6, <1>7, <2>1, <2>2, <2>3 DEF RefsOK
  <1>9. NoneYet' /\ Decided' /\ order' \in Seq({"value", "error"})
    BY <1>1, <1>2 DEF Plain, NoneYet, Decided, Successes
  <1>10. promises = 0 + Cardinality(linked) + f + 0 /\ promises \in Nat /\ Cardinality(linked) \in Nat
    BY <1>1, <1>2, <1>3, QuorumFacts DEF Stacked, StackOK
  <1>11. /\ f = 1 => outcome # Unset
         /\ outcome # Unset /\ f = 0 => ~waiting
         /\ linked \subseteq 1..Count /\ Count \in Nat /\ (Cardinality(linked) = 0 <=> linked = {})
    BY <1>1, QuorumFacts DEF Stacked, StackOK
  <1>12. ASSUME Lifetime', alive' \in BOOLEAN,
                \E d \in {0, 1} : Frames(stack', f, d, 1, 0) /\ StackOK(f, d, 1, 0)'
         PROVE  QuorumInv'
    <2>1. 1 \in 1..(Count + 1) /\ 0 \in Nat
      BY <1>11
    <2>2. \A k \in DOMAIN stack' : stack'[k].op \in {"finish", "cancel"}
      BY <1>12, <2>1, TopFrame
    <2>3. TypeOK'
      BY <1>1, <1>4, <1>6, <1>12, <2>2 DEF Plain, TypeOK
    <2> QED
      BY <1>8, <1>9, <1>12, <2>1, <2>3 DEF QuorumInv, Plain, Stacked
  <1>13. Frames(stack, f, 0, 1, 0) /\ f \in Nat /\ futures \in Nat
    BY <1>1, <1>3, <1>11, QuorumFacts DEF Stacked, Frames
  <1>17. (alive' <=> ~(futures = 1 /\ promises = 0)) /\ alive' \in BOOLEAN
    BY DEF DelFutureRef
  <1>14. CASE futures = 1 /\ promises > 0
    <2>1. stack' = <<CancelFrame(1, 0)>> \o stack
      BY <1>14 DEF DelFutureRef
    <2>2. alive'
      BY <1>10, <1>14, <1>17
    <2>3. Frames(stack', f, 1, 1, 0)
      BY <1>11, <1>13, <2>1, PushFrame
    <2>4. stack' # <<>>
      BY <1>11, <2>3, TopFrame
    <2>5. futures' = 0 /\ ~waiting'
      BY <1>6, <1>14
    <2>6. StackOK(f, 1, 1, 0)'
      BY <1>2, <1>10, <1>11, <2>5 DEF StackOK
    <2> QED
      BY <1>12, <2>2, <2>3, <2>4, <2>6 DEF Lifetime
  <1>15. CASE futures = 1 /\ promises = 0
    <2>1. stack' = stack
      BY <1>15 DEF DelFutureRef
    <2>2. alive' = FALSE
      BY <1>15 DEF DelFutureRef
    <2>3. f = 0 /\ linked = {}
      <3>1. f = 0 /\ Cardinality(linked) = 0
        BY <1>10, <1>13, <1>15
      <3> QED
        BY <1>11, <3>1
    <2>4. stack = <<>>
      BY <1>1, <1>3, <2>3, TopFrame DEF Stacked
    <2>5. futures' = 0 /\ ~waiting' /\ handles' = {}
      BY <1>6, <1>15
    <2>6. Lifetime'
      BY <1>7, <2>1, <2>2, <2>3, <2>4, <2>5 DEF Lifetime
    <2>7. StackOK(f, 0, 1, 0)'
      BY <2>2, <2>3, <2>5 DEF StackOK
    <2> QED
      BY <1>12, <1>13, <2>1, <2>2, <2>6, <2>7
  <1>16. CASE futures # 1
    <2>1. stack' = stack
      BY <1>16 DEF DelFutureRef
    <2>2. alive'
      BY <1>16, <1>17
    <2>3. futures' # 0 /\ (handles' # {} \/ waiting')
      <3>1. futures' # 0
        BY <1>6, <1>13, <1>16
      <3> QED
        BY <1>6, <3>1
    <2>4. Lifetime'
      BY <2>2, <2>3 DEF Lifetime
    <2>5. StackOK(f, 0, 1, 0)'
      BY <1>2, <1>10, <1>11, <2>3 DEF StackOK
    <2> QED
      BY <1>12, <1>13, <2>1, <2>2, <2>4, <2>5
  <1> QED
    BY <1>10, <1>14, <1>15, <1>16

(***************************************************************************)
(* The end of a send.                                                      *)
(***************************************************************************)
LEMMA FinishInv ==
    ASSUME QuorumAssumption, QuorumInv, Finish
    PROVE  QuorumInv'
  <1>1. PICK f \in {0, 1}, c \in {0, 1}, i \in 1..(Count + 1), n \in Nat :
          Plain /\ Stacked(f, c, i, n)
    BY DEF QuorumInv
  <1>2. /\ stack # <<>> /\ Head(stack).op = "finish" /\ ~waiting
        /\ promises' = promises - 1 /\ stack' = Tail(stack)
        /\ UNCHANGED <<required, result, built, linked, futures, outcome, waiting, handles,
                       order, heard>>
    BY DEF Finish, InFinish
  <1>3. (alive' <=> ~(promises = 1 /\ futures = 0)) /\ alive' \in BOOLEAN
    BY DEF Finish
  <1>4. f = 1 /\ Frames(stack', 0, c, i, n) /\ (c = 0 \/ n > 0) /\ (c = 0 => n = 0)
    BY <1>1, <1>2, TopFrame DEF Stacked
  <1>5. alive
    BY <1>1, <1>2 DEF Plain, Lifetime
  <1>6. /\ promises = (Count - built) + Cardinality(linked) + f + n
        /\ f = 1 => outcome # Unset
        /\ c = 1 => futures = 0 /\ \A x \in linked : x >= i
        /\ futures = 0 /\ c = 0 => linked = {}
    BY <1>1, <1>5 DEF Stacked, StackOK
  <1>7. /\ Count \in Nat /\ built \in 0..Count /\ Cardinality(linked) \in Nat
        /\ promises \in 0..Count /\ (Cardinality(linked) = 0 <=> linked = {})
    BY <1>1, QuorumFacts
  <1>8. promises' = (Count - built) + Cardinality(linked) + 0 + n /\ promises' \in 0..Count
    <2>1. promises = (Count - built) + Cardinality(linked) + 1 + n /\ promises' = promises - 1
      BY <1>2, <1>4, <1>6
    <2> QED
      BY ONLY <1>7, <2>1, n \in Nat
  <1>9. StackOK(0, c, i, n)'
    BY <1>2, <1>6, <1>8 DEF StackOK
  <1>10. outcome' # Unset
    BY <1>2, <1>4, <1>6
  <1>11. NoneYet' /\ Decided' /\ order' \in Seq({"value", "error"})
    BY <1>1, <1>2, <1>10 DEF Plain, NoneYet, Decided, Successes, Unset
  <1>12. \A k \in DOMAIN stack' : stack'[k].op \in {"finish", "cancel"}
    BY <1>4, TopFrame
  <1>13. TypeOK'
    BY <1>1, <1>2, <1>3, <1>8, <1>12 DEF Plain, TypeOK
  <1>14. CASE alive'
    <2>1. RefsOK'
      BY <1>1, <1>2, <1>5, <1>14 DEF Plain, RefsOK, Building, Handed, Waits
    <2>2. CASE c = 1
      <3>1. stack' # <<>>
        BY <1>4, <2>2, TopFrame
      <3> QED
        BY <1>9, <1>4, <1>11, <1>13, <1>14, <2>1, <3>1 DEF QuorumInv, Plain, Stacked, Lifetime
    <2>3. CASE c = 0
      <3>1. Building \/ handles # {} \/ linked # {}
        <4>1. CASE futures = 0
          <5>1. (Count - built) + Cardinality(linked) > 0
            BY <1>3, <1>4, <1>6, <1>7, <1>14, <2>3, <4>1
          <5>2. built < Count \/ Cardinality(linked) # 0
            BY <1>7, <5>1
          <5> QED
            BY <1>7, <5>2 DEF Building
        <4>2. CASE futures # 0
          BY <1>1, <1>2, <4>2, Phases
        <4> QED
          BY <4>1, <4>2
      <3>2. Building' <=> Building
        BY <1>2, <1>5, <1>14 DEF Building
      <3>3. Lifetime'
        BY <1>2, <1>14, <3>1, <3>2 DEF Lifetime
      <3> QED
        BY <1>4, <1>9, <1>11, <1>13, <2>1, <3>3 DEF QuorumInv, Plain, Stacked
    <2> QED
      BY <2>2, <2>3
  <1>15. CASE ~alive'
    <2>1. promises = 1 /\ futures = 0
      BY <1>3, <1>15
    <2>2. n = 0 /\ built = Count /\ Cardinality(linked) = 0
      BY <1>4, <1>6, <1>7, <2>1
    <2>3. c = 0 /\ linked = {}
      BY <1>4, <1>7, <2>2
    <2>4. stack' = <<>>
      BY <1>4, <2>3, TopFrame
    <2>5. ~Building /\ ~Building'
      <3>1. ~Building
        BY <1>1, <2>1, Phases
      <3> QED
        BY <1>2, <1>7, <1>15, <2>2, <3>1 DEF Building
    <2>6. handles = {}
      BY <1>1, <2>1, <2>5, Phases
    <2>7. Lifetime'
      BY <1>2, <1>15, <2>3, <2>4, <2>5, <2>6 DEF Lifetime
    <2>8. RefsOK'
      <3>1. futures = Cardinality(handles) + Waits + Handed
        BY <1>1 DEF Plain, RefsOK
      <3>2. Handed = Handed' /\ Waits' = Waits
        BY <1>2, <2>5 DEF Handed, Waits
      <3> QED
        BY <1>2, <1>7, <2>2, <2>3, <2>5, <3>1, <3>2 DEF RefsOK
    <2> QED
      BY <1>4, <1>9, <1>11, <1>13, <2>7, <2>8 DEF QuorumInv, Plain, Stacked
  <1> QED
    BY <1>14, <1>15

(***************************************************************************)
(* A turn of the loop of cancel() moves a callback's promise to n.         *)
(***************************************************************************)
LEMMA CancelNextInv ==
    ASSUME QuorumAssumption, QuorumInv, CancelNext
    PROVE  QuorumInv'
  <1>1. PICK f \in {0, 1}, c \in {0, 1}, i \in 1..(Count + 1), n \in Nat :
          Plain /\ Stacked(f, c, i, n)
    BY DEF QuorumInv
  <1>0. PICK m \in Nat : m = n + (IF i \in linked THEN 1 ELSE 0)
    OBVIOUS
  <1>2. /\ stack # <<>> /\ Head(stack).op = "cancel" /\ Head(stack).i <= Count
        /\ linked' = linked \ {Head(stack).i}
        /\ stack' = <<CancelFrame(Head(stack).i + 1,
                                  Head(stack).n + (IF Head(stack).i \in linked THEN 1 ELSE 0))>>
                      \o Tail(stack)
        /\ UNCHANGED <<required, result, built, promises, futures, outcome, alive, waiting,
                       handles, order, heard>>
    BY DEF CancelNext, InCancel
  <1>3. c = 1 /\ Head(stack).i = i /\ Head(stack).n = n
    <2>1. Frames(stack, f, c, i, n)
      BY <1>1 DEF Stacked
    <2>2. stack # <<>> /\ Head(stack).op = "cancel"
      BY <1>2
    <2> QED
      BY <2>1, <2>2, TopFrame
  <1>4. Count \in Nat /\ i \in 1..Count /\ i + 1 \in 1..(Count + 1)
    BY <1>2, <1>3 DEF QuorumAssumption
  <1>5. Frames(stack', f, 1, i + 1, m)
    <2>1. stack' = <<CancelFrame(i + 1, m)>> \o Tail(stack)
      BY <1>0, <1>2, <1>3
    <2>2. Frames(stack, f, c, i, n) /\ stack # <<>> /\ Head(stack).op = "cancel"
      BY <1>1, <1>2 DEF Stacked
    <2> QED
      BY <1>4, <2>1, <2>2, NextFrame
  <1>6. alive /\ futures = 0
    BY <1>1, <1>2, <1>3 DEF Plain, Lifetime, Stacked, StackOK
  <1>7. ~Building
    BY <1>1, <1>6, Phases
  <1>8. /\ Cardinality(linked) \in Nat /\ linked \subseteq 1..Count /\ built \in 0..Count
        /\ IsFiniteSet(linked) /\ promises \in Nat
    BY <1>1, QuorumFacts
  <1>9. Cardinality(linked') \in Nat /\ Cardinality(linked') + m = Cardinality(linked) + n
    <2>1. CASE i \in linked
      <3>1. linked' = linked \ {i} /\ m = n + 1
        BY <1>0, <1>2, <1>3, <2>1
      <3>2. IsFiniteSet(linked') /\ Cardinality(linked') = Cardinality(linked) - 1
        BY <1>8, <2>1, <3>1, CardinalityRemove, FS_Subset
      <3>3. Cardinality(linked') \in Nat
        BY <3>2, FS_CardinalityType
      <3> QED
        BY <1>8, <3>1, <3>2, <3>3
    <2>2. CASE i \notin linked
      <3>1. linked' = linked /\ m = n
        BY <1>0, <1>2, <1>3, <2>2
      <3> QED
        BY <1>8, <3>1
    <2> QED
      BY <2>1, <2>2
  <1>10. promises' = (Count - built') + Cardinality(linked') + f + m
    <2>1. promises = (Count - built) + Cardinality(linked) + f + n
      BY <1>1, <1>6 DEF Stacked, StackOK
    <2>2. f \in Nat /\ n \in Nat
      OBVIOUS
    <2>3. promises' = promises /\ built' = built
      BY <1>2
    <2> QED
      BY ONLY <1>4, <1>8, <1>9, <2>1, <2>2, <2>3
  <1>11. \A x \in linked' : x >= i + 1
    <2>1. \A x \in linked : x >= i /\ x \in Nat
      BY <1>1, <1>3, <1>8 DEF Stacked, StackOK
    <2> QED
      BY <1>2, <1>3, <1>4, <2>1
  <1>12. StackOK(f, 1, i + 1, m)'
    <2>1. /\ f = 1 => outcome # Unset
          /\ outcome # Unset /\ f = 0 => ~waiting
      BY <1>1 DEF Stacked, StackOK
    <2>2. UNCHANGED <<futures, outcome, waiting>>
      BY <1>2
    <2> QED
      BY ONLY <1>6, <1>10, <1>11, <2>1, <2>2 DEF StackOK
  <1>13. stack' # <<>> /\ \A k \in DOMAIN stack' : stack'[k].op \in {"finish", "cancel"}
    <2>1. PICK j \in 1..(Count + 1), d \in {0, 1} : j = i + 1 /\ d = 1
      BY <1>4
    <2>2. Frames(stack', f, d, j, m) /\ d # 0
      BY <1>5, <2>1
    <2> QED
      BY ONLY QuorumAssumption, f \in {0, 1}, d \in {0, 1}, j \in 1..(Count + 1), m \in Nat,
              <2>2, TopFrame
  <1>14. Lifetime'
    BY <1>2, <1>6, <1>13 DEF Lifetime
  <1>15. RefsOK'
    BY <1>1, <1>2, <1>6 DEF Plain, RefsOK, Building, Handed, Waits
  <1>16. NoneYet' /\ Decided' /\ order' \in Seq({"value", "error"})
    BY <1>1, <1>2 DEF Plain, NoneYet, Decided, Successes
  <1>17. TypeOK'
    BY <1>1, <1>2, <1>13 DEF Plain, TypeOK
  <1> QED
    <2>1. Plain'
      BY <1>14, <1>15, <1>16, <1>17 DEF Plain
    <2>2. Stacked(f, 1, i + 1, m)'
      BY <1>5, <1>12 DEF Stacked
    <2> QED
      BY <1>4, <2>1, <2>2 DEF QuorumInv

(***************************************************************************)
(* The rest of cancel(): only a send below it still has a promise.         *)
(***************************************************************************)
LEMMA CancelEndInv ==
    ASSUME QuorumAssumption, QuorumInv, CancelEnd
    PROVE  QuorumInv'
  <1>1. PICK f \in {0, 1}, c \in {0, 1}, i \in 1..(Count + 1), n \in Nat :
          Plain /\ Stacked(f, c, i, n)
    BY DEF QuorumInv
  <1>2. /\ stack # <<>> /\ Head(stack).op = "cancel" /\ Head(stack).i > Count
        /\ outcome' = (IF canBeSet THEN "actor_cancelled" ELSE outcome)
        /\ promises' = promises - Head(stack).n
        /\ stack' = Tail(stack)
        /\ UNCHANGED <<required, result, built, linked, futures, waiting, handles, order, heard>>
    BY DEF CancelEnd, InCancel
  <1>3. c = 1 /\ Head(stack).i = i /\ Head(stack).n = n /\ Frames(stack', f, 0, 1, 0)
    BY <1>1, <1>2, TopFrame DEF Stacked
  <1>4. /\ alive /\ futures = 0 /\ \A x \in linked : x >= i
        /\ promises = (Count - built) + Cardinality(linked) + f + n
    BY <1>1, <1>2, <1>3 DEF Plain, Lifetime, Stacked, StackOK
  <1>5. (alive' <=> promises' > 0) /\ alive' \in BOOLEAN
    BY <1>4 DEF CancelEnd
  <1>6. ~Building /\ built = Count /\ handles = {} /\ ~waiting
    BY <1>1, <1>4, Phases
  <1>7. Count \in Nat /\ linked \subseteq 1..Count /\ f \in Nat
    BY <1>1, QuorumFacts
  <1>8. linked = {}
    BY <1>2, <1>3, <1>4, <1>7
  <1>9. Cardinality(linked) = 0
    BY <1>8, FS_EmptySet
  <1>10. promises = f + n /\ promises \in 0..Count
    BY <1>1, <1>4, <1>6, <1>7, <1>9, QuorumFacts
  <1>11. promises' = f /\ promises' \in 0..Count
    BY <1>2, <1>3, <1>7, <1>10
  <1>12. outcome' # Unset /\ (outcome' = outcome \/ outcome' = "actor_cancelled")
    BY <1>2 DEF canBeSet, Unset
  <1>13. ~Building'
    BY <1>2, <1>4, <1>6, <1>7 DEF Building
  <1>14. promises' = (Count - built') + Cardinality(linked') + f + 0
    BY <1>2, <1>6, <1>7, <1>9, <1>11
  <1>15. StackOK(f, 0, 1, 0)'
    BY <1>2, <1>6, <1>8, <1>12, <1>14 DEF StackOK
  <1>16. 1 \in 1..(Count + 1) /\ 0 \in Nat
    BY <1>7
  <1>17. /\ \A k \in DOMAIN stack' : stack'[k].op \in {"finish", "cancel"}
         /\ stack' = <<>> <=> f = 0
    BY <1>3, <1>16, TopFrame
  <1>18. Lifetime'
    <2>1. alive' <=> f = 1
      BY <1>5, <1>11
    <2> QED
      BY <1>2, <1>6, <1>8, <1>13, <1>17, <2>1 DEF Lifetime
  <1>19. RefsOK'
    <2>1. futures = Cardinality(handles) + Waits + Handed
      BY <1>1 DEF Plain, RefsOK
    <2>2. Handed' = Handed /\ Waits' = Waits
      BY <1>2, <1>6, <1>13 DEF Handed, Waits
    <2> QED
      BY <1>2, <1>6, <1>7, <1>8, <1>13, <2>1, <2>2 DEF RefsOK
  <1>20. NoneYet' /\ Decided' /\ order' \in Seq({"value", "error"})
    BY <1>1, <1>2, <1>12 DEF Plain, NoneYet, Decided, Successes, Unset
  <1>21. TypeOK'
    BY <1>1, <1>2, <1>5, <1>11, <1>12, <1>17 DEF Plain, TypeOK, Outcomes
  <1> QED
    BY <1>3, <1>15, <1>16, <1>18, <1>19, <1>20, <1>21 DEF QuorumInv, Plain, Stacked

-----------------------------------------------------------------------------
(***************************************************************************)
(* quorum() makes the SAV.                                                 *)
(***************************************************************************)
LEMMA InitQuorumInv ==
    ASSUME QuorumAssumption, Init
    PROVE  QuorumInv
  <1>1. /\ required \in 0..Count /\ result \in [Results -> {"pending", "value", "error"}]
        /\ built = 0 /\ linked = {} /\ promises = Count /\ futures = 1
        /\ outcome = (IF required = 0 THEN "set" ELSE Unset)
        /\ alive = TRUE /\ waiting = FALSE /\ handles = {}
        /\ stack = <<>> /\ order = <<>> /\ heard = {}
    BY DEF Init
  <1>2. /\ Count \in Nat /\ Cardinality(linked) = 0 /\ Cardinality(handles) = 0
        /\ order \in Seq({"value", "error"}) /\ Len(order) = 0 /\ DOMAIN stack = {}
    BY <1>1, FS_EmptySet, EmptySeq DEF QuorumAssumption
  <1>3. TypeOK
    <2>1. outcome \in Outcomes \union {Unset}
      BY <1>1 DEF Outcomes
    <2>2. promises \in 0..Count /\ built \in 0..Count /\ futures \in Nat
      BY <1>1, <1>2
    <2> QED
      BY <1>1, <1>2, <2>1, <2>2 DEF TypeOK
  <1>4. Building
    BY <1>1 DEF Building
  <1>5. RefsOK
    BY <1>1, <1>2, <1>4 DEF RefsOK, Handed, Waits
  <1>6. Lifetime
    BY <1>1, <1>4 DEF Lifetime
  <1>7. NoneYet
    BY <1>1, <1>2 DEF NoneYet, Unset
  <1>8. Decided
    <2>1. Successes \in Nat
      <3>1. Successes = Cardinality(Good(order))
        BY DEF Successes, Good
      <3>2. Len(order) \in Nat /\ Cardinality(Good(order)) \in 0..Len(order)
        BY ONLY <1>2, GoodSize
      <3> QED
        BY <3>1, <3>2
    <2> QED
      BY <1>1, <2>1 DEF Decided, Unset
  <1>9. Stacked(0, 0, 1, 0)
    BY <1>1, <1>2 DEF Stacked, Frames, StackOK, Unset
  <1>10. 0 \in {0, 1} /\ 1 \in 1..(Count + 1) /\ 0 \in Nat
    BY <1>2
  <1> QED
    BY <1>2, <1>3, <1>5, <1>6, <1>7, <1>8, <1>9, <1>10 DEF QuorumInv, Plain

(***************************************************************************)
(* Futures are copied and dropped, an actor waits and stops waiting.       *)
(***************************************************************************)
LEMMA FutureStepInv ==
    ASSUME QuorumAssumption, QuorumInv,
           \/ \E h \in Handles : Drop(h) \/ Wait(h) \/ \E g \in Handles : Copy(g, h)
           \/ Unwait \/ FireWaiter
    PROVE  QuorumInv'
  <1>1. /\ Plain /\ IsFiniteSet(handles) /\ Cardinality(handles) \in Nat
        /\ handles \subseteq Handles /\ waiting \in BOOLEAN /\ heard \subseteq Outcomes
    BY QuorumFacts DEF QuorumInv, Plain, TypeOK
  <1>2. (waiting => Waits = 1) /\ (~waiting => Waits = 0)
    BY DEF Waits
  <1>3. (waiting' => Waits' = 1) /\ (~waiting' => Waits' = 0)
    BY DEF Waits
  <1>4. ASSUME NEW g \in Handles, NEW h \in Handles, Copy(g, h)
        PROVE  QuorumInv'
    <2>1. /\ g \in handles /\ h \notin handles /\ handles' = handles \union {h} /\ futures' = futures + 1
          /\ UNCHANGED <<required, result, built, linked, promises, outcome, alive, waiting,
                         stack, order, heard>>
      BY <1>4 DEF Copy
    <2>2. Cardinality(handles') = Cardinality(handles) + 1
      BY <1>1, <2>1, CardinalityAdd
    <2>3. Waits' = Waits /\ Waits \in Nat
      BY <2>1 DEF Waits
    <2>4. Cardinality(handles') + Waits' = Cardinality(handles) + Waits + 1
      BY <1>1, <2>2, <2>3
    <2> QED
      BY <1>1, <2>1, <2>4, AddFutureInv
  <1>5. ASSUME NEW h \in Handles, Wait(h)
        PROVE  QuorumInv'
    <2>1. /\ h \in handles /\ outcome = Unset /\ ~waiting /\ waiting' = TRUE /\ futures' = futures + 1
          /\ UNCHANGED <<required, result, built, linked, promises, outcome, alive, handles,
                         stack, order, heard>>
      BY <1>5 DEF Wait, canBeSet
    <2>2. Waits' = 1 /\ Waits = 0
      BY <2>1 DEF Waits
    <2>3. Cardinality(handles') + Waits' = Cardinality(handles) + Waits + 1
      BY <1>1, <2>1, <2>2
    <2> QED
      BY <1>1, <2>1, <2>3, AddFutureInv
  <1>6. ASSUME NEW h \in Handles, Drop(h)
        PROVE  QuorumInv'
    <2>1. /\ h \in handles /\ handles' = handles \ {h} /\ DelFutureRef
          /\ UNCHANGED <<required, result, built, linked, promises, outcome, waiting, order, heard>>
      BY <1>6 DEF Drop
    <2>2. Cardinality(handles') = Cardinality(handles) - 1
      BY <1>1, <2>1, CardinalityRemove
    <2>3. Waits' = Waits /\ Waits \in Nat
      BY <2>1 DEF Waits
    <2>4. Cardinality(handles') + Waits' = Cardinality(handles) + Waits - 1
      BY <1>1, <2>2, <2>3
    <2> QED
      BY <1>1, <2>1, <2>4, DelFutureInv
  <1>7. ASSUME Unwait \/ FireWaiter
        PROVE  QuorumInv'
    <2>1. /\ waiting /\ waiting' = FALSE /\ DelFutureRef
          /\ UNCHANGED <<required, result, built, linked, promises, outcome, handles, order>>
      BY <1>7 DEF Unwait, FireWaiter
    <2>2. heard' \subseteq Outcomes
      <3>1. CASE Unwait
        BY <1>1, <3>1 DEF Unwait
      <3>2. CASE FireWaiter
        <4>1. PICK f \in {0, 1}, c \in {0, 1}, i \in 1..(Count + 1), n \in Nat : Stacked(f, c, i, n)
          BY DEF QuorumInv
        <4>2. f = 1
          BY <3>2, <4>1, TopFrame DEF FireWaiter, InFinish, Stacked
        <4>3. outcome \in Outcomes
          BY <1>1, <4>1, <4>2 DEF Stacked, StackOK, Plain, TypeOK
        <4> QED
          BY <1>1, <3>2, <4>3 DEF FireWaiter
      <3> QED
        BY <1>7, <3>1, <3>2
    <2>3. Waits' = 0 /\ Waits = 1
      BY <2>1 DEF Waits
    <2>4. Cardinality(handles') + Waits' = Cardinality(handles) + Waits - 1
      BY <1>1, <2>1, <2>3
    <2> QED
      BY <1>1, <2>1, <2>2, <2>4, DelFutureInv
  <1> QED
    BY <1>4, <1>5, <1>6, <1>7

(***************************************************************************)
(* Every step keeps the invariant.                                         *)
(***************************************************************************)
LEMMA NextQuorumInv ==
    ASSUME QuorumAssumption, QuorumInv, [Next]_vars
    PROVE  QuorumInv'
  <1>1. CASE UserStep
    <2>1. CASE \E x \in Results, r \in {"value", "error"} : Complete(x, r)
      BY <1>1, <2>1, CompleteInv DEF UserStep
    <2>2. CASE \/ \E h \in Handles : Drop(h) \/ Wait(h) \/ \E g \in Handles : Copy(g, h)
               \/ Unwait
      BY <2>2, FutureStepInv
    <2> QED
      BY <1>1, <2>1, <2>2 DEF UserStep
  <1>2. CASE QuorumStep
    BY <1>2, BuildInv, ReturnInv, FutureStepInv, FinishInv, CancelNextInv, CancelEndInv
       DEF QuorumStep
  <1>3. CASE UNCHANGED vars
    <2>1. UNCHANGED <<required, result, built, linked, promises, futures, outcome, alive,
                      waiting, handles, stack, order, heard>>
      BY <1>3 DEF vars
    <2> QED
      BY <2>1 DEF QuorumInv, Plain, TypeOK, RefsOK, Lifetime, NoneYet, Decided, Stacked,
                  Frames, StackOK, Building, Handed, Waits, Successes
  <1> QED
    BY <1>1, <1>2, <1>3 DEF Next

(***************************************************************************)
(* The promise count, read off the stack.                                  *)
(***************************************************************************)
LEMMA PromisesFromStack ==
    ASSUME QuorumAssumption, NEW f \in {0, 1}, NEW c \in {0, 1},
           NEW i \in 1..(Count + 1), NEW n \in Nat, Stacked(f, c, i, n)
    PROVE  PromisesAreResults
  <1> DEFINE F == {k \in DOMAIN stack : stack[k].op = "finish"}
             C == {k \in DOMAIN stack : stack[k].op = "cancel"}
             N == IF \E k \in DOMAIN stack : stack[k].op = "cancel"
                    THEN stack[CHOOSE k \in DOMAIN stack : stack[k].op = "cancel"].n
                    ELSE 0
  <1>1. Cardinality(F) = f /\ N = n
    <2>1. ASSUME NEW a, F = {a}, f = 1
          PROVE  Cardinality(F) = f
      BY <2>1, FS_Singleton
    <2>2. ASSUME F = {}, f = 0
          PROVE  Cardinality(F) = f
      BY <2>2, FS_EmptySet
    <2>3. ASSUME NEW a, C = {a}, stack[a].n = n
          PROVE  N = n
      <3>1. \E k \in DOMAIN stack : stack[k].op = "cancel"
        BY <2>3
      <3>2. (CHOOSE k \in DOMAIN stack : stack[k].op = "cancel") \in C
        BY <3>1
      <3> QED
        BY <2>3, <3>1, <3>2
    <2>4. ASSUME C = {}, n = 0
          PROVE  N = n
      BY <2>4
    <2> HIDE DEF N
    <2>5. CASE stack = <<>> /\ f = 0 /\ c = 0 /\ n = 0
      <3>1. F = {} /\ C = {}
        BY <2>5
      <3> QED
        BY <2>2, <2>4, <2>5, <3>1
    <2>6. CASE stack = <<FinishFrame>> /\ f = 1 /\ c = 0 /\ n = 0
      <3>1. F = {1} /\ C = {}
        BY <2>6 DEF FinishFrame
      <3> QED
        BY <2>1, <2>4, <2>6, <3>1
    <2>7. CASE stack = <<CancelFrame(i, n)>> /\ f = 0 /\ c = 1
      <3>1. F = {} /\ C = {1} /\ stack[1].n = n
        BY <2>7 DEF CancelFrame
      <3> QED
        BY <2>2, <2>3, <2>7, <3>1
    <2>8. CASE stack = <<CancelFrame(i, n), FinishFrame>> /\ f = 1 /\ c = 1
      <3>1. F = {2} /\ C = {1} /\ stack[1].n = n
        BY <2>8 DEF CancelFrame, FinishFrame
      <3> QED
        BY <2>1, <2>3, <2>8, <3>1
    <2>9. CASE stack = <<FinishFrame, CancelFrame(i, n)>> /\ f = 1 /\ c = 1 /\ n > 0
      <3>1. F = {1} /\ C = {2} /\ stack[2].n = n
        BY <2>9 DEF CancelFrame, FinishFrame
      <3> QED
        BY <2>1, <2>3, <2>9, <3>1
    <2> QED
      BY <2>5, <2>6, <2>7, <2>8, <2>9 DEF Stacked, Frames
  <1>2. alive => promises = (Count - built) + Cardinality(linked) + f + n
    BY DEF Stacked, StackOK
  <1> QED
    BY <1>1, <1>2 DEF PromisesAreResults

(***************************************************************************)
(* The invariant implies what the quorum is to guarantee of its counts,    *)
(* its lifetime and its outcome.                                           *)
(***************************************************************************)
LEMMA QuorumInvSafe ==
    ASSUME QuorumAssumption, QuorumInv
    PROVE  TypeOK /\ OutcomeIsRight /\ PromisesAreResults /\ Lifetime /\ NoOrphan
  <1>1. PICK f \in {0, 1}, c \in {0, 1}, i \in 1..(Count + 1), n \in Nat :
          Plain /\ Stacked(f, c, i, n)
    BY DEF QuorumInv
  <1>2. TypeOK /\ Lifetime /\ Decided
    BY <1>1 DEF Plain
  <1>3. PromisesAreResults
    BY <1>1, PromisesFromStack
  <1>4. OutcomeIsRight
    <2>1. ASSUME outcome = Unset, alive
          PROVE  Successes < required /\ Successes = Len(order)
      <3>1. /\ Len(order) < required /\ order \in Seq({"value", "error"})
            /\ \A j \in 1..Len(order) : order[j] = "value"
        BY <1>1, <2>1 DEF Plain, NoneYet
      <3>2. Successes = Cardinality(Good(order))
        BY DEF Successes, Good
      <3>3. Successes = Len(order)
        BY <3>1, <3>2, GoodSize
      <3> QED
        BY <3>1, <3>3
    <2> QED
      BY <1>2, <2>1 DEF OutcomeIsRight, Decided
  <1>5. NoOrphan
    <2> SUFFICES ASSUME stack = <<>>, ~Building
                 PROVE  (waiting => canBeSet /\ linked # {}) /\ (linked # {} => futures > 0)
      BY DEF NoOrphan
    <2>1. f = 0 /\ c = 0 /\ n = 0
      BY <1>1, TopFrame DEF Stacked
    <2>2. futures \in Nat /\ (futures = 0 => linked = {})
      BY <1>1, <2>1, QuorumFacts DEF Stacked, StackOK
    <2>3. ASSUME waiting
          PROVE  canBeSet /\ linked # {}
      <3>1. outcome = Unset /\ alive /\ built = Count
        BY <1>1, <2>1, <2>3, Phases DEF Stacked, StackOK, Plain, Lifetime
      <3>2. promises = Count - Len(order) /\ Len(order) < required /\ Len(order) \in Nat
        BY <1>1, <3>1, LenProperties DEF Plain, NoneYet
      <3>3. promises = (Count - built) + Cardinality(linked) + f + n
        BY <1>1, <3>1 DEF Stacked, StackOK
      <3>4. Cardinality(linked) # 0
        BY <1>1, <2>1, <3>1, <3>2, <3>3, QuorumFacts
      <3> QED
        BY <1>1, <3>1, <3>4, QuorumFacts DEF canBeSet
    <2> QED
      BY <2>2, <2>3
  <1> QED
    BY <1>2, <1>3, <1>4, <1>5

-----------------------------------------------------------------------------
(***************************************************************************)
(* What ToldTheOutcome needs besides: a quorum that was cancelled has no   *)
(* future, hence no waiter.                                                *)
(***************************************************************************)
HeardOK == ToldTheOutcome /\ (outcome = "actor_cancelled" => futures = 0)

(***************************************************************************)
(* An outcome stays; only the end of cancel() makes it actor_cancelled.    *)
(***************************************************************************)
LEMMA OutcomeOnce ==
    ASSUME QuorumAssumption, QuorumInv, [Next]_vars
    PROVE  /\ outcome # Unset => outcome' = outcome
           /\ outcome' = "actor_cancelled" => outcome' = outcome \/ CancelEnd
  <1>1. ASSUME NEW r, Report(r)
        PROVE  outcome' = outcome \/ (outcome = Unset /\ outcome' \in {"set", "error"})
    BY <1>1 DEF Report, oneSuccess, oneError, SendAndDelPromiseRef, DelPromiseRef, canBeSet
  <1>2. CASE Build
    BY <1>1, <1>2 DEF Build
  <1>3. CASE \E x \in Results, r \in {"value", "error"} : Complete(x, r)
    BY <1>1, <1>3 DEF Complete
  <1>4. CASE CancelEnd
    BY <1>4 DEF CancelEnd, canBeSet
  <1>5. CASE \/ \E h \in Handles : Drop(h) \/ Wait(h) \/ \E g \in Handles : Copy(g, h)
             \/ Unwait \/ Return \/ FireWaiter \/ Finish \/ CancelNext \/ UNCHANGED vars
    BY <1>5 DEF Drop, Wait, Copy, Unwait, Return, FireWaiter, Finish, CancelNext, vars
  <1> QED
    BY <1>2, <1>3, <1>4, <1>5 DEF Next, UserStep, QuorumStep

(***************************************************************************)
(* Futures come only from futures.                                         *)
(***************************************************************************)
LEMMA NoFutureAgain ==
    ASSUME QuorumAssumption, QuorumInv, [Next]_vars, futures = 0
    PROVE  futures' = 0 /\ heard' = heard
  <1>1. handles = {} /\ ~waiting
    BY Phases DEF QuorumInv
  <1>2. CASE \E x \in Results, r \in {"value", "error"} : Complete(x, r)
    BY <1>2 DEF Complete
  <1>3. CASE \/ \E h \in Handles : Drop(h) \/ Wait(h) \/ \E g \in Handles : Copy(g, h)
             \/ Unwait
    BY <1>1, <1>3 DEF Drop, Wait, Copy, Unwait
  <1>4. CASE QuorumStep
    BY <1>1, <1>4 DEF QuorumStep, Build, Return, FireWaiter, Finish, CancelNext, CancelEnd
  <1>5. CASE UNCHANGED vars
    BY <1>5 DEF vars
  <1> QED
    BY <1>2, <1>3, <1>4, <1>5 DEF Next, UserStep

(***************************************************************************)
(* A send tells the outcome, and cancel() finds nobody to tell.            *)
(***************************************************************************)
LEMMA NextHeardOK ==
    ASSUME QuorumAssumption, QuorumInv, HeardOK, [Next]_vars
    PROVE  HeardOK'
  <1>1. PICK f \in {0, 1}, c \in {0, 1}, i \in 1..(Count + 1), n \in Nat : Stacked(f, c, i, n)
    BY DEF QuorumInv
  <1>2. outcome' = "actor_cancelled" => futures' = 0
    <2>1. CASE outcome = "actor_cancelled"
      BY <2>1, NoFutureAgain DEF HeardOK
    <2>2. CASE CancelEnd
      <3>1. c = 1
        BY <1>1, <2>2, TopFrame DEF CancelEnd, InCancel, Stacked
      <3> QED
        BY <1>1, <3>1, NoFutureAgain DEF Stacked, StackOK
    <2> QED
      BY <2>1, <2>2, OutcomeOnce
  <1>3. heard' \subseteq {outcome'} \intersect {"set", "error"}
    <2>1. CASE FireWaiter
      <3>1. waiting /\ heard' = heard \union {outcome} /\ outcome' = outcome
        BY <2>1 DEF FireWaiter
      <3>2. futures # 0
        BY <3>1, Phases DEF QuorumInv
      <3>3. outcome \in {"set", "error"}
        <4>1. f = 1
          BY <1>1, <2>1, TopFrame DEF FireWaiter, InFinish, Stacked
        <4>2. outcome \in Outcomes
          BY <1>1, <4>1 DEF Stacked, StackOK, QuorumInv, Plain, TypeOK
        <4> QED
          BY <3>2, <4>2 DEF HeardOK, Outcomes
      <3> QED
        BY <3>1, <3>3 DEF HeardOK, ToldTheOutcome
    <2>2. CASE ~FireWaiter
      <3>1. heard' = heard
        BY <2>2 DEF Next, UserStep, QuorumStep, Complete, Drop, Wait, Copy, Unwait, Build, Return,
                    Finish, CancelNext, CancelEnd, vars
      <3>2. outcome = Unset => heard = {}
        BY DEF HeardOK, ToldTheOutcome, Unset
      <3> QED
        BY <3>1, <3>2, OutcomeOnce DEF HeardOK, ToldTheOutcome
    <2> QED
      BY <2>1, <2>2
  <1> QED
    BY <1>2, <1>3 DEF HeardOK, ToldTheOutcome

(***************************************************************************)
(* For any number of results and whatever the waiter and the removed       *)
(* callbacks do in between, the outcome of a quorum is the right one, its  *)
(* promise count is the number of reports to come, it is freed when        *)
(* nothing refers to it, nobody waits for it in vain and whoever waited    *)
(* was told the outcome (genericactors.actor.h, Quorum).                   *)
(***************************************************************************)
THEOREM QuorumIsSafe ==
    ASSUME QuorumAssumption
    PROVE  Spec => []QuorumSafe
  <1>1. Init => QuorumInv /\ HeardOK
    BY InitQuorumInv DEF Init, HeardOK, ToldTheOutcome, Unset
  <1>2. QuorumInv /\ HeardOK /\ [Next]_vars => (QuorumInv /\ HeardOK)'
    BY NextQuorumInv, NextHeardOK
  <1>3. QuorumInv /\ HeardOK => QuorumSafe
    BY QuorumInvSafe DEF QuorumSafe, HeardOK
  <1> QED
    BY <1>1, <1>2, <1>3, PTL DEF Spec
=============================================================================
