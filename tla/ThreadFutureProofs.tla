------------------------- MODULE ThreadFutureProofs -------------------------
(***************************************************************************)
(* Proofs about module ThreadFuture, for any number of client threads.     *)
(***************************************************************************)
EXTENDS ThreadFuture, SequenceLemmas, TLAPS

\* Where a client can be, and what can have become of its callback.
Places == {"none", "has", "calling", "setting", "blocked", "posting", "dropping", "gone"}
Registrations == {"no", "set", "cleared", "told"}

(***************************************************************************)
(* The types, those that TypeOK leaves open too.                           *)
(***************************************************************************)
Types ==
    /\ status \in Outcomes /\ first \in Outcomes /\ refs \in Nat /\ values \in Nat
    /\ cbs \in Seq(Clients) /\ multi \in BOOLEAN /\ func \in Seq(Clients)
    /\ actor \in {"signal", "working", "firing", "returning", "done"}
    /\ tasks \in Seq(Clients \cup {Main}) /\ cancelling \in Clients \cup {Main}
    /\ pc \in [Clients -> Places] /\ reg \in [Clients -> Registrations]
    /\ told \in [Clients -> Outcomes \cup {"twice"}] /\ got \in [Clients -> BOOLEAN]
    /\ destroyer \in Clients \cup {Main, "nobody"}

(***************************************************************************)
(* Who has a reference: the client threads that hold a ThreadFuture, those *)
(* whose cancel has been posted or runs, and the actor, here called Main.  *)
(***************************************************************************)
Users == {c \in Clients : pc[c] \notin {"none", "gone"}}
Posted == (ToSet(tasks) \cup {cancelling}) \ {Main}
Running == {m \in {Main} : actor # "done"}
Holding == Users \cup Posted \cup Running

(***************************************************************************)
(* The count is their number, and the variable lives as long as there is   *)
(* one of them.                                                            *)
(***************************************************************************)
Counted ==
    /\ refs = Cardinality(Holding)
    /\ destroyer = "nobody" <=> Holding # {}

(***************************************************************************)
(* A cancel is posted once, with a reference its client no longer has.     *)
(***************************************************************************)
PostedOnce ==
    /\ Distinct(tasks)
    /\ cancelling # Main => cancelling \notin ToSet(tasks)
    /\ \A c \in Posted : pc[c] = "gone"

(***************************************************************************)
(* The variable is ready when the actor has sent, which empties the        *)
(* callback, or copies it for the loop that tells it.                      *)
(***************************************************************************)
ListsMatchActor ==
    /\ Ready(status) <=> actor \notin {"signal", "working"}
    /\ actor \in {"signal", "working"} => func = <<>>
    /\ (func = <<>> \/ cbs = <<>>)
    /\ actor \in {"returning", "done"} => func = <<>> /\ cbs = <<>>

(***************************************************************************)
(* A callback waits in one place, and has then been neither told nor       *)
(* cleared.                                                                *)
(***************************************************************************)
Registered ==
    /\ Distinct(func) /\ Distinct(cbs)
    /\ \A c \in ToSet(func) \cup ToSet(cbs) : reg[c] = "set"
    /\ \A c \in Clients : /\ told[c] # "unset" => reg[c] = "told"
                          /\ told[c] # "twice"
                          /\ pc[c] \in {"calling", "setting"} => reg[c] = "no"

(***************************************************************************)
(* A value reference for each client that got the value.                   *)
(***************************************************************************)
ValuesCounted == values = Cardinality({c \in Clients : got[c]})

(***************************************************************************)
(* The inductive invariant.                                                *)
(***************************************************************************)
FutureInv == Types /\ Counted /\ PostedOnce /\ ListsMatchActor /\ Registered /\ ValuesCounted

-----------------------------------------------------------------------------
\* What the invariant promises.

(***************************************************************************)
(* The holders of references are finitely many.                            *)
(***************************************************************************)
LEMMA HoldingFinite ==
    ASSUME ThreadFutureAssumption, Types
    PROVE  /\ Holding \subseteq Clients \cup {Main} /\ IsFiniteSet(Holding)
           /\ IsFiniteSet(Clients) /\ Cardinality(Clients) \in Nat
           /\ Cardinality(Holding) \in 0..(1 + Cardinality(Clients))
           /\ Main \notin Clients /\ "nobody" \notin Clients
  <1>1. IsFiniteSet(Clients) /\ Main \notin Clients /\ "nobody" \notin Clients
    BY DEF ThreadFutureAssumption
  <1>2. Cardinality(Clients) \in Nat
    BY <1>1, FS_CardinalityType
  <1>3. /\ IsFiniteSet(Clients \cup {Main})
        /\ Cardinality(Clients \cup {Main}) = Cardinality(Clients) + 1
    BY <1>1, FS_AddElement
  <1>4. ToSet(tasks) \subseteq Clients \cup {Main}
    BY ToSetMember DEF Types
  <1>5. Holding \subseteq Clients \cup {Main}
    BY <1>4 DEF Holding, Users, Posted, Running, Types
  <1>6. IsFiniteSet(Holding) /\ Cardinality(Holding) <= Cardinality(Clients) + 1
    BY <1>3, <1>5, FS_Subset
  <1>7. Cardinality(Holding) \in Nat
    BY <1>6, FS_CardinalityType
  <1>8. Cardinality(Holding) \in 0..(1 + Cardinality(Clients))
    BY <1>2, <1>6, <1>7
  <1> QED
    BY <1>1, <1>2, <1>5, <1>6, <1>8

(***************************************************************************)
(* Those who will touch the variable are those who hold a reference.       *)
(***************************************************************************)
LEMMA InUseHolding ==
    ASSUME ThreadFutureAssumption, Types
    PROVE  InUse <=> Holding # {}
  <1>1. DOMAIN tasks = 1..Len(tasks)
    BY LenProperties DEF Types
  <1>2. \A x : x \in ToSet(tasks) <=> \E i \in 1..Len(tasks) : tasks[i] = x
    BY ToSetMember DEF Types
  <1>3. (\E n \in DOMAIN tasks : tasks[n] # Main) <=> ToSet(tasks) \ {Main} # {}
    BY <1>1, <1>2
  <1>4. (\E c \in Clients : pc[c] \notin {"none", "gone"}) <=> Users # {}
    BY DEF Users
  <1>5. actor # "done" <=> Running # {}
    BY DEF Running
  <1>6. Holding # {} <=> \/ Users # {} \/ ToSet(tasks) \ {Main} # {}
                         \/ cancelling # Main \/ Running # {}
    BY DEF Holding, Posted
  <1> QED
    BY <1>3, <1>4, <1>5, <1>6 DEF InUse

(***************************************************************************)
(* The invariant implies what is said of references and callbacks.         *)
(***************************************************************************)
LEMMA InvSafe ==
    ASSUME ThreadFutureAssumption, FutureInv
    PROVE  TypeOK /\ Lifetime /\ NoForeignCancel /\ ToldOnce
  <1>1. Types /\ Counted /\ ListsMatchActor /\ Registered /\ ValuesCounted
    BY DEF FutureInv
  <1>2. TypeOK
    <2>1. refs \in 0..(2 + Cardinality(Clients))
      BY <1>1, HoldingFinite DEF Counted
    <2>2. values \in 0..Cardinality(Clients)
      <3>1. IsFiniteSet(Clients) /\ Cardinality(Clients) \in Nat
        BY <1>1, HoldingFinite
      <3>2. {c \in Clients : got[c]} \subseteq Clients
        OBVIOUS
      <3>3. Cardinality({c \in Clients : got[c]}) <= Cardinality(Clients)
        BY <3>1, <3>2, FS_Subset
      <3> QED
        BY <1>1, <3>1, <3>3 DEF ValuesCounted, Types
    <2>3. ToSet(cbs) \subseteq Clients /\ ToSet(func) \subseteq Clients
      BY <1>1, ToSetMember DEF Types
    <2> QED
      BY <1>1, <2>1, <2>2, <2>3 DEF TypeOK, Types
  <1>3. destroyer # "nobody" => actor = "done"
    BY <1>1 DEF Counted, Holding, Running
  <1>4. Lifetime
    <2>1. destroyer = "nobody" <=> InUse
      BY <1>1, InUseHolding DEF Counted
    <2>2. InUse \in BOOLEAN
      BY DEF InUse
    <2>3. destroyer # "nobody" => cbs = <<>>
      BY <1>1, <1>3 DEF ListsMatchActor
    <2>4. (destroyer = "nobody") = InUse
      BY ONLY <2>1, <2>2
    <2> QED
      BY <2>3, <2>4 DEF Lifetime
  <1>5. NoForeignCancel
    BY <1>1, <1>3, HoldingFinite DEF NoForeignCancel
  <1>6. ToldOnce
    BY <1>1 DEF ToldOnce, Registered
  <1> QED
    BY <1>2, <1>4, <1>5, <1>6

(***************************************************************************)
(* A new variable satisfies the invariant.                                 *)
(***************************************************************************)
LEMMA InitInv ==
    ASSUME ThreadFutureAssumption, Init
    PROVE  FutureInv
  <1>1. /\ IsFiniteSet(Clients) /\ Main \notin Clients /\ "nobody" \notin Clients
        /\ Owner \in Clients
    BY DEF ThreadFutureAssumption
  <1>2. cbs = <<>> /\ func = <<>> /\ tasks = <<Main>>
    BY DEF Init
  <1>3. /\ cbs \in Seq(Clients) /\ func \in Seq(Clients) /\ ToSet(cbs) = {} /\ ToSet(func) = {}
        /\ Distinct(cbs) /\ Distinct(func)
    BY <1>2, EmptySeq DEF ToSet, Distinct
  <1>4. tasks \in Seq(Clients \cup {Main}) /\ ToSet(tasks) = {Main} /\ Distinct(tasks)
    BY <1>2 DEF ToSet, Distinct
  <1>5. /\ pc = [c \in Clients |-> IF c = Owner THEN "has" ELSE "none"]
        /\ reg = [c \in Clients |-> "no"] /\ told = [c \in Clients |-> "unset"]
        /\ got = [c \in Clients |-> FALSE]
        /\ status = "unset" /\ first = "unset" /\ refs = 2 /\ values = 0 /\ multi = FALSE
        /\ actor = "signal" /\ cancelling = Main /\ destroyer = "nobody"
    BY DEF Init, InitialRefs
  <1>6. Types
    BY <1>3, <1>4, <1>5 DEF Types, Outcomes, Places, Registrations
  <1>7. Counted
    <2>1. Users = {Owner}
      BY <1>1, <1>5 DEF Users
    <2>2. Posted = {} /\ Running = {Main}
      BY <1>4, <1>5 DEF Posted, Running
    <2>3. Holding = {Owner} \cup {Main}
      BY <2>1, <2>2 DEF Holding
    <2>4. IsFiniteSet({Owner}) /\ Cardinality({Owner}) = 1
      BY FS_Singleton
    <2>5. Cardinality({Owner} \cup {Main}) = Cardinality({Owner}) + 1
      BY <1>1, <2>4, FS_AddElement
    <2> QED
      BY <1>5, <2>3, <2>4, <2>5 DEF Counted
  <1>8. PostedOnce
    BY <1>4, <1>5 DEF PostedOnce, Posted
  <1>9. ListsMatchActor
    BY <1>2, <1>5 DEF ListsMatchActor, Ready
  <1>10. Registered
    BY <1>3, <1>5 DEF Registered
  <1>11. ValuesCounted
    <2>1. {c \in Clients : got[c]} = {}
      BY <1>5
    <2> QED
      BY <1>5, <2>1, FS_EmptySet DEF ValuesCounted
  <1> QED
    BY <1>6, <1>7, <1>8, <1>9, <1>10, <1>11 DEF FutureInv
-----------------------------------------------------------------------------
\* The kinds of step.

(***************************************************************************)
(* A step that moves no reference leaves the count right.                  *)
(***************************************************************************)
LEMMA SameHolders ==
    ASSUME Counted, Holding' = Holding, refs' = refs, destroyer' = destroyer
    PROVE  Counted'
  BY DEF Counted

(***************************************************************************)
(* delref: one holder less, and the last of them destroys the variable.    *)
(***************************************************************************)
LEMMA HolderLeaves ==
    ASSUME ThreadFutureAssumption, Types, Counted, NEW x \in Holding, Holding' = Holding \ {x},
           NEW who \in Clients \cup {Main}, Delref(who)
    PROVE  /\ Counted' /\ refs' \in Nat /\ destroyer' \in Clients \cup {Main, "nobody"}
  <1>1. IsFiniteSet(Holding) /\ Cardinality(Holding) \in Nat /\ "nobody" \notin Clients
    BY HoldingFinite
  <1>2. Cardinality(Holding \ {x}) = Cardinality(Holding) - 1 /\ IsFiniteSet(Holding \ {x})
    BY <1>1, FS_RemoveElement
  <1>3. Cardinality(Holding \ {x}) \in Nat /\ (Cardinality(Holding \ {x}) = 0 <=> Holding \ {x} = {})
    BY <1>2, FS_CardinalityType, FS_EmptySet
  <1>4. refs = Cardinality(Holding) /\ destroyer = "nobody"
    BY DEF Counted
  <1>5. refs' = refs - 1 /\ destroyer' = IF refs = 1 THEN who ELSE destroyer
    BY DEF Delref
  <1>6. refs' = Cardinality(Holding') /\ refs' \in Nat
    BY <1>2, <1>3, <1>4, <1>5
  <1>7. refs = 1 <=> Holding \ {x} = {}
    BY <1>1, <1>2, <1>3, <1>4
  <1>8. who # "nobody"
    BY <1>1 DEF Main
  <1>9. destroyer' = "nobody" <=> Holding' # {}
    BY <1>4, <1>5, <1>7, <1>8
  <1>10. destroyer' \in Clients \cup {Main, "nobody"}
    BY <1>4, <1>5
  <1> QED
    BY <1>6, <1>9, <1>10 DEF Counted

(***************************************************************************)
(* A client that goes on with a call keeps its reference.                  *)
(***************************************************************************)
LEMMA ClientMoves ==
    ASSUME Types, Counted, PostedOnce, NEW c \in Clients, NEW l \in Places \ {"none", "gone"},
           pc[c] \notin {"none", "gone"}, pc' = [pc EXCEPT ![c] = l],
           refs' = refs, destroyer' = destroyer, tasks' = tasks, cancelling' = cancelling,
           actor' = actor
    PROVE  Counted' /\ PostedOnce' /\ pc' \in [Clients -> Places]
  <1>1. pc' \in [Clients -> Places]
    BY DEF Types
  <1>2. Users' = Users
    BY DEF Users, Types
  <1>3. Posted' = Posted /\ Running' = Running
    BY DEF Posted, Running
  <1>4. c \notin Posted
    BY DEF PostedOnce
  <1>5. PostedOnce'
    BY <1>3, <1>4 DEF PostedOnce, Types
  <1>6. Holding' = Holding
    BY <1>2, <1>3 DEF Holding
  <1> QED
    BY <1>1, <1>5, <1>6, SameHolders

(***************************************************************************)
(* send and sendError: the callbacks stay the same, in one place.          *)
(***************************************************************************)
LEMMA SendKeeps ==
    ASSUME Types, ListsMatchActor, Registered, actor \in {"signal", "working"},
           NEW o \in {"value", "error", "cancelled"}, Send(o),
           reg' = reg, told' = told, pc' = pc
    PROVE  /\ ListsMatchActor' /\ Registered' /\ Running' = Running
           /\ status' \in Outcomes /\ first' \in Outcomes
           /\ cbs' \in Seq(Clients) /\ func' \in Seq(Clients)
           /\ actor' \in {"signal", "working", "firing", "returning", "done"}
  <1>1. func = <<>>
    BY DEF ListsMatchActor
  <1>2. /\ status' = o /\ first' = o /\ actor' = "firing"
        /\ func' = (IF multi THEN <<>> ELSE cbs) /\ cbs' = (IF multi THEN cbs ELSE <<>>)
    BY DEF Send
  <1>3. (func' = <<>> /\ cbs' = cbs) \/ (func' = cbs /\ cbs' = <<>>)
    BY <1>2
  <1>4. ToSet(<<>>) = {} /\ Distinct(<<>>) /\ <<>> \in Seq(Clients)
    BY EmptySeq DEF ToSet, Distinct
  <1>5. /\ Distinct(func') /\ Distinct(cbs')
        /\ ToSet(func') \cup ToSet(cbs') = ToSet(func) \cup ToSet(cbs)
    BY <1>1, <1>3, <1>4 DEF Registered
  <1>6. Registered'
    <2>1. \A c \in Clients : /\ told[c] # "unset" => reg[c] = "told"
                             /\ told[c] # "twice"
                             /\ pc[c] \in {"calling", "setting"} => reg[c] = "no"
      BY DEF Registered
    <2>2. \A c \in ToSet(func) \cup ToSet(cbs) : reg[c] = "set"
      BY DEF Registered
    <2>3. \A c \in ToSet(func') \cup ToSet(cbs') : reg'[c] = "set"
      BY <1>5, <2>2
    <2> QED
      BY <1>5, <2>1, <2>3 DEF Registered
  <1>7. ListsMatchActor'
    BY <1>2, <1>3 DEF ListsMatchActor, Ready
  <1>8. Running' = Running
    BY <1>2 DEF Running
  <1> QED
    BY <1>2, <1>3, <1>4, <1>6, <1>7, <1>8 DEF Types, Outcomes

-----------------------------------------------------------------------------
\* The invariant, action by action: the network thread.

(***************************************************************************)
(* The signal that starts the actor.                                       *)
(***************************************************************************)
LEMMA RunSignalInv ==
    ASSUME ThreadFutureAssumption, FutureInv, RunSignal
    PROVE  FutureInv'
  <1>1. Types /\ Counted /\ PostedOnce /\ ListsMatchActor /\ Registered /\ ValuesCounted
    BY DEF FutureInv
  <1>2. /\ tasks # <<>> /\ Head(tasks) = Main /\ tasks' = Tail(tasks)
        /\ actor' = (IF actor = "signal" THEN "working" ELSE actor)
    BY DEF RunSignal
  <1>3. /\ status' = status /\ first' = first /\ refs' = refs /\ values' = values /\ cbs' = cbs
        /\ multi' = multi /\ func' = func /\ cancelling' = cancelling /\ pc' = pc /\ reg' = reg
        /\ told' = told /\ got' = got /\ destroyer' = destroyer
    BY DEF RunSignal
  <1>4. /\ tasks' \in Seq(Clients \cup {Main}) /\ Distinct(tasks')
        /\ ToSet(tasks) = ToSet(tasks') \cup {Main}
    BY <1>1, <1>2, TailDistinct DEF Types, PostedOnce
  <1>5. Posted' = Posted /\ Running' = Running /\ Users' = Users
    BY <1>2, <1>3, <1>4 DEF Posted, Running, Users
  <1>6. Counted'
    BY <1>1, <1>3, <1>5, SameHolders DEF Holding
  <1>7. PostedOnce'
    BY <1>1, <1>3, <1>4, <1>5 DEF PostedOnce
  <1>8. ListsMatchActor'
    BY <1>1, <1>2, <1>3 DEF ListsMatchActor, Ready
  <1>9. Registered'
    BY <1>1, <1>3 DEF Registered
  <1>10. Types'
    BY <1>1, <1>2, <1>3, <1>4 DEF Types
  <1> QED
    BY <1>1, <1>3, <1>6, <1>7, <1>8, <1>9, <1>10 DEF FutureInv, ValuesCounted

(***************************************************************************)
(* What the called function returned is sent.                              *)
(***************************************************************************)
LEMMA FunctionEndsInv ==
    ASSUME ThreadFutureAssumption, FutureInv, FunctionEnds
    PROVE  FutureInv'
  <1>1. Types /\ Counted /\ PostedOnce /\ ListsMatchActor /\ Registered /\ ValuesCounted
    BY DEF FutureInv
  <1>2. /\ refs' = refs /\ values' = values /\ multi' = multi /\ tasks' = tasks
        /\ cancelling' = cancelling /\ pc' = pc /\ reg' = reg /\ told' = told /\ got' = got
        /\ destroyer' = destroyer /\ actor \in {"signal", "working"}
    BY DEF FunctionEnds
  <1>3. PICK o \in {"value", "error", "cancelled"} : Send(o)
    BY DEF FunctionEnds
  <1>4. /\ ListsMatchActor' /\ Registered' /\ Running' = Running
        /\ status' \in Outcomes /\ first' \in Outcomes
        /\ cbs' \in Seq(Clients) /\ func' \in Seq(Clients)
        /\ actor' \in {"signal", "working", "firing", "returning", "done"}
    BY ONLY o \in {"value", "error", "cancelled"}, <1>1, <1>2, <1>3, SendKeeps
  <1>5. Posted' = Posted /\ Users' = Users
    BY <1>2 DEF Posted, Users
  <1>6. Counted'
    BY <1>1, <1>2, <1>4, <1>5, SameHolders DEF Holding
  <1>7. PostedOnce'
    BY <1>1, <1>2, <1>5 DEF PostedOnce
  <1>8. Types'
    BY <1>1, <1>2, <1>4 DEF Types
  <1> QED
    BY <1>1, <1>2, <1>4, <1>6, <1>7, <1>8 DEF FutureInv, ValuesCounted

(***************************************************************************)
(* A posted cancel begins: its reference is still held.                    *)
(***************************************************************************)
LEMMA RunCancelInv ==
    ASSUME ThreadFutureAssumption, FutureInv, RunCancel
    PROVE  FutureInv'
  <1>1. Types /\ Counted /\ PostedOnce /\ ListsMatchActor /\ Registered /\ ValuesCounted
    BY DEF FutureInv
  <1>2. /\ tasks # <<>> /\ Head(tasks) # Main /\ tasks' = Tail(tasks)
        /\ cancelling = Main /\ cancelling' = Head(tasks)
    BY DEF RunCancel, MainIdle
  <1>3. /\ refs' = refs /\ values' = values /\ multi' = multi /\ pc' = pc /\ reg' = reg
        /\ told' = told /\ got' = got /\ destroyer' = destroyer
    BY DEF RunCancel
  <1>4. /\ tasks' \in Seq(Clients \cup {Main}) /\ Distinct(tasks')
        /\ ToSet(tasks) = ToSet(tasks') \cup {Head(tasks)} /\ Head(tasks) \notin ToSet(tasks')
        /\ cancelling' \in Clients \cup {Main}
    BY <1>1, <1>2, TailDistinct DEF Types, PostedOnce
  <1>5. Posted' = Posted /\ Users' = Users
    BY <1>2, <1>3, <1>4 DEF Posted, Users
  <1>6. /\ ListsMatchActor' /\ Registered' /\ Running' = Running
        /\ status' \in Outcomes /\ first' \in Outcomes
        /\ cbs' \in Seq(Clients) /\ func' \in Seq(Clients)
        /\ actor' \in {"signal", "working", "firing", "returning", "done"}
    <2>1. CASE actor \in {"signal", "working"}
      <3>1. Send("cancelled")
        BY <2>1 DEF RunCancel, CancelActor
      <3>2. "cancelled" \in {"value", "error", "cancelled"}
        OBVIOUS
      <3> QED
        BY ONLY <1>1, <1>3, <2>1, <3>1, <3>2, SendKeeps
    <2>2. CASE actor \notin {"signal", "working"}
      <3>1. status' = status /\ first' = first /\ cbs' = cbs /\ func' = func /\ actor' = actor
        BY <2>2 DEF RunCancel, CancelActor
      <3>2. ListsMatchActor' /\ Running' = Running
        BY <1>1, <3>1 DEF ListsMatchActor, Ready, Running
      <3>3. Registered'
        BY <1>1, <1>3, <3>1 DEF Registered
      <3> QED
        BY <1>1, <3>1, <3>2, <3>3 DEF Types
    <2> QED
      BY <2>1, <2>2
  <1>7. Counted'
    BY <1>1, <1>3, <1>5, <1>6, SameHolders DEF Holding
  <1>8. PostedOnce'
    BY <1>1, <1>2, <1>3, <1>4, <1>5 DEF PostedOnce
  <1>9. Types'
    BY <1>1, <1>3, <1>4, <1>6 DEF Types
  <1> QED
    BY <1>1, <1>3, <1>6, <1>7, <1>8, <1>9 DEF FutureInv, ValuesCounted
(***************************************************************************)
(* A cancel ends and drops the reference it was called with.               *)
(***************************************************************************)
LEMMA CancelDelrefInv ==
    ASSUME ThreadFutureAssumption, FutureInv, CancelDelref
    PROVE  FutureInv'
  <1>1. Types /\ Counted /\ PostedOnce /\ ListsMatchActor /\ Registered /\ ValuesCounted
    BY DEF FutureInv
  <1>2. cancelling # Main /\ cancelling' = Main /\ Delref(Main) /\ Main \in Clients \cup {Main}
    BY DEF CancelDelref
  <1>3. /\ status' = status /\ first' = first /\ values' = values /\ cbs' = cbs /\ multi' = multi
        /\ func' = func /\ actor' = actor /\ tasks' = tasks /\ pc' = pc /\ reg' = reg
        /\ told' = told /\ got' = got
    BY DEF CancelDelref
  <1>4. /\ Posted' = Posted \ {cancelling} /\ Users' = Users /\ Running' = Running
        /\ cancelling \in Posted /\ cancelling \notin Users /\ cancelling \notin Running
    BY <1>1, <1>2, <1>3 DEF Posted, Users, Running, PostedOnce
  <1>5. cancelling \in Holding /\ Holding' = Holding \ {cancelling}
    BY <1>4 DEF Holding
  <1>6. Counted' /\ refs' \in Nat /\ destroyer' \in Clients \cup {Main, "nobody"}
    BY <1>1, <1>2, <1>5, HolderLeaves
  <1>7. PostedOnce'
    BY <1>1, <1>2, <1>3, <1>4 DEF PostedOnce
  <1>8. ListsMatchActor'
    BY <1>1, <1>3 DEF ListsMatchActor, Ready
  <1>9. Registered'
    BY <1>1, <1>3 DEF Registered
  <1>10. Types'
    BY <1>1, <1>2, <1>3, <1>6 DEF Types
  <1> QED
    BY <1>1, <1>3, <1>6, <1>7, <1>8, <1>9, <1>10 DEF FutureInv, ValuesCounted

(***************************************************************************)
(* The last callback is told: it was waiting, and now it is nowhere.       *)
(***************************************************************************)
LEMMA FireCallbackInv ==
    ASSUME ThreadFutureAssumption, FutureInv, FireCallback
    PROVE  FutureInv'
  <1>1. Types /\ Counted /\ PostedOnce /\ ListsMatchActor /\ Registered /\ ValuesCounted
    BY DEF FutureInv
  <1>2. /\ status' = status /\ first' = first /\ refs' = refs /\ values' = values
        /\ multi' = multi /\ actor' = actor /\ tasks' = tasks /\ cancelling' = cancelling
        /\ got' = got /\ destroyer' = destroyer /\ actor = "firing"
    BY DEF FireCallback
  <1>3. PICK c : c = Last(func \o cbs) /\ Tell(c, first) /\ Wake(c)
    BY DEF FireCallback
  <1>4. /\ cbs' \in Seq(Clients) /\ func' \in Seq(Clients) /\ Distinct(cbs') /\ Distinct(func')
        /\ c \in ToSet(func) \cup ToSet(cbs)
        /\ ToSet(func') \cup ToSet(cbs') = (ToSet(func) \cup ToSet(cbs)) \ {c}
        /\ (func' = <<>> \/ cbs' = <<>>)
    <2>1. /\ func \in Seq(Clients) /\ cbs \in Seq(Clients) /\ Distinct(func) /\ Distinct(cbs)
          /\ (func = <<>> \/ cbs = <<>>)
      BY <1>1 DEF Types, Registered, ListsMatchActor
    <2>2. ToSet(<<>>) = {} /\ Distinct(<<>>) /\ <<>> \in Seq(Clients)
      BY EmptySeq DEF ToSet, Distinct
    <2>3. CASE func # <<>>
      <3>1. cbs = <<>> /\ func' = Front(func) /\ cbs' = cbs
        BY <2>1, <2>3 DEF FireCallback
      <3>2. func \o cbs = func
        BY <2>1, <3>1
      <3>3. /\ Front(func) \in Seq(Clients) /\ Distinct(Front(func))
            /\ ToSet(func) = ToSet(Front(func)) \cup {Last(func)}
            /\ Last(func) \notin ToSet(Front(func))
        BY ONLY <2>1, <2>3, FrontDistinct
      <3> QED
        BY <1>3, <2>2, <3>1, <3>2, <3>3
    <2>4. CASE func = <<>>
      <3>1. func \o cbs = cbs
        BY <2>1, <2>4
      <3>2. cbs # <<>> /\ cbs' = Front(cbs) /\ func' = func
        BY <2>4, <3>1 DEF FireCallback
      <3>3. /\ Front(cbs) \in Seq(Clients) /\ Distinct(Front(cbs))
            /\ ToSet(cbs) = ToSet(Front(cbs)) \cup {Last(cbs)}
            /\ Last(cbs) \notin ToSet(Front(cbs))
        BY ONLY <2>1, <3>2, FrontDistinct
      <3> QED
        BY <1>3, <2>1, <2>2, <2>4, <3>1, <3>2, <3>3
    <2> QED
      BY <2>3, <2>4
  <1>5. c \in Clients
    <2>1. ToSet(func) \subseteq Clients /\ ToSet(cbs) \subseteq Clients
      BY <1>1, ToSetMember DEF Types
    <2> QED
      BY <1>4, <2>1
  <1>6. reg[c] = "set" /\ told[c] = "unset"
    BY <1>1, <1>4, <1>5 DEF Registered
  <1>7. reg' = [reg EXCEPT ![c] = "told"] /\ told' = [told EXCEPT ![c] = first]
    BY <1>1, <1>3, <1>5, <1>6 DEF Tell, Types
  <1>8. /\ pc' = [pc EXCEPT ![c] = IF pc[c] = "blocked" THEN "has" ELSE pc[c]]
        /\ pc' \in [Clients -> Places]
    BY <1>1, <1>3, <1>5 DEF Wake, Types, Places
  <1>9. pc' \in [Clients -> Places] /\ \A d \in Clients : pc'[d] = pc[d] \/ (pc[d] = "blocked" /\ pc'[d] = "has")
    BY <1>1, <1>5, <1>8 DEF Types
  <1>10. Users' = Users /\ Posted' = Posted /\ Running' = Running
    BY <1>2, <1>9 DEF Users, Posted, Running
  <1>11. Counted'
    BY <1>1, <1>2, <1>10, SameHolders DEF Holding
  <1>12. PostedOnce'
    <2>1. Posted \subseteq Clients
      BY <1>1, ToSetMember DEF Posted, Types
    <2> QED
      BY <1>1, <1>2, <1>9, <1>10, <2>1 DEF PostedOnce
  <1>13. ListsMatchActor'
    BY <1>1, <1>2, <1>4 DEF ListsMatchActor, Ready
  <1>14. Registered'
    <2>1. \A d \in ToSet(func') \cup ToSet(cbs') : d # c /\ reg[d] = "set" /\ d \in Clients
      <3>1. ToSet(func) \subseteq Clients /\ ToSet(cbs) \subseteq Clients
        BY <1>1, ToSetMember DEF Types
      <3> QED
        BY <1>1, <1>4, <3>1 DEF Registered
    <2>2. \A d \in ToSet(func') \cup ToSet(cbs') : reg'[d] = "set"
      BY <1>1, <1>5, <1>7, <2>1 DEF Types
    <2>3. ASSUME NEW d \in Clients
          PROVE  /\ told'[d] # "unset" => reg'[d] = "told"
                 /\ told'[d] # "twice"
                 /\ pc'[d] \in {"calling", "setting"} => reg'[d] = "no"
      <3>1. CASE d = c
        <4>1. told'[d] = first /\ reg'[d] = "told" /\ first # "twice"
          BY <1>1, <1>5, <1>7, <3>1 DEF Types, Outcomes
        <4>2. pc'[d] \notin {"calling", "setting"}
          BY <1>1, <1>6, <1>9, <3>1 DEF Registered
        <4> QED
          BY <4>1, <4>2
      <3>2. CASE d # c
        <4>1. told'[d] = told[d] /\ reg'[d] = reg[d]
          BY <1>1, <1>5, <1>7, <3>2 DEF Types
        <4> QED
          BY <1>1, <1>9, <4>1 DEF Registered
      <3> QED
        BY <3>1, <3>2
    <2> QED
      BY <1>4, <2>2, <2>3 DEF Registered
  <1>15. Types'
    <2>1. reg' \in [Clients -> Registrations] /\ told' \in [Clients -> Outcomes \cup {"twice"}]
      BY <1>1, <1>7 DEF Types, Registrations
    <2> QED
      BY <1>1, <1>2, <1>4, <1>8, <2>1 DEF Types
  <1> QED
    BY <1>1, <1>2, <1>11, <1>12, <1>13, <1>14, <1>15 DEF FutureInv, ValuesCounted

(***************************************************************************)
(* All callbacks have been told and the actor returns.                     *)
(***************************************************************************)
LEMMA ActorReturnsInv ==
    ASSUME ThreadFutureAssumption, FutureInv, ActorReturns
    PROVE  FutureInv'
  <1>1. Types /\ Counted /\ PostedOnce /\ ListsMatchActor /\ Registered /\ ValuesCounted
    BY DEF FutureInv
  <1>2. /\ status' = status /\ first' = first /\ refs' = refs /\ values' = values /\ cbs' = cbs
        /\ multi' = multi /\ func' = func /\ tasks' = tasks /\ cancelling' = cancelling
        /\ pc' = pc /\ reg' = reg /\ told' = told /\ got' = got /\ destroyer' = destroyer
        /\ actor = "firing" /\ actor' = "returning" /\ func \o cbs = <<>>
    BY DEF ActorReturns, Returns
  <1>3. func = <<>> /\ cbs = <<>>
    <2>1. func \in Seq(Clients) /\ cbs \in Seq(Clients)
      BY <1>1 DEF Types
    <2>2. Len(func \o cbs) = Len(func) + Len(cbs) /\ Len(func) \in Nat /\ Len(cbs) \in Nat
      BY <2>1, ConcatProperties, LenProperties
    <2>3. Len(func) = 0 /\ Len(cbs) = 0
      BY <1>2, <2>2, EmptySeq
    <2> QED
      BY <2>1, <2>3, EmptySeq
  <1>4. Users' = Users /\ Posted' = Posted /\ Running' = Running
    BY <1>2 DEF Users, Posted, Running
  <1>5. Counted'
    BY <1>1, <1>2, <1>4, SameHolders DEF Holding
  <1>6. PostedOnce'
    BY <1>1, <1>2, <1>4 DEF PostedOnce
  <1>7. ListsMatchActor'
    BY <1>1, <1>2, <1>3 DEF ListsMatchActor, Ready
  <1>8. Registered'
    BY <1>1, <1>2 DEF Registered
  <1>9. Types'
    BY <1>1, <1>2 DEF Types
  <1> QED
    BY <1>1, <1>2, <1>5, <1>6, <1>7, <1>8, <1>9 DEF FutureInv, ValuesCounted

(***************************************************************************)
(* destroyResultAfterReturning: the actor's own reference.                 *)
(***************************************************************************)
LEMMA ActorDelrefInv ==
    ASSUME ThreadFutureAssumption, FutureInv, ActorDelref
    PROVE  FutureInv'
  <1>1. Types /\ Counted /\ PostedOnce /\ ListsMatchActor /\ Registered /\ ValuesCounted
    BY DEF FutureInv
  <1>2. /\ status' = status /\ first' = first /\ values' = values /\ cbs' = cbs
        /\ multi' = multi /\ func' = func /\ tasks' = tasks /\ cancelling' = cancelling
        /\ pc' = pc /\ reg' = reg /\ told' = told /\ got' = got
        /\ actor = "returning" /\ actor' = "done"
    BY DEF ActorDelref
  <1>3. Delref(Main) /\ Main \in Clients \cup {Main} /\ Main \notin Clients
    BY DEF ActorDelref, ThreadFutureAssumption
  <1>4. /\ Users' = Users /\ Posted' = Posted /\ Running' = Running \ {Main}
        /\ Main \in Running /\ Main \notin Users /\ Main \notin Posted
    BY <1>2, <1>3 DEF Users, Posted, Running
  <1>5. Main \in Holding /\ Holding' = Holding \ {Main}
    BY <1>4 DEF Holding
  <1>6. Counted' /\ refs' \in Nat /\ destroyer' \in Clients \cup {Main, "nobody"}
    BY <1>1, <1>3, <1>5, HolderLeaves
  <1>7. PostedOnce'
    BY <1>1, <1>2, <1>4 DEF PostedOnce
  <1>8. ListsMatchActor'
    BY <1>1, <1>2 DEF ListsMatchActor, Ready
  <1>9. Registered'
    BY <1>1, <1>2 DEF Registered
  <1>10. Types'
    BY <1>1, <1>2, <1>6 DEF Types
  <1> QED
    BY <1>1, <1>2, <1>6, <1>7, <1>8, <1>9, <1>10 DEF FutureInv, ValuesCounted
-----------------------------------------------------------------------------
\* The invariant, action by action: the client threads.

(***************************************************************************)
(* A ThreadFuture is copied to another thread.                             *)
(***************************************************************************)
LEMMA CopyInv ==
    ASSUME ThreadFutureAssumption, FutureInv, NEW c \in Clients, NEW d \in Clients, Copy(c, d)
    PROVE  FutureInv'
  <1>1. Types /\ Counted /\ PostedOnce /\ ListsMatchActor /\ Registered /\ ValuesCounted
    BY DEF FutureInv
  <1>2. /\ status' = status /\ first' = first /\ values' = values /\ cbs' = cbs
        /\ multi' = multi /\ func' = func /\ actor' = actor /\ tasks' = tasks
        /\ cancelling' = cancelling /\ reg' = reg /\ told' = told /\ got' = got
        /\ destroyer' = destroyer
        /\ pc[c] = "has" /\ pc[d] = "none" /\ refs' = refs + 1
        /\ pc' = [pc EXCEPT ![d] = "has"]
    BY DEF Copy, Goto
  <1>3. pc' \in [Clients -> Places]
    BY <1>1, <1>2 DEF Types, Places
  <1>4. /\ Users' = Users \cup {d} /\ Posted' = Posted /\ Running' = Running
        /\ d \notin Users /\ d \notin Posted /\ d \notin Running /\ c \in Users
    BY <1>1, <1>2, HoldingFinite DEF Users, Posted, Running, PostedOnce, Types
  <1>5. Holding' = Holding \cup {d} /\ d \notin Holding /\ Holding # {}
    BY <1>4 DEF Holding
  <1>6. IsFiniteSet(Holding) /\ Cardinality(Holding \cup {d}) = Cardinality(Holding) + 1
    BY <1>1, <1>5, HoldingFinite, FS_AddElement
  <1>7. Counted' /\ refs' \in Nat
    <2>1. refs' = Cardinality(Holding') /\ refs' \in Nat
      BY <1>1, <1>2, <1>5, <1>6 DEF Counted, Types
    <2>2. destroyer' = "nobody" <=> Holding' # {}
      BY <1>1, <1>2, <1>5 DEF Counted
    <2> QED
      BY <2>1, <2>2 DEF Counted
  <1>8. PostedOnce'
    BY <1>1, <1>2, <1>4 DEF PostedOnce, Types
  <1>9. ListsMatchActor'
    BY <1>1, <1>2 DEF ListsMatchActor, Ready
  <1>10. Registered'
    <2>1. \A e \in Clients : pc'[e] \in {"calling", "setting"} => pc'[e] = pc[e]
      BY <1>1, <1>2 DEF Types
    <2> QED
      BY <1>1, <1>2, <2>1 DEF Registered
  <1>11. Types'
    BY <1>1, <1>2, <1>3, <1>7 DEF Types
  <1> QED
    BY <1>1, <1>2, <1>7, <1>8, <1>9, <1>10, <1>11 DEF FutureInv, ValuesCounted

(***************************************************************************)
(* A client only goes from one place to another.                           *)
(***************************************************************************)
LEMMA PlainMoveInv ==
    ASSUME ThreadFutureAssumption, FutureInv, NEW c \in Clients,
           BlockUntilReady(c) \/ Cancel(c) \/ Drop(c)
    PROVE  FutureInv'
  <1>1. Types /\ Counted /\ PostedOnce /\ ListsMatchActor /\ Registered /\ ValuesCounted
    BY DEF FutureInv
  <1>2. /\ status' = status /\ first' = first /\ refs' = refs /\ values' = values /\ cbs' = cbs
        /\ multi' = multi /\ func' = func /\ actor' = actor /\ tasks' = tasks
        /\ cancelling' = cancelling /\ reg' = reg /\ told' = told /\ got' = got
        /\ destroyer' = destroyer /\ pc[c] = "has"
    BY DEF BlockUntilReady, Cancel, Drop, Local
  <1>3. PICK l \in Places \ {"none", "gone"} :
          pc' = [pc EXCEPT ![c] = l] /\ l # "calling" /\ (l = "setting" => reg[c] = "no")
    BY DEF BlockUntilReady, Cancel, Drop, Goto, Places
  <1>4. pc[c] \notin {"none", "gone"}
    BY <1>2
  <1>5. Counted' /\ PostedOnce' /\ pc' \in [Clients -> Places]
    BY ONLY c \in Clients, l \in Places \ {"none", "gone"}, <1>1, <1>2, <1>3, <1>4, ClientMoves
  <1>6. ListsMatchActor'
    BY <1>1, <1>2 DEF ListsMatchActor, Ready
  <1>7. Registered'
    <2>1. \A e \in Clients : pc'[e] \in {"calling", "setting"} => reg[e] = "no"
      BY <1>1, <1>3 DEF Types, Registered
    <2> QED
      BY <1>1, <1>2, <2>1 DEF Registered
  <1>8. Types'
    BY <1>1, <1>2, <1>5 DEF Types
  <1> QED
    BY <1>1, <1>2, <1>5, <1>6, <1>7, <1>8 DEF FutureInv, ValuesCounted

(***************************************************************************)
(* Under the lock a callback is set while there is no outcome, and is to   *)
(* be called when there is one.                                            *)
(***************************************************************************)
LEMMA CallOrSetInv ==
    ASSUME ThreadFutureAssumption, FutureInv, NEW c \in Clients, NEW l \in {"has", "blocked"},
           CallOrSet(c, l), pc[c] \in {"has", "setting"}, reg[c] = "no",
           UNCHANGED <<status, values, got>>, Local
    PROVE  FutureInv'
  <1>1. Types /\ Counted /\ PostedOnce /\ ListsMatchActor /\ Registered /\ ValuesCounted
    BY DEF FutureInv
  <1>2. /\ status' = status /\ values' = values /\ got' = got /\ first' = first /\ refs' = refs
        /\ func' = func /\ actor' = actor /\ tasks' = tasks /\ cancelling' = cancelling
        /\ destroyer' = destroyer
    BY DEF Local
  <1>3. pc[c] \notin {"none", "gone"}
    OBVIOUS
  <1>4. CASE ~Ready(status)
    <2>1. /\ cbs' = Append(cbs, c) /\ multi' = (multi \/ cbs # <<>>) /\ told' = told
          /\ reg' = [reg EXCEPT ![c] = "set"] /\ pc' = [pc EXCEPT ![c] = l]
      BY <1>4 DEF CallOrSet, SetsCallback, Goto
    <2>2. l \in Places \ {"none", "gone"}
      BY DEF Places
    <2>3. Counted' /\ PostedOnce' /\ pc' \in [Clients -> Places]
      BY ONLY c \in Clients, <1>1, <1>2, <1>3, <2>1, <2>2, ClientMoves
    <2>4. actor \in {"signal", "working"} /\ func = <<>>
      BY <1>1, <1>4 DEF ListsMatchActor, Types
    <2>5. ListsMatchActor'
      BY <1>1, <1>2, <2>4 DEF ListsMatchActor, Ready
    <2>6. c \notin ToSet(cbs) /\ cbs \in Seq(Clients) /\ Distinct(cbs)
      BY <1>1 DEF Registered, Types
    <2>7. /\ Append(cbs, c) \in Seq(Clients) /\ Distinct(Append(cbs, c))
          /\ ToSet(Append(cbs, c)) = ToSet(cbs) \cup {c}
      BY ONLY c \in Clients, <2>6, AppendDistinct
    <2>8. ToSet(func) \subseteq Clients /\ ToSet(cbs) \subseteq Clients
      BY <1>1, ToSetMember DEF Types
    <2>9. Registered'
      <3>1. reg'[c] = "set" /\ \A e \in Clients \ {c} : reg'[e] = reg[e]
        BY <1>1, <2>1 DEF Types
      <3>2. \A e \in ToSet(func') \cup ToSet(cbs') : reg'[e] = "set"
        BY <1>1, <1>2, <2>1, <2>7, <2>8, <3>1 DEF Registered
      <3>3. \A e \in Clients : /\ told[e] # "unset" => reg'[e] = "told"
                               /\ told[e] # "twice"
        BY <1>1, <3>1 DEF Registered
      <3>4. \A e \in Clients : pc'[e] \in {"calling", "setting"} => e # c /\ pc'[e] = pc[e]
        BY <1>1, <2>1 DEF Types
      <3>5. \A e \in Clients : pc'[e] \in {"calling", "setting"} => reg'[e] = "no"
        BY <1>1, <3>1, <3>4 DEF Registered
      <3>6. Distinct(func') /\ Distinct(cbs')
        BY <1>1, <1>2, <2>1, <2>7 DEF Registered
      <3> QED
        BY <2>1, <3>2, <3>3, <3>5, <3>6 DEF Registered
    <2>10. Types'
      <3>1. reg' \in [Clients -> Registrations]
        BY <1>1, <2>1 DEF Types, Registrations
      <3>2. multi' \in BOOLEAN
        BY <2>1
      <3> QED
        BY <1>1, <1>2, <2>1, <2>3, <2>7, <3>1, <3>2 DEF Types
    <2> QED
      BY <1>1, <1>2, <2>3, <2>5, <2>9, <2>10 DEF FutureInv, ValuesCounted
  <1>5. CASE Ready(status)
    <2>1. /\ cbs' = cbs /\ multi' = multi /\ told' = told /\ reg' = reg
          /\ pc' = [pc EXCEPT ![c] = "calling"]
      BY <1>5 DEF CallOrSet, SetsCallback, Goto
    <2>2. "calling" \in Places \ {"none", "gone"}
      BY DEF Places
    <2>3. Counted' /\ PostedOnce' /\ pc' \in [Clients -> Places]
      BY ONLY c \in Clients, <1>1, <1>2, <1>3, <2>1, <2>2, ClientMoves
    <2>4. ListsMatchActor'
      BY <1>1, <1>2, <2>1 DEF ListsMatchActor, Ready
    <2>5. Registered'
      <3>1. \A e \in Clients : pc'[e] \in {"calling", "setting"} => reg[e] = "no"
        BY <1>1, <2>1 DEF Types, Registered
      <3> QED
        BY <1>1, <1>2, <2>1, <3>1 DEF Registered
    <2>6. Types'
      BY <1>1, <1>2, <2>1, <2>3 DEF Types
    <2> QED
      BY <1>1, <1>2, <2>3, <2>4, <2>5, <2>6 DEF FutureInv, ValuesCounted
  <1> QED
    BY <1>4, <1>5

(***************************************************************************)
(* callOrSetAsCallback, and the callback of blockUntilReady.               *)
(***************************************************************************)
LEMMA SetCallbackInv ==
    ASSUME ThreadFutureAssumption, FutureInv, NEW c \in Clients,
           CallOrSetAsCallback(c) \/ BlockCallback(c)
    PROVE  FutureInv'
  <1>1. UNCHANGED <<status, values, got>> /\ Local
    BY DEF CallOrSetAsCallback, BlockCallback
  <1>2. pc[c] \in {"has", "setting"} /\ reg[c] = "no"
    BY DEF CallOrSetAsCallback, BlockCallback, FutureInv, Registered
  <1>3. PICK l \in {"has", "blocked"} : CallOrSet(c, l)
    BY DEF CallOrSetAsCallback, BlockCallback
  <1> QED
    BY ONLY c \in Clients, l \in {"has", "blocked"}, ThreadFutureAssumption, FutureInv,
            <1>1, <1>2, <1>3, CallOrSetInv

(***************************************************************************)
(* The callback of a variable that was ready is called outside the lock.   *)
(***************************************************************************)
LEMMA CallNowInv ==
    ASSUME ThreadFutureAssumption, FutureInv, NEW c \in Clients, CallNow(c)
    PROVE  FutureInv'
  <1>1. Types /\ Counted /\ PostedOnce /\ ListsMatchActor /\ Registered /\ ValuesCounted
    BY DEF FutureInv
  <1>2. /\ status' = status /\ first' = first /\ refs' = refs /\ values' = values /\ cbs' = cbs
        /\ multi' = multi /\ func' = func /\ actor' = actor /\ tasks' = tasks
        /\ cancelling' = cancelling /\ got' = got /\ destroyer' = destroyer
        /\ pc[c] = "calling" /\ pc' = [pc EXCEPT ![c] = "has"]
    BY DEF CallNow, Local, Goto
  <1>3. reg[c] = "no" /\ told[c] = "unset"
    BY <1>1, <1>2 DEF Registered
  <1>4. reg' = [reg EXCEPT ![c] = "told"] /\ told' = [told EXCEPT ![c] = status]
    BY <1>1, <1>3 DEF CallNow, Tell, Types
  <1>5. "has" \in Places \ {"none", "gone"} /\ pc[c] \notin {"none", "gone"}
    BY <1>2 DEF Places
  <1>6. Counted' /\ PostedOnce' /\ pc' \in [Clients -> Places]
    BY ONLY c \in Clients, <1>1, <1>2, <1>5, ClientMoves
  <1>7. ListsMatchActor'
    BY <1>1, <1>2 DEF ListsMatchActor, Ready
  <1>8. Registered'
    <2>1. \A d \in ToSet(func) \cup ToSet(cbs) : d # c /\ reg[d] = "set" /\ d \in Clients
      <3>1. ToSet(func) \subseteq Clients /\ ToSet(cbs) \subseteq Clients
        BY <1>1, ToSetMember DEF Types
      <3> QED
        BY <1>1, <1>3, <3>1 DEF Registered
    <2>2. \A d \in ToSet(func) \cup ToSet(cbs) : reg'[d] = "set"
      BY <1>1, <1>4, <2>1 DEF Types
    <2>3. ASSUME NEW d \in Clients
          PROVE  /\ told'[d] # "unset" => reg'[d] = "told"
                 /\ told'[d] # "twice"
                 /\ pc'[d] \in {"calling", "setting"} => reg'[d] = "no"
      <3>1. CASE d = c
        BY <1>1, <1>2, <1>4, <3>1 DEF Types, Outcomes
      <3>2. CASE d # c
        <4>1. told'[d] = told[d] /\ reg'[d] = reg[d] /\ pc'[d] = pc[d]
          BY <1>1, <1>2, <1>4, <3>2 DEF Types
        <4> QED
          BY <1>1, <4>1 DEF Registered
      <3> QED
        BY <3>1, <3>2
    <2> QED
      BY <1>1, <1>2, <2>2, <2>3 DEF Registered
  <1>9. Types'
    <2>1. reg' \in [Clients -> Registrations] /\ told' \in [Clients -> Outcomes \cup {"twice"}]
      BY <1>1, <1>4 DEF Types, Registrations
    <2> QED
      BY <1>1, <1>2, <1>6, <2>1 DEF Types
  <1> QED
    BY <1>1, <1>2, <1>6, <1>7, <1>8, <1>9 DEF FutureInv, ValuesCounted
(***************************************************************************)
(* ThreadMultiCallback::removeCallback: the others stay, each once.        *)
(***************************************************************************)
LEMMA ClearedDistinct ==
    ASSUME NEW S, NEW s \in Seq(S), Distinct(s), NEW c \in ToSet(s)
    PROVE  /\ Cleared(s, c) \in Seq(S) /\ Distinct(Cleared(s, c))
           /\ ToSet(Cleared(s, c)) = ToSet(s) \ {c}
  <1>1. \A x : x \in ToSet(s) <=> \E i \in 1..Len(s) : s[i] = x
    BY ToSetMember
  <1>2. DOMAIN s = 1..Len(s) /\ s # <<>>
    BY <1>1, LenProperties, EmptySeq
  <1>3. PICK n \in 1..Len(s) : s[n] = c /\ n = CHOOSE m \in DOMAIN s : s[m] = c
    BY <1>1, <1>2
  <1>4. PICK t : t = Front(s)
    OBVIOUS
  <1>5. PICK k : k = Len(s)
    OBVIOUS
  <1>6. /\ k \in Nat /\ k >= 1 /\ Last(s) = s[k] /\ s[k] \in S
        /\ t \in Seq(S) /\ Len(t) = k - 1 /\ Distinct(t)
        /\ \A i \in 1..(k - 1) : t[i] = s[i]
        /\ ToSet(s) = ToSet(t) \union {s[k]} /\ s[k] \notin ToSet(t)
    <2>1. /\ Len(s) \in Nat /\ Len(s) >= 1 /\ Last(s) = s[Len(s)] /\ Last(s) \in S
          /\ Front(s) \in Seq(S) /\ Len(Front(s)) = Len(s) - 1 /\ Distinct(Front(s))
          /\ \A i \in 1..(Len(s) - 1) : Front(s)[i] = s[i]
          /\ ToSet(s) = ToSet(Front(s)) \union {Last(s)} /\ Last(s) \notin ToSet(Front(s))
      BY ONLY s \in Seq(S), Distinct(s), <1>2, FrontDistinct
    <2> QED
      BY ONLY <1>4, <1>5, <2>1
  <1>7. Cleared(s, c) = IF n = k THEN t ELSE [t EXCEPT ![n] = s[k]]
    BY <1>3, <1>4, <1>5, <1>6 DEF Cleared
  <1>8. CASE n = k
    BY <1>3, <1>6, <1>7, <1>8
  <1>9. CASE n # k
    <2>1. PICK u : u = [t EXCEPT ![n] = s[k]]
      OBVIOUS
    <2>2. n \in 1..(k - 1) /\ k \in 1..k
      BY <1>3, <1>5, <1>6, <1>9
    <2>3. t \in [1..(k - 1) -> S]
      BY <1>6, LenProperties
    <2>4. u \in [1..(k - 1) -> S] /\ k - 1 \in Nat
      <3>1. k - 1 \in Nat
        BY <1>6
      <3>2. s[k] \in S
        BY <1>6
      <3> QED
        BY ONLY <2>1, <2>3, <3>1, <3>2
    <2>5. u \in Seq(S)
      BY <2>4, SeqDef
    <2>6. Len(u) = k - 1
      BY <1>6, <2>4, <2>5, LenProperties
    <2>7. \A i \in 1..(k - 1) : u[i] = IF i = n THEN s[k] ELSE s[i]
      BY <1>6, <2>1, <2>3
    <2>8. \A i, j \in 1..k : s[i] = s[j] => i = j
      BY <1>5 DEF Distinct
    <2>9. \A i \in 1..(k - 1) : i \in 1..k /\ i # k
      BY <1>6
    <2>10. \A i \in 1..k : i = k \/ i \in 1..(k - 1)
      BY <1>6
    <2>11. Distinct(u)
      BY <2>2, <2>6, <2>7, <2>8, <2>9 DEF Distinct
    <2>12. \A x : x \in ToSet(u) <=> \E i \in 1..(k - 1) : u[i] = x
      BY <2>5, <2>6, ToSetMember
    <2>13. \A x : x \in ToSet(s) <=> \E i \in 1..k : s[i] = x
      BY <1>1, <1>5
    <2>14. ASSUME NEW x PROVE x \in ToSet(u) <=> x \in ToSet(s) /\ x # c
      <3>1. ASSUME NEW i \in 1..(k - 1), u[i] = x PROVE x \in ToSet(s) /\ x # c
        BY <1>3, <2>2, <2>7, <2>8, <2>9, <2>13, <3>1
      <3>2. ASSUME NEW i \in 1..k, s[i] = x, x # c PROVE x \in ToSet(u)
        <4>1. CASE i = k
          BY <2>2, <2>7, <2>12, <3>2, <4>1
        <4>2. CASE i \in 1..(k - 1)
          BY <1>3, <2>7, <2>12, <3>2, <4>2
        <4> QED
          BY <2>10, <4>1, <4>2
      <3> QED
        BY <2>12, <2>13, <3>1, <3>2
    <2>15. Cleared(s, c) = u
      BY <1>7, <1>9, <2>1
    <2> QED
      BY <2>5, <2>11, <2>14, <2>15
  <1> QED
    BY <1>8, <1>9

(***************************************************************************)
(* clearCallback before there is an outcome.                               *)
(***************************************************************************)
LEMMA ClearCallbackInv ==
    ASSUME ThreadFutureAssumption, FutureInv, NEW c \in Clients, ClearCallback(c)
    PROVE  FutureInv'
  <1>1. Types /\ Counted /\ PostedOnce /\ ListsMatchActor /\ Registered /\ ValuesCounted
    BY DEF FutureInv
  <1>2. /\ status' = status /\ first' = first /\ refs' = refs /\ values' = values
        /\ multi' = multi /\ func' = func /\ actor' = actor /\ tasks' = tasks
        /\ cancelling' = cancelling /\ pc' = pc /\ told' = told /\ got' = got
        /\ destroyer' = destroyer /\ pc[c] = "has" /\ reg[c] = "set" /\ ~Ready(status)
        /\ reg' = [reg EXCEPT ![c] = "cleared"]
        /\ cbs' = IF c \in ToSet(cbs) THEN Cleared(cbs, c) ELSE cbs
    BY DEF ClearCallback, Local, MayClear
  <1>3. actor \in {"signal", "working"} /\ func = <<>>
    BY <1>1, <1>2 DEF ListsMatchActor, Types
  <1>4. cbs' \in Seq(Clients) /\ Distinct(cbs') /\ ToSet(cbs') = ToSet(cbs) \ {c}
    <2>1. cbs \in Seq(Clients) /\ Distinct(cbs)
      BY <1>1 DEF Types, Registered
    <2>2. CASE c \in ToSet(cbs)
      <3>1. /\ Cleared(cbs, c) \in Seq(Clients) /\ Distinct(Cleared(cbs, c))
            /\ ToSet(Cleared(cbs, c)) = ToSet(cbs) \ {c}
        BY ONLY <2>1, <2>2, ClearedDistinct
      <3> QED
        BY <1>2, <2>2, <3>1
    <2>3. CASE c \notin ToSet(cbs)
      BY <1>2, <2>1, <2>3
    <2> QED
      BY <2>2, <2>3
  <1>5. Users' = Users /\ Posted' = Posted /\ Running' = Running
    BY <1>2 DEF Users, Posted, Running
  <1>6. Counted'
    BY <1>1, <1>2, <1>5, SameHolders DEF Holding
  <1>7. PostedOnce'
    BY <1>1, <1>2, <1>5 DEF PostedOnce
  <1>8. ListsMatchActor'
    BY <1>1, <1>2, <1>3 DEF ListsMatchActor, Ready
  <1>9. Registered'
    <2>1. ToSet(cbs) \subseteq Clients /\ ToSet(func) = {}
      BY <1>1, <1>3, ToSetMember DEF Types, ToSet
    <2>2. reg'[c] = "cleared" /\ \A e \in Clients \ {c} : reg'[e] = reg[e]
      BY <1>1, <1>2 DEF Types
    <2>3. \A e \in ToSet(func') \cup ToSet(cbs') : reg'[e] = "set"
      BY <1>1, <1>2, <1>4, <2>1, <2>2 DEF Registered
    <2>4. \A e \in Clients : /\ told[e] # "unset" => reg'[e] = "told"
                             /\ told[e] # "twice"
                             /\ pc[e] \in {"calling", "setting"} => reg'[e] = "no"
      BY <1>1, <1>2, <2>2 DEF Registered
    <2>5. Distinct(func')
      BY <1>1, <1>2 DEF Registered
    <2> QED
      BY <1>2, <1>4, <2>3, <2>4, <2>5 DEF Registered
  <1>10. Types'
    <2>1. reg' \in [Clients -> Registrations]
      BY <1>1, <1>2 DEF Types, Registrations
    <2> QED
      BY <1>1, <1>2, <1>4, <2>1 DEF Types
  <1> QED
    BY <1>1, <1>2, <1>6, <1>7, <1>8, <1>9, <1>10 DEF FutureInv, ValuesCounted

(***************************************************************************)
(* get() and releaseMemory(): the value references and their count.        *)
(***************************************************************************)
LEMMA ValueInv ==
    ASSUME ThreadFutureAssumption, FutureInv, NEW c \in Clients, Get(c) \/ ReleaseMemory(c)
    PROVE  FutureInv'
  <1>1. Types /\ Counted /\ PostedOnce /\ ListsMatchActor /\ Registered /\ ValuesCounted
    BY DEF FutureInv
  <1>2. /\ first' = first /\ refs' = refs /\ cbs' = cbs /\ multi' = multi /\ func' = func
        /\ actor' = actor /\ tasks' = tasks /\ cancelling' = cancelling /\ pc' = pc
        /\ reg' = reg /\ told' = told /\ destroyer' = destroyer
    BY DEF Get, ReleaseMemory, Local
  <1>3. status' \in Outcomes /\ (Ready(status') <=> Ready(status))
    BY <1>1 DEF Get, ReleaseMemory, Ready, Types, Outcomes
  <1>4. got' \in [Clients -> BOOLEAN] /\ values' \in Nat /\ ValuesCounted'
    <2> DEFINE G == {d \in Clients : got[d]}
    <2>1. IsFiniteSet(Clients) /\ G \subseteq Clients /\ got \in [Clients -> BOOLEAN]
      BY <1>1, HoldingFinite DEF Types
    <2>2. IsFiniteSet(G) /\ Cardinality(G) \in Nat
      BY <2>1, FS_Subset, FS_CardinalityType
    <2>3. values = Cardinality(G)
      BY <1>1 DEF ValuesCounted
    <2>4. CASE Get(c)
      <3>1. values' = values + 1 /\ got' = [got EXCEPT ![c] = TRUE] /\ ~got[c]
        BY <2>4 DEF Get
      <3>2. {d \in Clients : got'[d]} = G \cup {c} /\ c \notin G
        BY <2>1, <3>1
      <3>3. Cardinality(G \cup {c}) = Cardinality(G) + 1
        BY <2>2, <3>2, FS_AddElement
      <3>4. got' \in [Clients -> BOOLEAN]
        BY <2>1, <3>1
      <3> HIDE DEF G
      <3>5. values' = Cardinality(G \cup {c}) /\ values' \in Nat
        BY <2>2, <2>3, <3>1, <3>3
      <3> QED
        BY <3>2, <3>4, <3>5 DEF ValuesCounted
    <2>5. CASE ReleaseMemory(c)
      <3>1. values' = values - 1 /\ got' = [got EXCEPT ![c] = FALSE] /\ got[c]
        BY <2>5 DEF ReleaseMemory
      <3>2. {d \in Clients : got'[d]} = G \ {c} /\ c \in G
        BY <2>1, <3>1
      <3>3. Cardinality(G \ {c}) = Cardinality(G) - 1 /\ IsFiniteSet(G \ {c})
        BY <2>2, <3>2, FS_RemoveElement
      <3>4. Cardinality(G \ {c}) \in Nat
        BY <3>3, FS_CardinalityType
      <3>5. got' \in [Clients -> BOOLEAN]
        BY <2>1, <3>1
      <3> HIDE DEF G
      <3>6. values' = Cardinality(G \ {c}) /\ values' \in Nat
        BY <2>2, <2>3, <3>1, <3>3, <3>4
      <3> QED
        BY <3>2, <3>5, <3>6 DEF ValuesCounted
    <2> QED
      BY <2>4, <2>5
  <1>5. Users' = Users /\ Posted' = Posted /\ Running' = Running
    BY <1>2 DEF Users, Posted, Running
  <1>6. Counted'
    BY <1>1, <1>2, <1>5, SameHolders DEF Holding
  <1>7. PostedOnce'
    BY <1>1, <1>2, <1>5 DEF PostedOnce
  <1>8. ListsMatchActor'
    BY <1>1, <1>2, <1>3 DEF ListsMatchActor
  <1>9. Registered'
    BY <1>1, <1>2 DEF Registered
  <1>10. Types'
    BY <1>1, <1>2, <1>3, <1>4 DEF Types
  <1> QED
    BY <1>4, <1>6, <1>7, <1>8, <1>9, <1>10 DEF FutureInv

(***************************************************************************)
(* A cancel that found no outcome is posted with the caller's reference.   *)
(***************************************************************************)
LEMMA PostCancelInv ==
    ASSUME ThreadFutureAssumption, FutureInv, NEW c \in Clients, PostCancel(c)
    PROVE  FutureInv'
  <1>1. Types /\ Counted /\ PostedOnce /\ ListsMatchActor /\ Registered /\ ValuesCounted
    BY DEF FutureInv
  <1>2. /\ status' = status /\ first' = first /\ refs' = refs /\ values' = values /\ cbs' = cbs
        /\ multi' = multi /\ func' = func /\ actor' = actor /\ cancelling' = cancelling
        /\ reg' = reg /\ told' = told /\ got' = got /\ destroyer' = destroyer
        /\ pc[c] = "posting" /\ pc' = [pc EXCEPT ![c] = "gone"] /\ tasks' = Append(tasks, c)
    BY DEF PostCancel, Goto
  <1>3. pc' \in [Clients -> Places] /\ pc'[c] = "gone" /\ \A e \in Clients \ {c} : pc'[e] = pc[e]
    BY <1>1, <1>2 DEF Types, Places
  <1>4. c \notin ToSet(tasks) /\ c # cancelling /\ c # Main
    BY <1>1, <1>2, HoldingFinite DEF PostedOnce, Posted
  <1>5. tasks \in Seq(Clients \cup {Main}) /\ Distinct(tasks) /\ c \in Clients \cup {Main}
    BY <1>1 DEF Types, PostedOnce
  <1>6. /\ tasks' \in Seq(Clients \cup {Main}) /\ Distinct(tasks')
        /\ ToSet(tasks') = ToSet(tasks) \cup {c}
    <2>1. /\ Append(tasks, c) \in Seq(Clients \cup {Main}) /\ Distinct(Append(tasks, c))
          /\ ToSet(Append(tasks, c)) = ToSet(tasks) \cup {c}
      BY ONLY <1>4, <1>5, AppendDistinct
    <2> QED
      BY <1>2, <2>1
  <1>7. /\ Users' = Users \ {c} /\ Posted' = Posted \cup {c} /\ Running' = Running /\ c \in Users
    BY <1>2, <1>3, <1>4, <1>6 DEF Users, Posted, Running
  <1>8. Holding' = Holding
    BY <1>7 DEF Holding
  <1>9. Counted'
    BY <1>1, <1>2, <1>8, SameHolders
  <1>10. PostedOnce'
    <2>1. Posted \subseteq Clients
      BY <1>1, ToSetMember DEF Posted, Types
    <2>2. \A e \in Posted' : pc'[e] = "gone"
      BY <1>1, <1>3, <1>7, <2>1 DEF PostedOnce
    <2> QED
      BY <1>1, <1>2, <1>4, <1>6, <2>2 DEF PostedOnce
  <1>11. ListsMatchActor'
    BY <1>1, <1>2 DEF ListsMatchActor, Ready
  <1>12. Registered'
    BY <1>1, <1>2, <1>3 DEF Registered
  <1>13. Types'
    BY <1>1, <1>2, <1>3, <1>6 DEF Types
  <1> QED
    BY <1>1, <1>2, <1>9, <1>10, <1>11, <1>12, <1>13 DEF FutureInv, ValuesCounted

(***************************************************************************)
(* A client drops its reference.                                           *)
(***************************************************************************)
LEMMA DropRefInv ==
    ASSUME ThreadFutureAssumption, FutureInv, NEW c \in Clients, DropRef(c)
    PROVE  FutureInv'
  <1>1. Types /\ Counted /\ PostedOnce /\ ListsMatchActor /\ Registered /\ ValuesCounted
    BY DEF FutureInv
  <1>2. /\ status' = status /\ first' = first /\ values' = values /\ cbs' = cbs
        /\ multi' = multi /\ func' = func /\ actor' = actor /\ tasks' = tasks
        /\ cancelling' = cancelling /\ reg' = reg /\ told' = told /\ got' = got
        /\ pc[c] = "dropping" /\ pc' = [pc EXCEPT ![c] = "gone"]
    BY DEF DropRef, Goto
  <1>3. pc' \in [Clients -> Places] /\ pc'[c] = "gone" /\ \A e \in Clients \ {c} : pc'[e] = pc[e]
    BY <1>1, <1>2 DEF Types, Places
  <1>4. /\ Users' = Users \ {c} /\ Posted' = Posted /\ Running' = Running
        /\ c \in Users /\ c \notin Posted /\ c \notin Running
    BY <1>1, <1>2, <1>3, HoldingFinite DEF Users, Posted, Running, PostedOnce
  <1>5. c \in Holding /\ Holding' = Holding \ {c}
    BY <1>4 DEF Holding
  <1>6. Delref(c) /\ c \in Clients \cup {Main}
    BY DEF DropRef
  <1>7. Counted' /\ refs' \in Nat /\ destroyer' \in Clients \cup {Main, "nobody"}
    BY <1>1, <1>5, <1>6, HolderLeaves
  <1>8. PostedOnce'
    <2>1. Posted \subseteq Clients
      BY <1>1, ToSetMember DEF Posted, Types
    <2> QED
      BY <1>1, <1>2, <1>3, <1>4, <2>1 DEF PostedOnce
  <1>9. ListsMatchActor'
    BY <1>1, <1>2 DEF ListsMatchActor, Ready
  <1>10. Registered'
    BY <1>1, <1>2, <1>3 DEF Registered
  <1>11. Types'
    BY <1>1, <1>2, <1>3, <1>7 DEF Types
  <1> QED
    BY <1>1, <1>2, <1>7, <1>8, <1>9, <1>10, <1>11 DEF FutureInv, ValuesCounted

(***************************************************************************)
(* Every step keeps the invariant.                                         *)
(***************************************************************************)
LEMMA NextInv ==
    ASSUME ThreadFutureAssumption, FutureInv, [Next]_vars
    PROVE  FutureInv'
  <1>1. CASE UNCHANGED vars
    <2>1. /\ status' = status /\ first' = first /\ refs' = refs /\ values' = values /\ cbs' = cbs
          /\ multi' = multi /\ func' = func /\ actor' = actor /\ tasks' = tasks
          /\ cancelling' = cancelling /\ pc' = pc /\ reg' = reg /\ told' = told /\ got' = got
          /\ destroyer' = destroyer
      BY <1>1 DEF vars
    <2>2. Users' = Users /\ Posted' = Posted /\ Running' = Running
      BY <2>1 DEF Users, Posted, Running
    <2>3. Counted' /\ PostedOnce'
      BY <2>1, <2>2 DEF FutureInv, Counted, PostedOnce, Holding
    <2>4. ListsMatchActor' /\ Registered' /\ ValuesCounted'
      BY <2>1 DEF FutureInv, ListsMatchActor, Ready, Registered, ValuesCounted
    <2> QED
      BY <2>1, <2>3, <2>4 DEF FutureInv, Types
  <1> QED
    BY <1>1, RunSignalInv, RunCancelInv, CancelDelrefInv, FireCallbackInv, ActorReturnsInv,
       ActorDelrefInv, FunctionEndsInv, CopyInv, SetCallbackInv, CallNowInv, PlainMoveInv,
       ClearCallbackInv, ValueInv, PostCancelInv, DropRefInv
       DEF Next, NetworkStep, CallStep, ClientNext

-----------------------------------------------------------------------------
\* What the callbacks are told.

(***************************************************************************)
(* The status is the outcome that was sent, until a value's memory is      *)
(* given back.                                                             *)
(***************************************************************************)
SentOK ==
    /\ status = first \/ (Releases /\ first = "value" /\ status = "released")
    /\ \A c \in Clients : got[c] => Releases
    /\ ToldTheOutcome

(***************************************************************************)
(* An outcome is sent when there was none, and nobody had been told one.   *)
(***************************************************************************)
LEMMA SendSentOK ==
    ASSUME FutureInv, SentOK, NEW o, Send(o), actor \in {"signal", "working"},
           got' = got, told' = told
    PROVE  SentOK'
  <1>1. status = "unset" /\ first = "unset"
    BY DEF FutureInv, ListsMatchActor, Ready, SentOK
  <1>2. \A c \in Clients : told[c] = "unset"
    BY <1>1 DEF SentOK, ToldTheOutcome
  <1>3. status' = first'
    BY DEF Send
  <1> QED
    BY <1>2, <1>3 DEF SentOK, ToldTheOutcome

(***************************************************************************)
(* A callback is told the outcome that was sent, or the status.            *)
(***************************************************************************)
LEMMA TellSentOK ==
    ASSUME FutureInv, SentOK, NEW c \in Clients, NEW what, Tell(c, what),
           told[c] = "unset", what \in {first, status},
           status' = status, first' = first, got' = got
    PROVE  SentOK'
  <1>1. told' = [told EXCEPT ![c] = what] /\ told \in [Clients -> Outcomes \cup {"twice"}]
    BY DEF Tell, FutureInv, Types
  <1>2. what = first \/ (Releases /\ first = "value" /\ what = "released")
    BY DEF SentOK
  <1>3. ToldTheOutcome'
    BY <1>1, <1>2 DEF SentOK, ToldTheOutcome
  <1> QED
    BY <1>3 DEF SentOK

(***************************************************************************)
(* Every step keeps this.                                                  *)
(***************************************************************************)
LEMMA NextSentOK ==
    ASSUME ThreadFutureAssumption, FutureInv, SentOK, [Next]_vars
    PROVE  SentOK'
  <1>1. ASSUME status' = status, first' = first, got' = got, told' = told
        PROVE  SentOK'
    BY <1>1 DEF SentOK, ToldTheOutcome
  <1>2. CASE FunctionEnds
    <2>1. got' = got /\ told' = told /\ actor = "working"
      BY <1>2 DEF FunctionEnds
    <2>2. PICK o : Send(o)
      BY <1>2 DEF FunctionEnds
    <2> QED
      BY <2>1, <2>2, SendSentOK
  <1>3. CASE RunCancel
    <2>1. got' = got /\ told' = told /\ CancelActor
      BY <1>3 DEF RunCancel
    <2>2. CASE actor \in {"signal", "working"}
      <3>1. Send("cancelled")
        BY <2>1, <2>2 DEF CancelActor
      <3> QED
        BY <2>1, <2>2, <3>1, SendSentOK
    <2>3. CASE actor \notin {"signal", "working"}
      <3>1. status' = status /\ first' = first
        BY <2>1, <2>3 DEF CancelActor
      <3> QED
        BY <1>1, <2>1, <3>1
    <2> QED
      BY <2>2, <2>3
  <1>4. CASE RunSignal \/ CancelDelref \/ ActorReturns \/ ActorDelref
    <2>1. status' = status /\ first' = first /\ got' = got /\ told' = told
      BY <1>4 DEF RunSignal, CancelDelref, ActorReturns, Returns, ActorDelref
    <2> QED
      BY <1>1, <2>1
  <1>5. CASE FireCallback
    <2>1. /\ status' = status /\ first' = first /\ got' = got
          /\ func \o cbs # <<>> /\ func \in Seq(Clients) /\ cbs \in Seq(Clients)
          /\ (func = <<>> \/ cbs = <<>>)
      BY <1>5 DEF FireCallback, FutureInv, Types, ListsMatchActor
    <2>2. PICK c : c = Last(func \o cbs) /\ Tell(c, first)
      BY <1>5 DEF FireCallback
    <2>3. c \in ToSet(func) \cup ToSet(cbs)
      <3>1. CASE cbs = <<>>
        <4>1. func # <<>> /\ c = Last(func)
          BY <2>1, <2>2, <3>1
        <4>2. Distinct(func)
          BY DEF FutureInv, Registered
        <4>3. ToSet(func) = ToSet(Front(func)) \cup {Last(func)}
          BY ONLY <2>1, <4>1, <4>2, FrontDistinct
        <4> QED
          BY <4>1, <4>3
      <3>2. CASE func = <<>>
        <4>1. cbs # <<>> /\ c = Last(cbs)
          BY <2>1, <2>2, <3>2
        <4>2. Distinct(cbs)
          BY DEF FutureInv, Registered
        <4>3. ToSet(cbs) = ToSet(Front(cbs)) \cup {Last(cbs)}
          BY ONLY <2>1, <4>1, <4>2, FrontDistinct
        <4> QED
          BY <4>1, <4>3
      <3> QED
        BY <2>1, <3>1, <3>2
    <2>4. c \in Clients
      BY <2>1, <2>3, ToSetMember
    <2>5. told[c] = "unset"
      BY <2>3, <2>4 DEF FutureInv, Registered
    <2> QED
      BY <2>1, <2>2, <2>4, <2>5, TellSentOK
  <1>6. ASSUME NEW c \in Clients, CallNow(c)
        PROVE  SentOK'
    <2>1. Tell(c, status) /\ status' = status /\ first' = first /\ got' = got /\ pc[c] = "calling"
      BY <1>6 DEF CallNow, Local
    <2>2. told[c] = "unset"
      BY <2>1 DEF FutureInv, Registered
    <2> QED
      BY <2>1, <2>2, TellSentOK
  <1>7. ASSUME NEW c \in Clients, Get(c) \/ ReleaseMemory(c)
        PROVE  SentOK'
    <2>1. /\ first' = first /\ told' = told /\ got \in [Clients -> BOOLEAN]
          /\ \E b \in BOOLEAN : got' = [got EXCEPT ![c] = b]
      BY <1>7 DEF Get, ReleaseMemory, Local, FutureInv, Types
    <2>2. Releases
      BY <1>7 DEF Get, ReleaseMemory, SentOK
    <2>3. status' = status \/ (status = "value" /\ status' = "released")
      BY <1>7 DEF Get, ReleaseMemory
    <2>4. status' = first' \/ (Releases /\ first' = "value" /\ status' = "released")
      BY <2>1, <2>2, <2>3 DEF SentOK
    <2>5. \A d \in Clients : got'[d] => Releases
      BY <2>2
    <2>6. ToldTheOutcome'
      BY <2>1 DEF SentOK, ToldTheOutcome
    <2> QED
      BY <2>4, <2>5, <2>6 DEF SentOK
  <1>8. ASSUME NEW c \in Clients,
               \/ \E d \in Clients : Copy(c, d)
               \/ CallOrSetAsCallback(c) \/ BlockUntilReady(c) \/ ClearCallback(c) \/ Cancel(c)
               \/ Drop(c) \/ BlockCallback(c) \/ PostCancel(c) \/ DropRef(c)
        PROVE  SentOK'
    <2>1. status' = status /\ first' = first /\ got' = got
      BY <1>8 DEF Copy, CallOrSetAsCallback, BlockUntilReady, ClearCallback, Cancel, Drop,
                  BlockCallback, PostCancel, DropRef, Local
    <2>2. told' = told
      BY <1>8 DEF Copy, CallOrSetAsCallback, CallOrSet, BlockUntilReady, ClearCallback, Cancel,
                  Drop, BlockCallback, PostCancel, DropRef
    <2> QED
      BY <1>1, <2>1, <2>2
  <1>9. CASE UNCHANGED vars
    BY <1>1, <1>9 DEF vars
  <1> QED
    BY <1>2, <1>3, <1>4, <1>5, <1>6, <1>7, <1>8, <1>9
       DEF Next, NetworkStep, CallStep, ClientNext

(***************************************************************************)
(* Whichever of any number of client threads race with the network thread  *)
(* (ThreadHelper.actor.h): the variable is destroyed exactly when nobody   *)
(* will touch it again, not by a client before the actor has forgotten its *)
(* promise, and a callback is told once, never after it was cleared, and   *)
(* the outcome that was sent.                                              *)
(***************************************************************************)
THEOREM ThreadFutureIsSafe ==
    ASSUME ThreadFutureAssumption
    PROVE  Spec => []ThreadFutureSafe
  <1>1. Init => FutureInv /\ SentOK
    BY InitInv DEF Init, SentOK, ToldTheOutcome
  <1>2. FutureInv /\ SentOK /\ [Next]_vars => (FutureInv /\ SentOK)'
    BY NextInv, NextSentOK
  <1>3. FutureInv /\ SentOK => ThreadFutureSafe
    BY InvSafe DEF SentOK, ThreadFutureSafe
  <1> QED
    BY <1>1, <1>2, <1>3, PTL DEF Spec

-----------------------------------------------------------------------------
\* The status, when no client gives memory back.

(***************************************************************************)
(* Nobody holds a value reference, and a callback is on its way only after *)
(* the outcome.                                                            *)
(***************************************************************************)
Quiet == \A c \in Clients : ~got[c] /\ (pc[c] = "calling" => Ready(status))

(***************************************************************************)
(* The status only changes when the outcome is sent.                       *)
(***************************************************************************)
LEMMA OutcomeOnce ==
    ASSUME ~Releases, FutureInv, Quiet, [Next]_vars
    PROVE  /\ got' = got
           /\ status' = status \/ (~Ready(status) /\ Ready(status'))
  <1>1. Ready(status) <=> actor \notin {"signal", "working"}
    BY DEF FutureInv, ListsMatchActor
  <1>2. ASSUME NEW o \in {"value", "error", "cancelled"}, Send(o)
        PROVE  Ready(status')
    BY <1>2 DEF Send, Ready
  <1>3. CASE FunctionEnds
    <2>1. got' = got /\ actor = "working"
      BY <1>3 DEF FunctionEnds
    <2>2. PICK o \in {"value", "error", "cancelled"} : Send(o)
      BY <1>3 DEF FunctionEnds
    <2> QED
      BY <1>1, <1>2, <2>1, <2>2
  <1>4. CASE RunCancel
    <2>1. got' = got /\ CancelActor
      BY <1>4 DEF RunCancel
    <2>2. CASE actor \in {"signal", "working"}
      <3>1. Send("cancelled")
        BY <2>1, <2>2 DEF CancelActor
      <3> QED
        BY <1>1, <1>2, <2>1, <2>2, <3>1
    <2>3. CASE actor \notin {"signal", "working"}
      BY <2>1, <2>3 DEF CancelActor
    <2> QED
      BY <2>2, <2>3
  <1>5. CASE RunSignal \/ CancelDelref \/ FireCallback \/ ActorReturns \/ ActorDelref
    BY <1>5 DEF RunSignal, CancelDelref, FireCallback, ActorReturns, Returns, ActorDelref
  <1>6. ASSUME NEW c \in Clients, CallStep(c) \/ ClientNext(c)
        PROVE  got' = got /\ status' = status
    <2>1. CASE CallStep(c)
      BY <2>1 DEF CallStep, CallNow, BlockCallback, PostCancel, DropRef
    <2>2. CASE \E d \in Clients : Copy(c, d)
      BY <2>2 DEF Copy
    <2>3. ~Get(c) /\ ~ReleaseMemory(c)
      BY DEF Quiet, Get, ReleaseMemory
    <2>4. CASE CallOrSetAsCallback(c) \/ BlockUntilReady(c) \/ ClearCallback(c) \/ Cancel(c) \/ Drop(c)
      BY <2>4 DEF CallOrSetAsCallback, BlockUntilReady, ClearCallback, Cancel, Drop
    <2> QED
      BY <1>6, <2>1, <2>2, <2>3, <2>4 DEF ClientNext
  <1>7. CASE UNCHANGED vars
    BY <1>7 DEF vars
  <1> QED
    BY <1>3, <1>4, <1>5, <1>6, <1>7 DEF Next, NetworkStep

(***************************************************************************)
(* A client goes to call its callback when it has seen the outcome.        *)
(***************************************************************************)
LEMMA CallingAfterOutcome ==
    ASSUME FutureInv, [Next]_vars, NEW c \in Clients, pc'[c] = "calling"
    PROVE  pc[c] = "calling" \/ Ready(status)
  <1>1. pc \in [Clients -> Places]
    BY DEF FutureInv, Types
  <1>2. CASE \/ RunSignal \/ RunCancel \/ CancelDelref \/ ActorReturns \/ ActorDelref
             \/ FunctionEnds \/ UNCHANGED vars
    BY <1>2 DEF RunSignal, RunCancel, CancelDelref, ActorReturns, ActorDelref, FunctionEnds, vars
  <1>3. CASE FireCallback
    <2>1. PICK d : pc' = [pc EXCEPT ![d] = IF pc[d] = "blocked" THEN "has" ELSE pc[d]]
      BY <1>3 DEF FireCallback, Wake
    <2> QED
      BY <1>1, <2>1
  <1>4. ASSUME NEW d \in Clients, CallStep(d) \/ ClientNext(d)
        PROVE  pc[c] = "calling" \/ Ready(status)
    <2>1. CASE CallNow(d) \/ PostCancel(d) \/ DropRef(d)
      BY <1>1, <2>1 DEF CallNow, PostCancel, DropRef, Goto
    <2>2. CASE \E e \in Clients : Copy(d, e)
      BY <1>1, <2>2 DEF Copy, Goto
    <2>3. CASE BlockUntilReady(d) \/ Cancel(d) \/ Drop(d)
      BY <1>1, <2>3 DEF BlockUntilReady, Cancel, Drop, Goto
    <2>4. CASE ClearCallback(d) \/ Get(d) \/ ReleaseMemory(d)
      BY <2>4 DEF ClearCallback, Get, ReleaseMemory
    <2>5. CASE CallOrSetAsCallback(d) \/ BlockCallback(d)
      <3>1. PICK l \in {"has", "blocked"} : CallOrSet(d, l)
        BY <2>5 DEF CallOrSetAsCallback, BlockCallback
      <3> QED
        BY <1>1, <3>1 DEF CallOrSet, SetsCallback, Goto
    <2> QED
      BY <1>4, <2>1, <2>2, <2>3, <2>4, <2>5 DEF CallStep, ClientNext
  <1> QED
    BY <1>2, <1>3, <1>4 DEF Next, NetworkStep

(***************************************************************************)
(* As long as no client calls releaseMemory, the status that a             *)
(* callOrSetAsCallback on its way from the lock to the callback reads      *)
(* again is the one it saw under the lock, whoever cancels, clears or      *)
(* drops meanwhile (ThreadHelper.actor.h): releaseMemory is the only       *)
(* operation that breaks it.                                               *)
(***************************************************************************)
THEOREM ReadyIsStableUnlessReleased ==
    ASSUME ThreadFutureAssumption, ~Releases
    PROVE  Spec => ReadyIsStable
  <1>1. Init => FutureInv /\ Quiet
    <2> SUFFICES ASSUME Init PROVE FutureInv /\ Quiet
      OBVIOUS
    <2>1. \A c \in Clients : ~got[c] /\ pc[c] # "calling"
      BY DEF Init
    <2> QED
      BY <2>1, InitInv DEF Quiet
  <1>2. FutureInv /\ Quiet /\ [Next]_vars => FutureInv' /\ Quiet'
    BY NextInv, OutcomeOnce, CallingAfterOutcome DEF Quiet
  <1>3. FutureInv /\ Quiet /\ [Next]_vars
          => [\A c \in Clients : pc[c] = "calling" /\ pc'[c] = "calling" => status' = status]_vars
    BY OutcomeOnce DEF Quiet
  <1> QED
    BY <1>1, <1>2, <1>3, PTL DEF Spec, ReadyIsStable
=============================================================================
