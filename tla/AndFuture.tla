----------------------------- MODULE AndFuture ------------------------------
(***************************************************************************)
(* AndFuture of genericactors.actor.h: a future of "all of these", which   *)
(* forgets the futures that are done.  An element of its vector is one of  *)
(* the futures given to it or the waitForAll of several: the set of the    *)
(* given futures it stands for.                                            *)
(***************************************************************************)
EXTENDS Integers, Sequences, FiniteSets, SequencesExt

CONSTANTS Given,   \* the futures that are given to an AndFuture
          Objects  \* the AndFuture objects

\* What the constants have to be.
AndFutureAssumption == IsFiniteSet(Given)

VARIABLES
    state,     \* of each given future: "pending", "ok" or "error"
    futures,   \* of each object, its vector
    added      \* of each object, what it was given, itself or through a copy

vars == <<state, futures, added>>

Init ==
    /\ state \in [Given -> {"pending", "ok", "error"}]
    /\ futures = [o \in Objects |-> <<>>] /\ added = [o \in Objects |-> {}]

\* A waitForAll has failed as soon as one of its futures has.
IsError(f) == \E g \in f : state[g] = "error"
IsReady(f) == IsError(f) \/ \A g \in f : state[g] = "ok"
Ok(f) == IsReady(f) /\ ~IsError(f)

Settle(g) ==
    /\ state[g] = "pending" /\ \E s \in {"ok", "error"} : state' = [state EXCEPT ![g] = s]
    /\ UNCHANGED <<futures, added>>

-----------------------------------------------------------------------------
swapAndPop(v, i) == Front(ReplaceAt(v, i, Last(v)))

\* Fault: everything that is ready is forgotten.
ForgetsReady(f) == IsReady(f)

\* A future that is ready and is no error may be forgotten.
Forgets(f) == Ok(f)

\* The vector that isReady() leaves: from the last to the first, until one is
\* not ready.
AfterIsReady(v) ==
    LET Visit[i \in 0..Len(v)] ==
            IF i = Len(v) THEN [vec |-> v, stop |-> FALSE]
            ELSE LET w == Visit[i + 1] IN
                 IF w.stop \/ ~IsReady(w.vec[i + 1]) THEN [w EXCEPT !.stop = TRUE]
                 ELSE IF Forgets(w.vec[i + 1]) THEN [w EXCEPT !.vec = swapAndPop(@, i + 1)]
                 ELSE w
    IN  Visit[0]

isReady(o) ==
    /\ futures' = [futures EXCEPT ![o] = AfterIsReady(@).vec]
    /\ UNCHANGED <<state, added>>

\* cleanup(): from the first on; after a pop the same index again.  At least
\* one of the two ends moves in each of the Len(v) rounds.
AfterCleanup(v) ==
    LET Visit[n \in 0..Len(v)] ==
            IF n = 0 THEN [vec |-> v, i |-> 1]
            ELSE LET w == Visit[n - 1] IN
                 IF w.i > Len(w.vec) THEN w
                 ELSE IF Forgets(w.vec[w.i]) THEN [w EXCEPT !.vec = swapAndPop(@, w.i)]
                 ELSE [w EXCEPT !.i = @ + 1]
    IN  Visit[Len(v)].vec

cleanup(o) ==
    /\ futures' = [futures EXCEPT ![o] = AfterCleanup(@)]
    /\ UNCHANGED <<state, added>>

isError(o) == \E i \in DOMAIN futures[o] : IsError(futures[o][i])

\* getFuture(): several futures become one waitForAll.
Collected(v) == IF Len(v) < 2 THEN v ELSE <<UNION ToSet(v)>>
Result(v) == UNION ToSet(Collected(v))

getFuture(o) ==
    /\ futures' = [futures EXCEPT ![o] = Collected(@)]
    /\ UNCHANGED <<state, added>>

\* add(f), and operator=(f), which adds it whether or not it is done.
add(o, f, always) ==
    /\ f \cap added[o] = {}
    /\ futures' = [futures EXCEPT ![o] = IF always \/ ~Ok(f) THEN Append(@, f) ELSE @]
    /\ added' = [added EXCEPT ![o] = @ \cup f]
    /\ UNCHANGED state

\* add(AndFuture), which is taken by value: the copy is asked for its future.
addAnd(o, p) ==
    /\ o # p /\ added[p] # {} /\ added[o] \cap added[p] = {}
    /\ futures' = [futures EXCEPT ![o] = IF Ok(Result(futures[p])) THEN @ ELSE Append(@, Result(futures[p]))]
    /\ added' = [added EXCEPT ![o] = @ \cup added[p]]
    /\ UNCHANGED state

\* operator=(AndFuture const&) and the move, which leaves the source empty.
Assign(o, p) ==
    /\ o # p /\ futures' = [futures EXCEPT ![o] = futures[p]] /\ added' = [added EXCEPT ![o] = added[p]]
    /\ UNCHANGED state
Move(o, p) ==
    /\ o # p /\ futures' = [futures EXCEPT ![o] = futures[p], ![p] = <<>>]
    /\ added' = [added EXCEPT ![o] = added[p], ![p] = {}]
    /\ UNCHANGED state

Next ==
    \/ \E g \in Given : Settle(g)
    \/ \E o \in Objects :
         \/ isReady(o) \/ cleanup(o) \/ getFuture(o)
         \/ \E g \in Given, always \in BOOLEAN : add(o, {g}, always)
         \/ \E p \in Objects : addAnd(o, p) \/ Assign(o, p) \/ Move(o, p)

Spec == Init /\ [][Next]_vars

-----------------------------------------------------------------------------
(***************************************************************************)
(* What an AndFuture says is about everything it was given, whatever it    *)
(* has forgotten: it is in error exactly if one of them is, and the future *)
(* it returns succeeds exactly when all of them have.                      *)
(***************************************************************************)
NothingForgotten ==
    \A o \in Objects :
        /\ isError(o) <=> IsError(added[o])
        /\ Ok(Result(futures[o])) <=> Ok(added[o])

(***************************************************************************)
(* isReady() never says that all is done while a future that was given is  *)
(* pending, unless that future is part of a waitForAll that has failed.    *)
(***************************************************************************)
ReadyIsTrue ==
    \A o \in Objects : \A g \in added[o] :
        (state[g] = "pending" /\ ~AfterIsReady(futures[o]).stop)
            => \E i \in DOMAIN futures[o] : g \in futures[o][i] /\ IsError(futures[o][i])

(***************************************************************************)
(* cleanup() leaves nothing that could be forgotten, so that an object     *)
(* that is given new futures for ever and cleaned up stays small.          *)
(***************************************************************************)
CleanupCleans ==
    \A o \in Objects : \A f \in ToSet(AfterCleanup(futures[o])) : ~Ok(f)

(***************************************************************************)
(* An AndFuture answers for everything it was given, and stays small.      *)
(***************************************************************************)
AndFutureRight == NothingForgotten /\ ReadyIsTrue /\ CleanupCleans
=============================================================================
