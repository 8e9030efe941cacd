------------------------------ MODULE FlowLock ------------------------------
(***************************************************************************)
(* FlowLock (flow/genericactors.actor.h): a lock with a number of permits, *)
(* taken with take(amount) and takeUpTo(amount), given back with           *)
(* release(amount), a Releaser or releaseWhen(signal).  Everything runs on *)
(* one thread; what interleaves is the waiting: a granted taker is resumed *)
(* only after a yield, and may be cancelled while it is queued or while it *)
(* already owns permits that its caller does not know about.               *)
(*                                                                         *)
(* release() is modelled with its loop: it makes the lock busy (granting)  *)
(* and each turn of the loop is a step; no other code runs in between.     *)
(***************************************************************************)
EXTENDS Integers, Sequences, SequencesExt, FiniteSets, TLC

CONSTANTS Clients,  \* the actors that use the lock
          permits,  \* FlowLock::permits
          Amounts,  \* what clients pass to take()
          UpTo      \* what clients pass to takeUpTo()

ASSUME LockAssumption ==
    /\ IsFiniteSet(Clients)
    /\ permits \in Nat \ {0}
    /\ Amounts \subseteq Nat \ {0}
    /\ UpTo \subseteq Nat \ {0}

VARIABLES
    alive,    \* FALSE once the lock is destroyed
    active,   \* FlowLock::active
    takers,   \* FlowLock::takers, by client; its amount is asked[client]
    granting, \* TRUE while the loop of release() runs
    stage,    \* where each client is: see Stages
    asked,    \* the amount a client's pending take() is for
    wanted,   \* *amount of a client's pending takeUpTo(), 0 for take()
    held      \* permits in active that belong to the client

vars == <<alive, active, takers, granting, stage, asked, wanted, held>>

(***************************************************************************)
(* idle; queued in takers; yielding between the grant and the return of    *)
(* take(); holding; delegated to releaseWhen; lost with a releaseWhen that *)
(* was cancelled; broken by the destruction of the lock.                   *)
(***************************************************************************)
Stages == {"idle", "queued", "yielding", "holding", "delegated", "lost", "broken"}

TypeOK ==
    /\ alive \in BOOLEAN
    /\ active \in Nat
    /\ takers \in Seq(Clients)
    /\ granting \in BOOLEAN
    /\ stage \in [Clients -> Stages]
    /\ asked \in [Clients -> Nat]
    /\ wanted \in [Clients -> Nat]
    /\ held \in [Clients -> Nat]

Init ==
    /\ alive = TRUE
    /\ active = 0
    /\ takers = <<>>
    /\ granting = FALSE
    /\ stage = [c \in Clients |-> "idle"]
    /\ asked = [c \in Clients |-> 0]
    /\ wanted = [c \in Clients |-> 0]
    /\ held = [c \in Clients |-> 0]

-----------------------------------------------------------------------------
Fits(amount) == active + amount <= permits \/ active = 0

(***************************************************************************)
(* take(amount), and the take() with which takeUpTo(amount) begins.        *)
(***************************************************************************)
Request(c, amount, upTo) ==
    /\ alive /\ ~granting
    /\ stage[c] = "idle"
    /\ asked' = [asked EXCEPT ![c] = amount]
    /\ wanted' = [wanted EXCEPT ![c] = upTo]
    /\ IF Fits(amount)
         THEN /\ active' = active + amount
              /\ held' = [held EXCEPT ![c] = amount]
              /\ stage' = [stage EXCEPT ![c] = "yielding"]
              /\ UNCHANGED takers
         ELSE /\ takers' = Append(takers, c)
              /\ stage' = [stage EXCEPT ![c] = "queued"]
              /\ UNCHANGED <<active, held>>
    /\ UNCHANGED <<alive, granting>>

Take(c) == \E amount \in Amounts : Request(c, amount, 0)

TakeUpTo(c) == \E amount \in UpTo : Request(c, 1, amount)

(***************************************************************************)
(* The yield or delay after the grant is over and take() returns;          *)
(* takeMoreActor then adds what is available, up to what it was asked for. *)
(***************************************************************************)
available == permits - active

TakeReturns(c) ==
    /\ alive /\ ~granting
    /\ stage[c] = "yielding"
    /\ stage' = [stage EXCEPT ![c] = "holding"]
    /\ LET extra == IF wanted[c] = 0 THEN 0
                    ELSE IF available < wanted[c] - 1 THEN available ELSE wanted[c] - 1
       IN  /\ active' = active + extra
           /\ held' = [held EXCEPT ![c] = @ + extra]
    /\ UNCHANGED <<alive, takers, granting, asked, wanted>>

-----------------------------------------------------------------------------
(***************************************************************************)
(* release(amount) of permits of client c, up to its loop.                 *)
(***************************************************************************)
release(c, amount) ==
    /\ active' = active - amount
    /\ held' = [held EXCEPT ![c] = @ - amount]
    /\ granting' = TRUE

(***************************************************************************)
(* A holder gives back some or all of its permits, directly or through a   *)
(* Releaser; with nothing left it is idle again.                           *)
(***************************************************************************)
Release(c) ==
    /\ alive /\ ~granting
    /\ stage[c] = "holding"
    /\ \E amount \in 1..held[c] :
         /\ release(c, amount)
         /\ stage' = [stage EXCEPT ![c] = IF amount = held[c] THEN "idle" ELSE "holding"]
    /\ UNCHANGED <<alive, takers, asked, wanted>>

(***************************************************************************)
(* releaseWhen(signal, amount) with all the permits of the holder.         *)
(***************************************************************************)
ReleaseWhen(c) ==
    /\ alive /\ ~granting
    /\ stage[c] = "holding"
    /\ stage' = [stage EXCEPT ![c] = "delegated"]
    /\ UNCHANGED <<alive, active, takers, granting, asked, wanted, held>>

SignalFires(c) ==
    /\ alive /\ ~granting
    /\ stage[c] = "delegated"
    /\ release(c, held[c])
    /\ stage' = [stage EXCEPT ![c] = "idle"]
    /\ UNCHANGED <<alive, takers, asked, wanted>>

(***************************************************************************)
(* The future of releaseWhen is dropped, or its signal is an error: the    *)
(* permits stay active and nobody owns them any more.                      *)
(***************************************************************************)
SignalLost(c) ==
    /\ alive /\ ~granting
    /\ stage[c] = "delegated"
    /\ stage' = [stage EXCEPT ![c] = "lost"]
    /\ UNCHANGED <<alive, active, takers, granting, asked, wanted, held>>

(***************************************************************************)
(* take() is cancelled while queued: the entry is erased and release(0)    *)
(* gives the takers behind it a chance.                                    *)
(***************************************************************************)
CancelQueued(c) ==
    /\ alive /\ ~granting
    /\ stage[c] = "queued"
    /\ \E i \in DOMAIN takers : takers[i] = c /\ takers' = RemoveAt(takers, i)
    /\ release(c, 0)
    /\ stage' = [stage EXCEPT ![c] = "idle"]
    /\ UNCHANGED <<alive, asked, wanted>>

\* Fault: a granted taker that is cancelled keeps its permits.
CancelYieldingKeeps(c) ==
    /\ alive /\ ~granting
    /\ stage[c] = "yielding"
    /\ stage' = [stage EXCEPT ![c] = "idle"]
    /\ held' = [held EXCEPT ![c] = 0]
    /\ UNCHANGED <<alive, active, takers, granting, asked, wanted>>

(***************************************************************************)
(* take() is cancelled during its yield: "we are holding the lock but the  *)
(* caller doesn't know, so release it".                                    *)
(***************************************************************************)
CancelYielding(c) ==
    /\ alive /\ ~granting
    /\ stage[c] = "yielding"
    /\ release(c, asked[c])
    /\ stage' = [stage EXCEPT ![c] = "idle"]
    /\ UNCHANGED <<alive, takers, asked, wanted>>

-----------------------------------------------------------------------------
(***************************************************************************)
(* One turn of the loop of release(): the first taker fits, and its        *)
(* takeActor runs up to its delay.                                         *)
(***************************************************************************)
GrantNext ==
    /\ granting /\ takers # <<>>
    /\ LET next == Head(takers)
       IN  /\ Fits(asked[next])
           /\ active' = active + asked[next]
           /\ held' = [held EXCEPT ![next] = asked[next]]
           /\ stage' = [stage EXCEPT ![next] = "yielding"]
    /\ takers' = Tail(takers)
    /\ UNCHANGED <<alive, granting, asked, wanted>>

\* Fault: the loop stops after a grant, an if in place of a while.
GrantStopsEarly ==
    /\ granting
    /\ granting' = FALSE
    /\ UNCHANGED <<alive, active, takers, stage, asked, wanted, held>>

GrantStop ==
    /\ granting
    /\ ~(takers # <<>> /\ Fits(asked[Head(takers)]))
    /\ granting' = FALSE
    /\ UNCHANGED <<alive, active, takers, stage, asked, wanted, held>>

(***************************************************************************)
(* ~FlowLock, which its users run only when nobody holds permits.          *)
(* broken_on_destruct makes every yielding taker release and fail, the     *)
(* takers this lets in fail on it too, and the promises left in takers     *)
(* break: all pending take()s end with broken_promise.                     *)
(***************************************************************************)
Destroy ==
    /\ alive /\ ~granting
    /\ \A c \in Clients : stage[c] \notin {"holding", "delegated"}
    /\ alive' = FALSE
    /\ active' = 0
    /\ takers' = <<>>
    /\ stage' = [c \in Clients |-> IF stage[c] \in {"queued", "yielding"}
                                   THEN "broken" ELSE "idle"]
    /\ held' = [c \in Clients |-> 0]
    /\ UNCHANGED <<granting, asked, wanted>>

ClientStep(c) ==
    \/ Take(c) \/ TakeUpTo(c) \/ TakeReturns(c)
    \/ Release(c) \/ ReleaseWhen(c) \/ SignalFires(c) \/ SignalLost(c)
    \/ CancelQueued(c) \/ CancelYielding(c)

\* What a client that was granted permits does in the end.
GoOn(c) == TakeReturns(c) \/ Release(c) \/ SignalFires(c)

LoopStep == GrantNext \/ GrantStop

Next == (\E c \in Clients : ClientStep(c)) \/ LoopStep \/ Destroy

Spec == Init /\ [][Next]_vars

\* Which client does what is of no account.
Symmetric == Permutations(Clients)

-----------------------------------------------------------------------------
(***************************************************************************)
(* Permits are conserved: active counts exactly the permits of the clients *)
(* that hold them or were granted them, through every cancellation.  The   *)
(* sum is written as the number of (client, permit) pairs.                 *)
(***************************************************************************)
Owned == {p \in Clients \X (1..active) : p[2] <= held[p[1]]}

Conserved ==
    /\ active = Cardinality(Owned)
    /\ \A c \in Clients : held[c] <= active

(***************************************************************************)
(* "There can be only a limited number of clients executing code between   *)
(* wait(take()) and release()": at most permits of them, and more permits  *)
(* than there are only ever go to one client alone.                        *)
(***************************************************************************)
Holders == {c \in Clients : held[c] > 0}

HolderLimit ==
    /\ Cardinality(Holders) <= permits
    /\ active > permits => \E c \in Clients : Holders = {c}

(***************************************************************************)
(* No lost wakeup: whenever the lock is at rest, the first taker waits     *)
(* because it does not fit, hence someone has permits to give back.        *)
(***************************************************************************)
NoLostWakeup ==
    (~granting /\ takers # <<>>) => /\ ~Fits(asked[Head(takers)])
                                    /\ Holders # {}

(***************************************************************************)
(* A client has permits exactly while it may use or must return them, and  *)
(* is listed in takers exactly once while it is queued.                    *)
(***************************************************************************)
StagesAgree ==
    \A c \in Clients :
        /\ (held[c] > 0) <=> stage[c] \in {"yielding", "holding", "delegated", "lost"}
        /\ stage[c] = "yielding" => held[c] = asked[c]
        /\ (stage[c] = "queued") <=> \E i \in DOMAIN takers : takers[i] = c
        /\ \A i, j \in DOMAIN takers : takers[i] = takers[j] => i = j

(***************************************************************************)
(* A taker in the queue waits (Queued), at the latest until the permits it *)
(* waits for come back, unless they were lost with a cancelled             *)
(* releaseWhen (PermitsLost).                                              *)
(***************************************************************************)
Queued(c) == stage[c] = "queued"
PermitsLost == \E d \in Clients : stage[d] = "lost"

(***************************************************************************)
(* All of this at once, through every cancellation.                        *)
(***************************************************************************)
LockSafe == TypeOK /\ Conserved /\ HolderLimit /\ NoLostWakeup /\ StagesAgree
=============================================================================
