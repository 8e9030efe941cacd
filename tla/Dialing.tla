------------------------------ MODULE Dialing -------------------------------
(***************************************************************************)
(* How Net2 makes connections: connect by name (network.cpp), the resolver,*)
(* Connection::connect, listen, Listener::accept, and the cache of         *)
(* isAddressOnThisHost (Net2.actor.cpp).  The reactor first completes an   *)
(* asynchronous operation and runs its handler later; an accept that       *)
(* completes writes into the state of the actor that started it.           *)
(***************************************************************************)
EXTENDS Integers, Sequences, FiniteSets

CONSTANTS Dialers,     \* each connects by name, once
          Addresses,   \* the addresses isAddressOnThisHost is asked about
          MaxFound,    \* a bound on how many addresses a name has
          CacheLimit   \* 50000 in the code

\* What the constants have to be.
DialingAssumption == CacheLimit \in Nat /\ MaxFound \in Nat /\ IsFiniteSet(Dialers) /\ IsFiniteSet(Addresses)

VARIABLES
    dial,      \* of each dialer: where its call is
    answer,    \* of each dialer, how many addresses the resolver has found
    picked,    \* of each dialer, the index it took and the number there were
    socket,    \* of each dialer: "none", "connecting", "connected" or "closed"
    backlog,   \* connections the system has made for the listener, not yet accepted
    listener,  \* "none", "open", "unused" (its user is done with it), "done" (destroyed),
               \* or the error listen() threw
    accept,    \* the accept actor: "none", "waiting", or "ended", its state destroyed
    acceptOp,  \* the asynchronous accept: "none", "waiting", "ok", "error" or "aborted"
    wild,      \* a handler has written into an actor state that was destroyed
    cache      \* addressOnHostCache

dialing == <<dial, answer, picked, socket>>
listening == <<listener, accept, acceptOp, wild>>
vars == <<dialing, backlog, listening, cache>>

Unpicked == [index |-> 0, count |-> 1]

Init ==
    /\ dial = [d \in Dialers |-> "idle"] /\ answer = [d \in Dialers |-> 0]
    /\ picked = [d \in Dialers |-> Unpicked] /\ socket = [d \in Dialers |-> "none"]
    /\ backlog = <<>> /\ listener = "none" /\ accept = "none" /\ acceptOp = "none" /\ wild = FALSE
    /\ cache = <<>>

-----------------------------------------------------------------------------
(* Connecting by name.                                                     *)

Resolve(d) ==
    /\ dial[d] = "idle" /\ dial' = [dial EXCEPT ![d] = "resolving"]
    /\ UNCHANGED <<answer, picked, socket, backlog, listening, cache>>

\* async_resolve completes, with an error or with at most MaxFound addresses.
ResolveCompletes(d) ==
    /\ dial[d] = "resolving"
    /\ \/ dial' = [dial EXCEPT ![d] = "lookup error"] /\ UNCHANGED answer
       \/ \E n \in 0..MaxFound : dial' = [dial EXCEPT ![d] = "lookup done"] /\ answer' = [answer EXCEPT ![d] = n]
    /\ UNCHANGED <<picked, socket, backlog, listening, cache>>

LookupFailed(d) == dial[d] = "lookup error" \/ answer[d] = 0

\* The handler sends the addresses or lookup_failed; the actor returns what it
\* got, one address is chosen at random, and connect() is called with it.
Resolved(d) ==
    /\ dial[d] \in {"lookup error", "lookup done"}
    /\ IF LookupFailed(d)
       THEN dial' = [dial EXCEPT ![d] = "failed"] /\ UNCHANGED <<picked, socket>>
       ELSE /\ \E i \in 0..(IF answer[d] = 0 THEN 0 ELSE answer[d] - 1) :
                 picked' = [picked EXCEPT ![d] = [index |-> i, count |-> answer[d]]]
            /\ dial' = [dial EXCEPT ![d] = "connecting"] /\ socket' = [socket EXCEPT ![d] = "connecting"]
    /\ UNCHANGED <<answer, backlog, listening, cache>>

\* async_connect completes: in the system the connection is made, or not.
ConnectCompletes(d) ==
    /\ dial[d] = "connecting"
    /\ \/ /\ listener \in {"open", "unused"} /\ dial' = [dial EXCEPT ![d] = "connect done"]
          /\ socket' = [socket EXCEPT ![d] = "connected"] /\ backlog' = Append(backlog, d)
       \/ dial' = [dial EXCEPT ![d] = "connect error"] /\ UNCHANGED <<socket, backlog>>
    /\ UNCHANGED <<answer, picked, listening, cache>>

\* Fault: the socket is closed when the connection failed, and not when its
\* caller gave up.
CatchFailureOnly(d, outcome) ==
    /\ dial' = [dial EXCEPT ![d] = outcome]
    /\ socket' = [socket EXCEPT ![d] = IF @ = "none" \/ outcome = "cancelled" THEN @ ELSE "closed"]

\* The catch of Connection::connect: closeSocket, and rethrow.
Catch(d, outcome) ==
    /\ dial' = [dial EXCEPT ![d] = outcome]
    /\ socket' = [socket EXCEPT ![d] = IF @ = "none" THEN @ ELSE "closed"]

Connected(d) ==
    /\ \/ dial[d] = "connect done" /\ dial' = [dial EXCEPT ![d] = "connected"] /\ UNCHANGED socket
       \/ dial[d] = "connect error" /\ Catch(d, "failed")
    /\ UNCHANGED <<answer, picked, backlog, listening, cache>>

\* The caller drops its future: every actor of the chain is cancelled.  The
\* handler of the operation that is under way will find nobody to tell.
CancelDial(d) ==
    /\ dial[d] \notin {"idle", "connected", "failed", "cancelled"} /\ Catch(d, "cancelled")
    /\ UNCHANGED <<answer, picked, backlog, listening, cache>>

-----------------------------------------------------------------------------
(* Listening.                                                              *)

ListenError(code) ==
    CASE code = "EADDRINUSE" -> "address_in_use"
      [] code = "EADDRNOTAVAIL" -> "invalid_local_address"
      [] OTHER -> "bind_failed"

Listen ==
    /\ listener = "none"
    /\ \/ listener' = "open"
       \/ \E code \in {"EADDRINUSE", "EADDRNOTAVAIL", "EACCES"} : listener' = ListenError(code)
    /\ UNCHANGED <<dialing, backlog, accept, acceptOp, wild, cache>>

\* doAccept: the connection, and the peer's endpoint, are state of the actor.
\* One accept at a time, and none after one was cancelled, as network.h asks.
doAccept ==
    /\ listener = "open" /\ accept # "waiting"
    /\ accept' = "waiting" /\ acceptOp' = "waiting"
    /\ UNCHANGED <<dialing, backlog, listener, wild, cache>>

\* async_accept completes; the reactor takes the connection from the system.
AcceptCompletes ==
    /\ acceptOp = "waiting" /\ listener \in {"open", "unused"}
    /\ \/ backlog # <<>> /\ backlog' = Tail(backlog) /\ acceptOp' = "ok"
       \/ acceptOp' = "error" /\ UNCHANGED backlog
    /\ UNCHANGED <<dialing, listener, accept, wild, cache>>

\* asio assigns the new socket to conn, and the handler, a BindPromise, tells
\* the actor, if it is still there, which returns the connection or closes it.
Accepted ==
    /\ acceptOp \in {"ok", "error", "aborted"} /\ acceptOp' = "none" /\ accept' = "ended"
    /\ wild' = (wild \/ (acceptOp = "ok" /\ accept = "ended"))
    /\ UNCHANGED <<dialing, backlog, listener, cache>>

\* The caller drops the future of its accept: "Do not cancel unless you are
\* done with the listener!".  The catch closes conn, which is not open yet;
\* nothing recalls the operation, which may be anywhere in the reactor.
CancelAccept ==
    /\ listener = "open" /\ accept = "waiting" /\ accept' = "ended" /\ listener' = "unused"
    /\ UNCHANGED <<dialing, backlog, acceptOp, wild, cache>>

\* The last reference to the listener goes: its acceptor aborts the operation,
\* if that has not completed.
DropListener ==
    /\ listener \in {"open", "unused"} /\ listener' = "done"
    /\ acceptOp' = IF acceptOp = "waiting" THEN "aborted" ELSE acceptOp
    /\ UNCHANGED <<dialing, backlog, accept, wild, cache>>

-----------------------------------------------------------------------------
(* isAddressOnThisHost.                                                    *)

Bounded(c) == IF Cardinality(DOMAIN c) > CacheLimit THEN <<>> ELSE c

\* An address that is not cached is looked up; an error is cached as FALSE.
isAddressOnThisHost(a) ==
    /\ a \notin DOMAIN cache
    /\ \E local \in BOOLEAN :
         cache' = [x \in DOMAIN Bounded(cache) \cup {a} |-> IF x = a THEN local ELSE cache[x]]
    /\ UNCHANGED <<dialing, backlog, listening>>

Next ==
    \/ \E d \in Dialers : \/ Resolve(d) \/ ResolveCompletes(d) \/ Resolved(d)
                          \/ ConnectCompletes(d) \/ Connected(d) \/ CancelDial(d)
    \/ Listen \/ doAccept \/ AcceptCompletes \/ Accepted \/ CancelAccept \/ DropListener
    \/ \E a \in Addresses : isAddressOnThisHost(a)

Spec == Init /\ [][Next]_vars

-----------------------------------------------------------------------------
(***************************************************************************)
(* The random choice of connect() is among at least one address: the       *)
(* resolver never answers with an empty list.                              *)
(***************************************************************************)
PickInRange == \A d \in Dialers : picked[d].index < picked[d].count

(***************************************************************************)
(* Wherever the caller gives up or an operation fails, no socket is left   *)
(* open: a socket is open only while its call is under way or once the     *)
(* call has returned the connection, which is then connected.              *)
(***************************************************************************)
SocketsSettled ==
    \A d \in Dialers :
      /\ dial[d] = "connected" => socket[d] = "connected"
      /\ dial[d] \in {"failed", "cancelled"} => socket[d] \in {"none", "closed"}
      /\ socket[d] = "connected" => dial[d] \in {"connect done", "connected"}

(***************************************************************************)
(* No completion of an accept writes into the connection of an actor that  *)
(* was cancelled.  It does not hold: the caller may be done with the       *)
(* listener, and cancel, when the operation has completed and its handler  *)
(* has not run, or keep the listener, or drop it afterwards.               *)
(***************************************************************************)
NoWildAccept == ~wild

(***************************************************************************)
(* The memory of isAddressOnThisHost is bounded, by one entry more than    *)
(* the limit.                                                              *)
(***************************************************************************)
CacheBounded == Cardinality(DOMAIN cache) <= CacheLimit + 1

(***************************************************************************)
(* All of this at once.                                                    *)
(***************************************************************************)
DialingSafe == PickInRange /\ SocketsSettled /\ CacheBounded
=============================================================================
