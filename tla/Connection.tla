----------------------------- MODULE Connection -----------------------------
(***************************************************************************)
(* Connection of Net2.actor.cpp, with both of its ends: each end writes a  *)
(* chain of SendBuffers when onWritable says so and reads when onReadable  *)
(* says so.  An answer to a probe waits in the reactor while other code    *)
(* runs, so that it may be stale when it is delivered.  The byte of an     *)
(* end's chain is its position in it.                                      *)
(***************************************************************************)
EXTENDS Integers, SequencesExt

CONSTANTS Chain,     \* of each end, the sizes of the buffers it has to write
          Limits,    \* the limits write() is called with
          ReadSizes, \* the sizes of the buffers read() is called with
          Room,      \* what the system buffers in one direction
          MayClose,  \* the ends that may call close()
          MayBreak   \* whether the network may break the connection

Ends == {"a", "b"}
Kinds == {"read", "write"}
Peer(e) == CHOOSE f \in Ends : f # e

\* What the constants have to be.
ConnectionAssumption ==
    /\ Chain \in [Ends -> Seq(Nat)] /\ Limits \subseteq Nat \ {0} /\ ReadSizes \subseteq Nat \ {0}
    /\ Limits # {} /\ ReadSizes # {}
    /\ Room \in Nat \ {0} /\ MayClose \subseteq Ends /\ MayBreak \in BOOLEAN

VARIABLES
    socket,    \* of each end: "open" or "closed"
    broken,    \* the ends at which the system knows that the connection is dead
    loop,      \* of each end's reader and writer: "idle", "probing", "ready" or "failed"
    ops,       \* the probes the reactor waits for: pairs <<end, kind>>
    handlers,  \* completed, not yet delivered: [probe, ok]
    sent,      \* bytes_sent of each buffer
    wire,      \* bytes an end has written that its peer has not read
    received   \* bytes an end has read

vars == <<socket, broken, loop, ops, handlers, sent, wire, received>>

\* A connected pair: init() has made both sockets non-blocking.
Init ==
    /\ socket = [e \in Ends |-> "open"] /\ broken = {}
    /\ loop = [e \in Ends |-> [k \in Kinds |-> "idle"]] /\ ops = {} /\ handlers = {}
    /\ sent = [e \in Ends |-> [i \in DOMAIN Chain[e] |-> 0]]
    /\ wire = [e \in Ends |-> <<>>] /\ received = [e \in Ends |-> <<>>]

-----------------------------------------------------------------------------
(* The chain of SendBuffers.                                               *)

SumUpTo(f, n) == FoldFunctionOnSet(LAMBDA x, y : x + y, 0, f, 1..n)
Unsent(e) == [i \in DOMAIN Chain[e] |-> Chain[e][i] - sent[e][i]]
HasUnsent(e) == \E i \in DOMAIN Chain[e] : Unsent(e)[i] > 0
AllBytes(e) == [k \in 1..SumUpTo(Chain[e], Len(Chain[e])) |-> k]

\* Fault: the data of a buffer begins at its beginning.
PieceFromStart(e, i, limit) ==
    [k \in 1..(IF limit < Unsent(e)[i] THEN limit ELSE Unsent(e)[i]) |-> SumUpTo(Chain[e], i - 1) + k]

\* SendBufferIterator::operator*
Piece(e, i, limit) ==
    [k \in 1..(IF limit < Unsent(e)[i] THEN limit ELSE Unsent(e)[i]) |-> SumUpTo(Chain[e], i - 1) + sent[e][i] + k]

\* SendBufferIterator::operator++: the limit that is left at buffer i; the
\* iteration has ended before i if there is none.
LimitAt(e, i, limit) == limit - SumUpTo(Unsent(e), i - 1)

Gather(e, limit) ==
    FlattenSeq([i \in DOMAIN Chain[e] |->
        IF LimitAt(e, i, limit) > 0 THEN Piece(e, i, LimitAt(e, i, limit)) ELSE <<>>])

\* UnsentPacketQueue::sent: the caller marks n bytes as sent, from the first
\* buffer on.
Marked(e, n) ==
    [i \in DOMAIN Chain[e] |->
        LET left == n - SumUpTo(Unsent(e), i - 1)
        IN  sent[e][i] + (IF left < 0 THEN 0 ELSE IF left < Unsent(e)[i] THEN left ELSE Unsent(e)[i])]

-----------------------------------------------------------------------------
(* Probes.                                                                 *)

\* onReadable and onWritable; a writer probes only while it has unsent bytes.
Probe(e, k) ==
    /\ loop[e][k] = "idle" /\ (k = "write" => HasUnsent(e))
    /\ loop' = [loop EXCEPT ![e][k] = "probing"]
    /\ IF socket[e] = "open"
       THEN ops' = ops \cup {<<e, k>>} /\ UNCHANGED handlers
       ELSE handlers' = handlers \cup {[probe |-> <<e, k>>, ok |-> FALSE]} /\ UNCHANGED ops
    /\ UNCHANGED <<socket, broken, sent, wire, received>>

CanWrite(e) == Len(wire[e]) < Room \/ e \in broken
CanRead(e) == wire[Peer(e)] # <<>> \/ socket[Peer(e)] = "closed" \/ e \in broken

\* The reactor finds the socket ready.  A dead connection is ready too.
Completes(e, k) ==
    /\ <<e, k>> \in ops /\ IF k = "read" THEN CanRead(e) ELSE CanWrite(e)
    /\ ops' = ops \ {<<e, k>>} /\ handlers' = handlers \cup {[probe |-> <<e, k>>, ok |-> TRUE]}
    /\ UNCHANGED <<socket, broken, loop, sent, wire, received>>

\* BindPromise::operator(): the probe's future gets a value or connection_failed.
BindPromise(h) ==
    /\ handlers' = handlers \ {h}
    /\ loop' = [loop EXCEPT ![h.probe[1]][h.probe[2]] = IF h.ok THEN "ready" ELSE "failed"]
    /\ UNCHANGED <<socket, broken, ops, sent, wire, received>>

-----------------------------------------------------------------------------
(* Reading, writing and closing.                                           *)

\* closeSocket: asio aborts the operations that are still waiting.
closeSocket(e) ==
    /\ socket' = [socket EXCEPT ![e] = "closed"]
    /\ ops' = {o \in ops : o[1] # e}
    /\ handlers' = handlers \cup {[probe |-> o, ok |-> FALSE] : o \in {o \in ops : o[1] = e}}

close(e) ==
    /\ e \in MayClose /\ socket[e] = "open" /\ closeSocket(e)
    /\ UNCHANGED <<broken, loop, sent, wire, received>>

\* Fault: an error leaves the socket open.
OnErrorOpen(e) == UNCHANGED <<socket, ops, handlers>>

\* onReadError and onWriteError
OnError(e) == closeSocket(e)

Throws(e, k) ==
    /\ loop' = [loop EXCEPT ![e][k] = "failed"] /\ OnError(e)
    /\ UNCHANGED <<broken, sent, wire, received>>

Dead(e) == socket[e] = "closed" \/ e \in broken

\* The end of the stream is an error; would_block is not.
ReadError(e) == Dead(e) \/ (wire[Peer(e)] = <<>> /\ socket[Peer(e)] = "closed")

\* The reader goes on reading until it gets 0, and then probes again; so does
\* the writer, while it has unsent bytes.
read(e, size) ==
    /\ loop[e]["read"] = "ready"
    /\ \/ ReadError(e) /\ Throws(e, "read")
       \/ /\ ~ReadError(e)
          /\ \/ /\ wire[Peer(e)] = <<>> /\ loop' = [loop EXCEPT ![e]["read"] = "idle"]
                /\ UNCHANGED <<wire, received>>
             \/ \E n \in 1..size :
                  /\ n <= Len(wire[Peer(e)]) /\ UNCHANGED loop
                  /\ received' = [received EXCEPT ![e] = @ \o SubSeq(wire[Peer(e)], 1, n)]
                  /\ wire' = [wire EXCEPT ![Peer(e)] = SubSeq(@, n + 1, Len(@))]
          /\ UNCHANGED <<socket, broken, ops, handlers, sent>>

\* The system takes any part of what fits; the caller marks it as sent.
write(e, limit) ==
    /\ loop[e]["write"] = "ready" /\ HasUnsent(e)
    /\ \/ Dead(e) /\ Throws(e, "write")
       \/ /\ ~Dead(e)
          /\ \/ /\ Len(wire[e]) = Room /\ loop' = [loop EXCEPT ![e]["write"] = "idle"]
                /\ UNCHANGED <<wire, sent>>
             \/ \E n \in 1..Len(Gather(e, limit)) :
                  /\ n <= Room - Len(wire[e]) /\ UNCHANGED loop
                  /\ wire' = [wire EXCEPT ![e] = @ \o SubSeq(Gather(e, limit), 1, n)]
                  /\ sent' = [sent EXCEPT ![e] = Marked(e, n)]
          /\ UNCHANGED <<socket, broken, ops, handlers, received>>

\* The connection dies: a reset after the peer has closed, or the network.
Breaks(e) ==
    /\ e \notin broken /\ (MayBreak \/ socket[Peer(e)] = "closed")
    /\ broken' = broken \cup {e}
    /\ UNCHANGED <<socket, loop, ops, handlers, sent, wire, received>>

\* The reader or the writer of an end: its probe begins and is answered, the
\* handler runs, and bytes move.
EndStep(e, k) ==
    \/ Probe(e, k) \/ Completes(e, k)
    \/ \E h \in handlers : h.probe = <<e, k>> /\ BindPromise(h)
    \/ k = "read" /\ \E size \in ReadSizes : read(e, size)
    \/ k = "write" /\ \E limit \in Limits : write(e, limit)

Next == \E e \in Ends : close(e) \/ Breaks(e) \/ \E k \in Kinds : EndStep(e, k)

Spec == Init /\ [][Next]_vars

-----------------------------------------------------------------------------
(***************************************************************************)
(* What an end has read, followed by what is on the wire, is what its peer *)
(* has marked as sent, which is a beginning of the peer's chain: no byte   *)
(* is lost, repeated or out of order, whatever the limits and however      *)
(* little a write or a read moves.                                         *)
(***************************************************************************)
StreamInOrder ==
    \A e \in Ends :
        /\ IsPrefix(received[e] \o wire[Peer(e)], AllBytes(Peer(e)))
        /\ Len(received[e] \o wire[Peer(e)]) = SumUpTo(sent[Peer(e)], Len(Chain[Peer(e)]))

(***************************************************************************)
(* A reader that got an error does not leave the writer of its end waiting *)
(* for ever, nor the other way round: the error closes the socket, which   *)
(* answers the other probe.  The network might never do so.                *)
(***************************************************************************)
Failed(e, k) == loop[e][k] = "failed"
Probing(e, k) == loop[e][k] = "probing"

(***************************************************************************)
(* While nobody closes and the network holds, everything that was to be    *)
(* written arrives: a probe answered too early only costs another probe.   *)
(***************************************************************************)
Arrived(e) == received[e] = AllBytes(Peer(e))
=============================================================================
