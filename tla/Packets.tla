------------------------------- MODULE Packets -------------------------------
(***************************************************************************)
(* Packet buffers (flow/Net2Packet.h, flow/Net2Packet.cpp, PacketWriter    *)
(* and PacketBuffer in flow/serialize.h): packets are written into a chain *)
(* of reference-counted buffers from which a connection sends; reliable    *)
(* packets also refer to the bytes until they are acknowledged, and are    *)
(* compacted into a new chain when the connection is made anew.            *)
(*                                                                         *)
(* The transport that uses them is not in the repository; its steps follow *)
(* the comments of the classes.  A byte is a number of its own.            *)
(***************************************************************************)
EXTENDS Integers, Sequences, SequencesExt, FiniteSets, FiniteSetsExt

CONSTANTS DATA_SIZE,   \* of a buffer, in bytes
          Buffers,     \* buffers there can be
          MaxPacket,   \* bound on the length of a packet
          MaxPackets,  \* bound on the packets
          MaxConnects  \* bound on the new connections

\* What the constants have to be.
PacketsAssumption ==
    /\ DATA_SIZE \in Nat \ {0} /\ {MaxPacket, MaxPackets, MaxConnects} \subseteq Nat
    /\ Buffers \subseteq Nat \ {0} /\ IsFiniteSet(Buffers)

VARIABLES
    heap,          \* the buffers: their bytes, how many are sent, next, reference count
    unsent_first, unsent_last,
    reliable,      \* the reliable packets: their bytes and the pieces that hold them
    wire,          \* bytes sent on this connection
    stream,        \* bytes this connection has to send
    nbytes, npackets, nconnects

vars == <<heap, unsent_first, unsent_last, reliable, wire, stream, nbytes, npackets, nconnects>>

NoBuffer == [data |-> <<>>, sent |-> 0, next |-> 0, refs |-> 0]
NewBuffer == [data |-> <<>>, sent |-> 0, next |-> 0, refs |-> 1]

Init ==
    /\ heap = [b \in Buffers |-> NoBuffer] /\ unsent_first = 0 /\ unsent_last = 0
    /\ reliable = <<>> /\ wire = <<>> /\ stream = <<>> /\ nbytes = 0 /\ npackets = 0 /\ nconnects = 0

Free(h) == {b \in Buffers : h[b].refs = 0}
Fresh(h) == Min(Free(h))
Enough == Cardinality(Free(heap)) > MaxPacket \div DATA_SIZE + 1

delref(h, b) == IF h[b].refs = 1 THEN [h EXCEPT ![b] = NoBuffer] ELSE [h EXCEPT ![b].refs = @ - 1]

addref(h, b) == [h EXCEPT ![b].refs = @ + 1]

\* Bytes begin..end-1 of a buffer; those of a freed one are anybody's.
BytesOf(h, b, begin, end) ==
    [i \in 1..(end - begin) |-> IF begin + i \in DOMAIN h[b].data THEN h[b].data[begin + i] ELSE 0]

Full(h, b) == Len(h[b].data) = DATA_SIZE

-----------------------------------------------------------------------------
(***************************************************************************)
(* PacketWriter: w has the heap, the current buffer and, if it is          *)
(* reliable, the packet's pieces.                                          *)
(***************************************************************************)
Piece(b, begin, end) == [buffer |-> b, begin |-> begin, end |-> end]

WriterInit(h, b, rel) ==
    [h |-> IF rel THEN addref(h, b) ELSE h, buffer |-> b, rel |-> rel,
     pieces |-> IF rel THEN <<Piece(b, Len(h[b].data), Len(h[b].data))>> ELSE <<>>]

Linked(h, b, n) == [h EXCEPT ![b].next = n, ![n] = NewBuffer]

nextBuffer(w) ==
    LET n == Fresh(w.h) IN
    [w EXCEPT !.h = IF w.rel THEN addref(Linked(w.h, w.buffer, n), n) ELSE Linked(w.h, w.buffer, n),
              !.buffer = n,
              !.pieces = IF w.rel THEN Append([@ EXCEPT ![Len(@)].end = DATA_SIZE], Piece(n, 0, 0)) ELSE @]

\* Bytes go into the buffer, across the boundary to a new one if there are
\* more than it has room for.
PutByte(w, x) ==
    LET w1 == IF Full(w.h, w.buffer) THEN nextBuffer(w) ELSE w IN
    [w1 EXCEPT !.h[w1.buffer].data = Append(@, x)]

Finish(w) == IF w.rel THEN [w EXCEPT !.pieces[Len(w.pieces)].end = Len(w.h[w.buffer].data)] ELSE w

WritePacket(h, b, rel, bytes) == Finish(FoldLeft(PutByte, WriterInit(h, b, rel), bytes))

-----------------------------------------------------------------------------
(***************************************************************************)
(* getWriteBuffer, a packet, setWriteBuffer, and insert if it is reliable. *)
(***************************************************************************)
Write(rel, n) ==
    /\ Enough /\ npackets < MaxPackets /\ npackets' = npackets + 1 /\ nbytes' = nbytes + n
    /\ \E bytes \in {[k \in 1..n |-> nbytes + k]} :
       \E b \in {IF unsent_last = 0 THEN Fresh(heap) ELSE unsent_last} :
       \E w \in {WritePacket(IF unsent_last = 0 THEN [heap EXCEPT ![b] = NewBuffer] ELSE heap,
                             b, rel, bytes)} :
         /\ heap' = w.h /\ unsent_last' = w.buffer
         /\ unsent_first' = IF unsent_last = 0 THEN b ELSE unsent_first
         /\ reliable' = IF rel THEN Append(reliable, [bytes |-> bytes, pieces |-> w.pieces])
                        ELSE reliable
         /\ stream' = stream \o bytes
    /\ UNCHANGED <<wire, nconnects>>

\* prependWriteBuffer of a connect packet, before anything was sent.
Prepend ==
    /\ Enough /\ wire = <<>> /\ npackets < MaxPackets /\ npackets' = npackets + 1
    /\ nbytes' = nbytes + 1
    /\ \E b \in {Fresh(heap)} : \E w \in {WritePacket([heap EXCEPT ![b] = NewBuffer], b, FALSE, <<nbytes'>>)} :
         /\ heap' = [w.h EXCEPT ![w.buffer].next = unsent_first]
         /\ unsent_first' = b
         /\ unsent_last' = IF unsent_last = 0 THEN w.buffer ELSE unsent_last
    /\ stream' = <<nbytes'>> \o stream
    /\ UNCHANGED <<reliable, wire, nconnects>>

-----------------------------------------------------------------------------
(***************************************************************************)
(* sent(bytes): buffers that are sent, and will not be written to any      *)
(* more, leave the chain.                                                  *)
(***************************************************************************)
Stays(b, bytes) ==
    /\ b.sent + bytes <= Len(b.data)
    /\ b.sent + bytes # Len(b.data) \/ (b.next = 0 /\ Len(b.data) < DATA_SIZE)

RECURSIVE SentFrom(_, _, _)
SentFrom(h, first, bytes) ==
    IF bytes = 0 THEN [h |-> h, first |-> first]
    ELSE IF Stays(h[first], bytes) THEN [h |-> [h EXCEPT ![first].sent = @ + bytes], first |-> first]
    ELSE SentFrom(delref([h EXCEPT ![first].sent = Len(h[first].data)], first), h[first].next,
                  bytes - (Len(h[first].data) - h[first].sent))

RECURSIVE Chain(_, _)
Chain(h, b) == IF b = 0 THEN <<>> ELSE <<b>> \o Chain(h, h[b].next)

\* The bytes that are still to be sent.
UnsentBytes(h, first) ==
    FlattenSeq([n \in DOMAIN Chain(h, first) |->
                  SubSeq(h[Chain(h, first)[n]].data, h[Chain(h, first)[n]].sent + 1,
                         Len(h[Chain(h, first)[n]].data))])

LastAfter(first) == IF first = 0 THEN 0 ELSE unsent_last

Send(bytes) ==
    /\ bytes <= Len(UnsentBytes(heap, unsent_first))
    /\ wire' = wire \o SubSeq(UnsentBytes(heap, unsent_first), 1, bytes)
    /\ \E s \in {SentFrom(heap, unsent_first, bytes)} :
         /\ heap' = s.h /\ unsent_first' = s.first
         /\ unsent_last' = LastAfter(s.first)
    /\ UNCHANGED <<reliable, stream, nbytes, npackets, nconnects>>

\* ReliablePacket::remove, when the packet is acknowledged or given up.
RemovePacket(n) ==
    /\ heap' = FoldLeft(LAMBDA h, c : delref(h, c.buffer), heap, reliable[n].pieces)
    /\ reliable' = RemoveAt(reliable, n)
    /\ UNCHANGED <<unsent_first, unsent_last, wire, stream, nbytes, npackets, nconnects>>

-----------------------------------------------------------------------------
(***************************************************************************)
(* ReliablePacketList::compact(into, stopAt).  s has the heap, into, the   *)
(* pieces done of the current packet and whether it stopped.               *)
(***************************************************************************)
Room(s) ==
    IF ~Full(s.h, s.into) THEN s
    ELSE [s EXCEPT !.h = Linked(s.h, s.into, Fresh(s.h)), !.into = Fresh(s.h)]

\* Fault: the rest of a piece that is split shares its reference.
SplitRefNot(h, b, rest) == h

SplitRef(h, b, rest) == IF rest THEN addref(h, b) ELSE h

\* Piece c, of which len bytes fit.
Moved(s, c, len) ==
    LET h1 == SplitRef(s.h, c.buffer, len < c.end - c.begin)
        h2 == addref(delref(h1, c.buffer), s.into)
        at == Len(s.h[s.into].data)
    IN [s EXCEPT !.h = [h2 EXCEPT ![s.into].data = @ \o BytesOf(s.h, c.buffer, c.begin, c.begin + len)],
                 !.pieces = Append(@, Piece(s.into, at, at + len))]

RECURSIVE CompactPieces(_, _, _)
CompactPieces(s, todo, stopAt) ==
    IF todo = <<>> THEN s
    ELSE IF s.stopped \/ Head(todo).buffer = stopAt
    THEN [s EXCEPT !.stopped = TRUE, !.pieces = @ \o todo]
    ELSE LET s1 == Room(s)
             c == Head(todo)
             room == DATA_SIZE - Len(s1.h[s1.into].data)
         IN IF c.end - c.begin <= room
            THEN CompactPieces(Moved(s1, c, c.end - c.begin), Tail(todo), stopAt)
            ELSE CompactPieces(Moved(s1, c, room),
                               <<[c EXCEPT !.begin = @ + room]>> \o Tail(todo), stopAt)

CompactPacket(s, p, stopAt) ==
    LET t == CompactPieces([s EXCEPT !.pieces = <<>>], p.pieces, stopAt)
    IN [t EXCEPT !.packets = Append(@, [p EXCEPT !.pieces = t.pieces])]

compact(h, into, stopAt) ==
    FoldLeft(LAMBDA s, p : CompactPacket(s, p, stopAt),
             [h |-> h, into |-> into, pieces |-> <<>>, stopped |-> FALSE, packets |-> <<>>], reliable)

RECURSIVE Discarded(_, _)
Discarded(h, b) == IF b = 0 THEN h ELSE Discarded(delref(h, b), h[b].next)

ReliableBytes == FlattenSeq([n \in DOMAIN reliable |-> reliable[n].bytes])
Roomy == Cardinality(Free(heap)) > Len(ReliableBytes) \div DATA_SIZE + 1

\* A new connection: what is unsent is discarded, and the reliable packets
\* are to be sent again.
Reconnect ==
    /\ Roomy /\ nconnects < MaxConnects /\ nconnects' = nconnects + 1
    /\ \E h \in {Discarded(heap, unsent_first)} :
         IF reliable = <<>> THEN heap' = h /\ unsent_first' = 0 /\ unsent_last' = 0 /\ UNCHANGED reliable
         ELSE \E b \in {Fresh(h)} : \E s \in {compact([h EXCEPT ![b] = NewBuffer], b, 0)} :
                /\ heap' = s.h /\ unsent_first' = b /\ unsent_last' = s.into
                /\ reliable' = s.packets
    /\ wire' = <<>> /\ stream' = ReliableBytes
    /\ UNCHANGED <<nbytes, npackets>>

\* The reliable packets that have been sent are compacted into buffers of
\* their own, which only they refer to.
CompactSent ==
    /\ Roomy /\ reliable # <<>> /\ nconnects < MaxConnects /\ nconnects' = nconnects + 1
    /\ \E b \in {Fresh(heap)} :
       \E s \in {compact([heap EXCEPT ![b] = NewBuffer], b, unsent_first)} :
         heap' = Discarded(s.h, b) /\ reliable' = s.packets
    /\ UNCHANGED <<unsent_first, unsent_last, wire, stream, nbytes, npackets>>

Next ==
    \/ \E rel \in BOOLEAN, n \in 1..MaxPacket : Write(rel, n)
    \/ \E n \in 1..(MaxPacket * MaxPackets) : Send(n)
    \/ \E n \in DOMAIN reliable : RemovePacket(n)
    \/ Prepend \/ Reconnect \/ CompactSent

Spec == Init /\ [][Next]_vars

-----------------------------------------------------------------------------
(***************************************************************************)
(* What was sent and what is in the unsent range are together what the     *)
(* connection has to send, in order: nothing is sent twice or forgotten.   *)
(***************************************************************************)
SendsTheStream == wire \o UnsentBytes(heap, unsent_first) = stream

(***************************************************************************)
(* The pieces of a reliable packet hold its bytes, however often they were *)
(* split and moved.                                                        *)
(***************************************************************************)
PacketsIntact ==
    \A n \in DOMAIN reliable :
      FlattenSeq([k \in DOMAIN reliable[n].pieces |->
          BytesOf(heap, reliable[n].pieces[k].buffer, reliable[n].pieces[k].begin,
                  reliable[n].pieces[k].end)]) = reliable[n].bytes

(***************************************************************************)
(* A buffer has a reference for its place in the unsent range and for each *)
(* piece in it: none is freed early and none is left over.                 *)
(***************************************************************************)
Held(b) == Cardinality({<<n, k>> \in (DOMAIN reliable) \X (1..(MaxPacket + DATA_SIZE)) :
                          k \in DOMAIN reliable[n].pieces /\ reliable[n].pieces[k].buffer = b})
ReferencesExact ==
    \A b \in Buffers :
      heap[b].refs = Held(b) + IF b \in ToSet(Chain(heap, unsent_first)) THEN 1 ELSE 0

(***************************************************************************)
(* All of this at once, across reconnects.                                 *)
(***************************************************************************)
PacketsRight == SendsTheStream /\ PacketsIntact /\ ReferencesExact
=============================================================================
