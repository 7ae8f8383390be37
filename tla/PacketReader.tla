---------------------------- MODULE PacketReader ----------------------------
(***************************************************************************)
(* The reading side of one connection (IOCPSession.cpp): how the client's  *)
(* stream of bytes becomes packages.  A receive may bring any part of what *)
(* the client has sent; OnRecv reads the length from the first bytes and   *)
(* asks for the rest; RecvStandBy clears the buffer and asks for the next  *)
(* packet.  SendPacket, called by the contents process for its reply, ends *)
(* with a RecvStandBy too.                                                 *)
(*                                                                         *)
(* There are things this code does not survive: see Event.  The model      *)
(* names the first of them in "event" and stops; the properties say that   *)
(* there are no others.                                                    *)
(***************************************************************************)
EXTENDS IoData

CONSTANTS
  Workers,
  IntLimit,       \* a packet_size_t is one of -IntLimit .. IntLimit - 1
  PacketLengths,  \* bound: the lengths of the packets the client sends, in order
  BadLengths,     \* bound: what a header may say that is the length of no packet
  MaxReplies      \* bound: replies of the contents process

ASSUME ReaderAssumption ==
  /\ IntLimit \in Nat /\ BufferSize < IntLimit
  /\ PacketLengths \in Seq(HeaderSize + 1 .. BufferSize)
  /\ BadLengths \subseteq (-IntLimit .. IntLimit - 1) \ (HeaderSize + 1 .. BufferSize)
  /\ MaxReplies \in Nat

Packets == 1 .. Len(PacketLengths)

\* The bytes of packet p are those after Start[p] up to Start[p + 1].
Start[p \in 1 .. Len(PacketLengths) + 1] ==
  IF p = 1 THEN 0 ELSE Start[p - 1] + PacketLengths[p - 1]

VARIABLES
  sent,       \* packets the client has sent
  taken,      \* bytes of them the system has put into the buffer
  io,         \* ioData_[IO_READ]
  posted,     \* the reads outstanding on the socket, first posted first
  port,       \* the sizes of the finished ones, in the completion port
  wpc, size,  \* the workers: where they are, the transferSize they got
  package,    \* the packet a worker has in hand
  delivered,  \* the packages passed to the contents process
  replies,    \* the packets it has sent back
  event       \* what spoilt the stream, or "none"

workerVars == <<wpc, size, package>>
vars == <<sent, taken, io, posted, port, workerVars, delivered, replies, event>>

\* RecvStandBy's WSABUF.
WholeBuffer == [at |-> 0, len |-> BufferSize]

Init ==
  /\ sent = 0 /\ taken = 0
  /\ io = NewIoData
  /\ posted = <<WholeBuffer>> /\ port = <<>>
  /\ wpc = [w \in Workers |-> "wait"]
  /\ size = [w \in Workers |-> 0]
  /\ package = [w \in Workers |-> 0]
  /\ delivered = <<>> /\ replies = 0
  /\ event = "none"

-----------------------------------------------------------------------------
(* What the code does not survive.                                         *)

\* Bytes that are in the buffer and in no package yet: of a receive that no
\* worker has dealt with, of a packet that is taken out but still to be cleared, or
\* of one that is not complete.
Waiting == port # <<>> \/ \E w \in Workers : wpc[w] = "handle"
Uncleared == \E w \in Workers : wpc[w] = "standby"
Unfinished == io.current > 0 /\ NeedMoreIO(io)

\* The packet that the byte after position pos belongs to.
PacketAfter(pos) == CHOOSE p \in Packets : Start[p] <= pos /\ pos < Start[p + 1]

\* What a receive of n bytes may spoil.  The end of one packet and the start of
\* the next in one receive: OnRecv looks at one packet, and RecvStandBy clears
\* the rest.  A length that is not complete: SetupTotalBytes decodes it all the
\* same.  A buffer shared by two reads: a packet comes before the one in it is taken out
\* and cleared, or in parts that go to two reads.
ReceiveEvent(n) ==
  LET p == PacketAfter(taken)
  IN  IF taken + n > Start[p + 1] THEN "coalesced"
      ELSE IF taken = Start[p] /\ n < HeaderSize THEN "header split"
      ELSE IF Waiting \/ Uncleared THEN "overwritten"
      ELSE IF taken + n < Start[p + 1] /\ Len(posted) > 1 THEN "parts to two reads"
      ELSE "none"

\* A Clear by somebody else than the worker that has taken the packet out.
ClearEvent == IF Waiting \/ Unfinished THEN "wiped" ELSE "none"

Unspoilt == event = "none"

-----------------------------------------------------------------------------
(* The client and the system.                                              *)

ClientSend ==
  /\ Unspoilt
  /\ sent < Len(PacketLengths)
  /\ sent' = sent + 1
  /\ UNCHANGED <<taken, io, posted, port, workerVars, delivered, replies, event>>

\* The first read outstanding gets some of the bytes that are there.
FinishRead(n) ==
  /\ Unspoilt /\ posted # <<>>
  /\ n <= Head(posted).len /\ taken + n <= Start[sent + 1]
  /\ io' = Filled(io, Head(posted).at, n, taken)
  /\ taken' = taken + n
  /\ posted' = Tail(posted)
  /\ port' = Append(port, n)
  /\ event' = ReceiveEvent(n)
  /\ UNCHANGED <<sent, workerVars, delivered, replies>>

-----------------------------------------------------------------------------
(* The workers.                                                            *)

Dequeue(w) ==
  /\ Unspoilt
  /\ wpc[w] = "wait" /\ port # <<>>
  /\ size' = [size EXCEPT ![w] = Head(port)]
  /\ port' = Tail(port)
  /\ wpc' = [wpc EXCEPT ![w] = "handle"]
  /\ UNCHANGED <<sent, taken, io, posted, package, delivered, replies, event>>

\* The packets whose length the header in the buffer can be.
HeaderOf(d) == {p \in Packets : Holds(d, HeaderSize, Start[p])}

\* Mutant: the length is taken for that of the data.
SetupTotalBytesOfData(d) ==
  IF d.total # 0 THEN {d}
  ELSE {[d EXCEPT !.total = PacketLengths[p] - HeaderSize] : p \in HeaderOf(d)}

\* SetupTotalBytes: the length is decoded once per packet.  What decodes from
\* bytes that are no header may be any length.
SetupTotalBytes(d) ==
  IF d.total # 0 THEN {d}
  ELSE {[d EXCEPT !.total = len] : len \in
          IF HeaderOf(d) = {} THEN 0 .. BufferSize ELSE {PacketLengths[p] : p \in HeaderOf(d)}}

\* (size_t) of a packet_size_t.
Unsigned(len) == IF len < 0 THEN len + 2 * IntLimit ELSE len

\* OnRecv with a header that says anything else, which is not looked into: the rest of a
\* packet that is too long, or negative, is asked for past the end of buffer_; one without
\* data is complete, and what the Analyzer gets of it has no size.
BadLength(w) ==
  /\ Unspoilt /\ wpc[w] = "handle" /\ io.total = 0
  /\ \E len \in BadLengths : io' = Counted([io EXCEPT !.total = Unsigned(len)], size[w])
  /\ posted' = IF NeedMoreIO(io') THEN Append(posted, Wsabuf(io')) ELSE posted
  /\ event' = "bad length"
  /\ UNCHANGED <<sent, taken, port, workerVars, delivered, replies>>

\* The Analyzer's result: the packet the buffer holds, or 0.
Analyzed(d) ==
  LET whole == {p \in HeaderOf(d) : d.total = PacketLengths[p] /\ Holds(d, d.total, Start[p])}
  IN  IF whole = {} THEN 0 ELSE CHOOSE p \in whole : TRUE

\* IsRecving: the packet is not complete, and the rest of it is asked for.
HandlePart(w) ==
  /\ Unspoilt /\ wpc[w] = "handle"
  /\ \E d \in SetupTotalBytes(io) :
       /\ io' = Counted(d, size[w])
       /\ NeedMoreIO(io')
       /\ posted' = Append(posted, Wsabuf(io'))
  /\ wpc' = [wpc EXCEPT ![w] = "wait"]
  /\ UNCHANGED <<sent, taken, port, size, package, delivered, replies, event>>

\* The packet is complete: decoding and the Analyzer.
HandleWhole(w) ==
  /\ Unspoilt /\ wpc[w] = "handle"
  /\ \E d \in SetupTotalBytes(io) :
       /\ io' = Counted(d, size[w])
       /\ ~NeedMoreIO(io')
       /\ package' = [package EXCEPT ![w] = Analyzed(io')]
  /\ wpc' = [wpc EXCEPT ![w] = "standby"]
  /\ UNCHANGED <<sent, taken, posted, port, size, delivered, replies, event>>

RecvStandBy ==
  /\ io' = Cleared(io)
  /\ posted' = Append(posted, WholeBuffer)
  /\ event' = ClearEvent

StandBy(w) ==
  /\ Unspoilt /\ wpc[w] = "standby"
  /\ RecvStandBy
  /\ wpc' = [wpc EXCEPT ![w] = "put"]
  /\ UNCHANGED <<sent, taken, port, size, package, delivered, replies>>

PutPackage(w) ==
  /\ Unspoilt /\ wpc[w] = "put"
  /\ delivered' = Append(delivered, package[w])
  /\ package' = [package EXCEPT ![w] = 0]
  /\ wpc' = [wpc EXCEPT ![w] = "wait"]
  /\ UNCHANGED <<sent, taken, io, posted, port, size, replies, event>>

\* SendPacket of the contents process, once per package it got.
Reply ==
  /\ Unspoilt
  /\ replies < MaxReplies /\ replies < Len(delivered)
  /\ RecvStandBy
  /\ replies' = replies + 1
  /\ UNCHANGED <<sent, taken, port, workerVars, delivered>>

Worker(w) ==
  Dequeue(w) \/ HandlePart(w) \/ HandleWhole(w) \/ BadLength(w) \/ StandBy(w) \/ PutPackage(w)

Next ==
  \/ ClientSend
  \/ \E n \in 1 .. BufferSize : FinishRead(n)
  \/ \E w \in Workers : Dequeue(w)
  \/ \E w \in Workers : HandlePart(w)
  \/ \E w \in Workers : HandleWhole(w)
  \/ \E w \in Workers : BadLength(w)
  \/ \E w \in Workers : StandBy(w)
  \/ \E w \in Workers : PutPackage(w)
  \/ Reply

Spec == Init /\ [][Next]_vars

\* The system finishes a read it has bytes for, and the workers go on.  The
\* client need not send, nor the contents process reply.
FairSpec ==
  /\ Spec
  /\ WF_vars(\E n \in 1 .. BufferSize : FinishRead(n))
  /\ \A w \in Workers : WF_vars(Worker(w))

-----------------------------------------------------------------------------
(* Properties.                                                             *)

TypeOK ==
  /\ sent \in 0 .. Len(PacketLengths)
  /\ taken \in 0 .. Start[sent + 1]
  /\ IoDataType(io, 0 .. taken)
  /\ posted \in Seq([at : 0 .. BufferSize, len : Nat])
  /\ port \in Seq(1 .. BufferSize)
  /\ wpc \in [Workers -> {"wait", "handle", "standby", "put"}]
  /\ size \in [Workers -> 0 .. BufferSize]
  /\ package \in [Workers -> {0} \cup Packets]
  /\ delivered \in Seq({0} \cup Packets)
  /\ replies \in 0 .. MaxReplies
  /\ event \in {"none", "coalesced", "header split", "overwritten",
                "parts to two reads", "wiped", "bad length"}

InHand == {w \in Workers : wpc[w] \in {"standby", "put"}}
Handed == {delivered[i] : i \in DOMAIN delivered}
Out == Handed \cup {package[w] : w \in InHand}

\* However the client's bytes are cut into receives and whichever worker gets
\* them, OnRecv makes of them the packets that were sent, each once, as long as
\* none of the events has happened.
PacketsIntact ==
  /\ 0 \notin Handed /\ \A w \in InHand : package[w] # 0
  /\ \A i, j \in DOMAIN delivered : delivered[i] = delivered[j] => i = j
  /\ \A w \in InHand : package[w] \notin Handed
  /\ \A v, w \in InHand : package[v] = package[w] => v = w

\* The n bytes of the one receive that no worker has dealt with.
Pending(n) ==
  \/ port = <<n>> /\ \A w \in Workers : wpc[w] # "handle"
  \/ /\ port = <<>>
     /\ \E w \in Workers :
          wpc[w] = "handle" /\ size[w] = n /\ \A v \in Workers \ {w} : wpc[v] # "handle"

\* Every byte that was received is in a package, in the packet being put together,
\* or in the one receive that is still to be dealt with: currentBytes_ counts what
\* RecvStandBy and the workers have left, and no packet is passed over.
BytesConserved ==
  Unspoilt =>
    \E k \in 0 .. Len(PacketLengths), n \in 0 .. BufferSize :
      /\ Out = 1 .. k
      /\ IF Waiting THEN Pending(n) ELSE n = 0
      /\ taken = Start[k + 1] + (IF NeedMoreIO(io) THEN io.current ELSE 0) + n

\* A read never reaches past the end of buffer_, wherever the counters stand and whoever
\* posted it, as long as the headers say the lengths of packets that fit into it.
ReadsFitBuffer ==
  Unspoilt => \A i \in DOMAIN posted : posted[i].at + posted[i].len <= BufferSize

\* The counters and the buffer of the connection's one IoData agree, whatever the worker
\* that comes to it: nothing is outside the buffer, and no byte is lost.
ReaderInv == TypeOK /\ BytesConserved /\ ReadsFitBuffer

\* A packet that was sent becomes a package, unless the stream is spoilt.
PacketsArrive ==
  \A p \in Packets : sent >= p ~> (p \in Handed \/ ~Unspoilt)

-----------------------------------------------------------------------------
(* The inductive strengthening of the safety properties.                   *)

WholeReads == \A i \in DOMAIN posted : posted[i] = WholeBuffer

\* Between two packets: the buffer is clear, or the last packet is still in it.
Between(k) ==
  /\ taken = Start[k + 1]
  /\ ~Waiting /\ WholeReads
  /\ io.current = io.total
  /\ ~Uncleared => io.total = 0

\* The first bytes of packet k + 1 are in the buffer, and the one read asks for its rest.
PartRead(k) ==
  /\ k + 1 \in Packets
  /\ taken = Start[k + 1] + io.current
  /\ ~Waiting /\ ~Uncleared
  /\ io.current \in 1 .. io.total - 1 /\ io.total = PacketLengths[k + 1]
  /\ Holds(io, io.current, Start[k + 1])
  /\ posted = <<Wsabuf(io)>>

\* n more bytes of packet k + 1 are in the buffer, the header in the first.
Received(k) ==
  /\ k + 1 \in Packets /\ ~Uncleared
  /\ \E n \in 1 .. BufferSize :
       /\ Pending(n)
       /\ taken = Start[k + 1] + io.current + n
       /\ io.current + n <= PacketLengths[k + 1]
       /\ Holds(io, io.current + n, Start[k + 1])
       /\ \/ /\ io.current = 0 /\ io.total = 0 /\ n >= HeaderSize
             /\ WholeReads /\ (n < PacketLengths[k + 1] => posted = <<>>)
          \/ io.current \in 1 .. io.total - 1 /\ io.total = PacketLengths[k + 1] /\ posted = <<>>

\* The inductive invariant: the packets up to k are out, and the bytes after them are
\* those of the packet that is being put together.
StreamInv ==
  /\ TypeOK /\ PacketsIntact
  /\ Unspoilt =>
       \E k \in 0 .. Len(PacketLengths) : Out = 1 .. k /\ (Between(k) \/ PartRead(k) \/ Received(k))
=============================================================================
