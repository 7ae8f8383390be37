---------------------------- MODULE PacketWriter ----------------------------
(***************************************************************************)
(* The writing side of one connection (IOCPSession.cpp): SendPacket puts a *)
(* packet, header and data, into the write buffer and sends as many bytes  *)
(* as the data has; OnSend, called by the worker that gets the completion, *)
(* sends what is left.  There is one write buffer, and nothing waits for   *)
(* it: "overwritten" records a SendPacket that comes before the packet in  *)
(* the buffer went, and "overrun" one whose packet the buffer cannot hold. *)
(* The model stops at either.                                              *)
(***************************************************************************)
EXTENDS IoData

CONSTANTS
  Workers,
  StreamSizes,    \* the sizes that Packet::Encode gives a stream
  MaxPackets      \* bound: calls of SendPacket

ASSUME WriterAssumption == StreamSizes \subseteq Nat \ {0} /\ MaxPackets \in Nat

VARIABLES
  calls,      \* SendPackets so far
  base,       \* the stream's length before the packet in the buffer
  io,         \* ioData_[IO_WRITE]
  sending,    \* the stream size of a SendPacket that has yet to send, or 0
  posted,     \* the writes outstanding on the socket, first posted first
  port,       \* the sizes of the finished ones, in the completion port
  wpc, size,  \* the workers: where they are, the transferSize they got
  received,   \* the bytes the client has received
  refused,    \* packets that SetData refused
  event       \* what spoilt the stream, or "none"

workerVars == <<wpc, size>>
vars == <<calls, base, io, sending, posted, port, workerVars, received, refused, event>>

Init ==
  /\ calls = 0 /\ base = 0
  /\ io = NewIoData
  /\ sending = 0
  /\ posted = <<>> /\ port = <<>>
  /\ wpc = [w \in Workers |-> "wait"]
  /\ size = [w \in Workers |-> 0]
  /\ received = <<>> /\ refused = 0
  /\ event = "none"

Unspoilt == event = "none"

\* A packet of which something has still to go.
Underway ==
  \/ io.current < io.total
  \/ posted # <<>> \/ port # <<>>
  \/ \E w \in Workers : wpc[w] # "wait"

-----------------------------------------------------------------------------
(* The contents process.                                                   *)

\* SetData looks at the stream's size, not at the packet's, and has cleared the
\* buffer before.
TooBig(streamSize) == BufferSize <= streamSize

SetDataRefused(s) ==
  /\ Unspoilt /\ sending = 0 /\ calls < MaxPackets
  /\ TooBig(s)
  /\ base' = base + io.total
  /\ io' = Cleared(io)
  /\ event' = IF Underway THEN "overwritten" ELSE "none"
  /\ calls' = calls + 1
  /\ refused' = refused + 1
  /\ UNCHANGED <<sending, posted, port, workerVars, received>>

\* Header and data into the cleared buffer.
SetData(s) ==
  /\ Unspoilt /\ sending = 0 /\ calls < MaxPackets
  /\ ~TooBig(s)
  /\ base' = base + io.total
  /\ io' = [Filled(Cleared(io), 0, HeaderSize + s, base') EXCEPT !.total = HeaderSize + s]
  /\ event' = IF HeaderSize + s > BufferSize THEN "overrun"
              ELSE IF Underway THEN "overwritten" ELSE "none"
  /\ calls' = calls + 1
  /\ sending' = s
  /\ UNCHANGED <<posted, port, workerVars, received, refused>>

\* The WSABUF of SendPacket has the length of the stream.
Send ==
  /\ Unspoilt /\ sending # 0
  /\ posted' = Append(posted, [at |-> 0, len |-> sending])
  /\ sending' = 0
  /\ UNCHANGED <<calls, base, io, port, workerVars, received, refused, event>>

-----------------------------------------------------------------------------
(* The system and the workers.                                             *)

FinishWrite(n) ==
  /\ Unspoilt /\ posted # <<>> /\ n <= Head(posted).len
  /\ received' = received \o SubSeq(io.buffer, Head(posted).at + 1, Head(posted).at + n)
  /\ posted' = Tail(posted)
  /\ port' = Append(port, n)
  /\ UNCHANGED <<calls, base, io, sending, workerVars, refused, event>>

Dequeue(w) ==
  /\ Unspoilt /\ wpc[w] = "wait" /\ port # <<>>
  /\ size' = [size EXCEPT ![w] = Head(port)]
  /\ port' = Tail(port)
  /\ wpc' = [wpc EXCEPT ![w] = "sent"]
  /\ UNCHANGED <<calls, base, io, sending, posted, received, refused, event>>

\* Mutant: OnSend only counts.
OnSendForgetsRest(w) ==
  /\ Unspoilt /\ wpc[w] = "sent"
  /\ io' = Counted(io, size[w])
  /\ wpc' = [wpc EXCEPT ![w] = "wait"]
  /\ UNCHANGED <<calls, base, sending, posted, port, size, received, refused, event>>

\* OnSend: NeedMoreIO, and the rest of the packet.
OnSend(w) ==
  /\ Unspoilt /\ wpc[w] = "sent"
  /\ io' = Counted(io, size[w])
  /\ posted' = IF NeedMoreIO(io') THEN Append(posted, Wsabuf(io')) ELSE posted
  /\ wpc' = [wpc EXCEPT ![w] = "wait"]
  /\ UNCHANGED <<calls, base, sending, port, size, received, refused, event>>

Next ==
  \/ \E s \in StreamSizes : SetDataRefused(s)
  \/ \E s \in StreamSizes : SetData(s)
  \/ Send
  \/ \E n \in 1 .. BufferSize : FinishWrite(n)
  \/ \E w \in Workers : Dequeue(w)
  \/ \E w \in Workers : OnSend(w)

Spec == Init /\ [][Next]_vars

\* A SendPacket that has begun, the system and the workers go on.
FairSpec ==
  /\ Spec
  /\ WF_vars(Send)
  /\ WF_vars(\E n \in 1 .. BufferSize : FinishWrite(n))
  /\ \A w \in Workers : WF_vars(Dequeue(w) \/ OnSend(w))

-----------------------------------------------------------------------------
(* Properties.                                                             *)

TypeOK ==
  /\ calls \in 0 .. MaxPackets /\ refused \in 0 .. calls
  /\ base \in Nat
  /\ IoDataType(io, Nat)
  /\ sending \in StreamSizes \cup {0}
  /\ posted \in Seq([at : 0 .. BufferSize, len : 1 .. BufferSize])
  /\ port \in Seq(1 .. BufferSize)
  /\ wpc \in [Workers -> {"wait", "sent"}]
  /\ size \in [Workers -> 0 .. BufferSize]
  /\ received \in Seq(Nat)
  /\ event \in {"none", "overwritten", "overrun"}

\* Although the first write leaves out as many bytes as a header has, and the
\* system may take any part of a write, the client receives the packets' bytes in
\* order, none of them twice or missing, unless a SendPacket came too early.
RepliesIntact == \A i \in DOMAIN received : received[i] = i

\* At most one write is on its way, and it stays inside the packet: what
\* currentBytes_ counts is what the client has of the packet.
OneWriteWithinPacket ==
  Unspoilt =>
    /\ Len(posted) + Len(port) + (IF sending = 0 THEN 0 ELSE 1) <= 1
    /\ \A i \in DOMAIN posted : posted[i].at + posted[i].len <= io.total
    /\ \A i \in DOMAIN posted : Len(received) = base + posted[i].at

\* Every packet that SetData accepted goes to the client to its last byte.
RepliesArrive == \A n \in 1 .. MaxPackets * BufferSize :
  base + io.total >= n ~> (Len(received) >= n \/ ~Unspoilt)

-----------------------------------------------------------------------------
(* The inductive strengthening of the safety properties.                   *)

AllWait == \A w \in Workers : wpc[w] = "wait"

\* Of a packet there is at most one write, and it is in one place: SendPacket is about to
\* post it, it is posted, its completion is in the port, or a worker has the completion.
\* The client has as much of the packet as currentBytes_ and that completion count.
Phase ==
  \/ /\ sending = 0 /\ posted = <<>> /\ port = <<>> /\ AllWait
     /\ io.current = io.total /\ Len(received) = base + io.total
  \/ /\ sending # 0 /\ posted = <<>> /\ port = <<>> /\ AllWait
     /\ io.current = 0 /\ sending <= io.total /\ Len(received) = base
  \/ /\ sending = 0 /\ port = <<>> /\ AllWait
     /\ \E len \in 1 .. io.total - io.current : posted = <<[at |-> io.current, len |-> len]>>
     /\ Len(received) = base + io.current
  \/ /\ sending = 0 /\ posted = <<>> /\ AllWait
     /\ \E n \in 1 .. io.total - io.current :
          port = <<n>> /\ Len(received) = base + io.current + n
  \/ /\ sending = 0 /\ posted = <<>> /\ port = <<>>
     /\ \E w \in Workers :
          /\ wpc[w] = "sent" /\ \A v \in Workers \ {w} : wpc[v] = "wait"
          /\ size[w] \in 1 .. io.total - io.current
          /\ Len(received) = base + io.current + size[w]

\* The inductive invariant: the buffer holds the packet that follows what went before.
WriterInv ==
  /\ TypeOK /\ RepliesIntact
  /\ Unspoilt => Holds(io, io.total, base) /\ Phase
=============================================================================
