------------------------ MODULE PacketWriter_proofs ------------------------
(***************************************************************************)
(* The safety properties of PacketWriter, for every size of the header,    *)
(* the buffer and the packets and any number of workers: the invariant is  *)
(* WriterInv, which follows the one write of a packet from SendPacket      *)
(* through the system and the port to OnSend and back.                     *)
(***************************************************************************)
EXTENDS PacketWriter, SequenceTheorems, TLAPS

USE IoDataAssumption, WriterAssumption DEF Unspoilt, AllWait

\* A part of the buffer as a sequence of bytes.
LEMMA BufferPart ==
  ASSUME NEW buffer \in [1 .. BufferSize -> Nat],
         NEW at \in Nat, NEW n \in 1 .. BufferSize, at + n <= BufferSize
  PROVE  /\ SubSeq(buffer, at + 1, at + n) \in Seq(Nat)
         /\ Len(SubSeq(buffer, at + 1, at + n)) = n
         /\ \A i \in 1 .. n : SubSeq(buffer, at + 1, at + n)[i] = buffer[at + i]
<1>1. buffer \in Seq(Nat) /\ Len(buffer) = BufferSize
  OBVIOUS
<1> QED BY <1>1, SubSeqProperties

LEMMA OneElement == ASSUME NEW S, NEW x \in S PROVE <<x>> \in Seq(S)
  OBVIOUS

\* A write inside the buffer.
LEMMA OnePosted ==
  ASSUME NEW at \in 0 .. BufferSize, NEW len \in 1 .. BufferSize
  PROVE  <<[at |-> at, len |-> len]>> \in Seq([at : 0 .. BufferSize, len : 1 .. BufferSize])
<1>1. [at |-> at, len |-> len] \in [at : 0 .. BufferSize, len : 1 .. BufferSize]
  OBVIOUS
<1> QED BY <1>1, OneElement

\* The cleared buffer.
LEMMA ClearedType ==
  ASSUME NEW d, IoDataType(d, Nat)
  PROVE  /\ IoDataType(Cleared(d), Nat)
         /\ Cleared(d).total = 0 /\ Cleared(d).current = 0
  BY DEF IoDataType, Cleared

\* A transfer of n bytes to the front of the buffer.
LEMMA FilledHolds ==
  ASSUME NEW d, IoDataType(d, Nat), NEW n \in Nat, NEW pos \in Nat
  PROVE  /\ IoDataType(Filled(d, 0, n, pos), Nat)
         /\ Filled(d, 0, n, pos).current = d.current
         /\ n <= BufferSize => Holds(Filled(d, 0, n, pos), n, pos)
<1> DEFINE f == Filled(d, 0, n, pos)
           bytes == [i \in 1 .. BufferSize |->
                       IF i \in 0 + 1 .. 0 + n THEN pos + i - 0 ELSE d.buffer[i]]
<1>1. bytes \in [1 .. BufferSize -> Nat]
  BY DEF IoDataType
<1>2. f \in [buffer : [1 .. BufferSize -> Nat], total : Nat, current : Nat]
      /\ f.buffer = bytes /\ f.current = d.current
  <2> HIDE DEF bytes
  <2>1. f = [d EXCEPT !.buffer = bytes]
    BY DEF Filled, bytes
  <2> QED BY <1>1, <2>1 DEF IoDataType
<1>3. ASSUME n <= BufferSize, NEW i \in 1 .. n PROVE f.buffer[i] = pos + i
  BY <1>2, <1>3
<1> HIDE DEF f, bytes
<1>4. IoDataType(f, Nat) /\ f.current = d.current /\ (n <= BufferSize => Holds(f, n, pos))
  BY <1>2, <1>3 DEF IoDataType, Holds
<1> QED BY <1>4 DEF f

LEMMA FilledCurrent ==
  ASSUME NEW d, IoDataType(d, Nat), NEW n \in Nat, NEW pos \in Nat
  PROVE  Filled(d, 0, n, pos).current = d.current
  BY FilledHolds

-----------------------------------------------------------------------------
(* The initial states and the steps.                                       *)

LEMMA InitWriter == Init => WriterInv
  BY DEF Init, WriterInv, TypeOK, RepliesIntact, Phase, NewIoData, IoDataType, Holds

\* Between packets the client has all that was sent.
LEMMA NothingUnderway ==
  ASSUME WriterInv, Unspoilt, sending = 0, ~Underway
  PROVE  Len(received) = base + io.total
<1>1. io.current >= io.total /\ posted = <<>> /\ port = <<>> /\ AllWait
  BY DEF WriterInv, TypeOK, IoDataType, Underway
<1>2. io.current \in Nat /\ io.total \in Nat /\ sending = 0
  BY DEF WriterInv, TypeOK, IoDataType
<1>3. CASE io.current = io.total /\ Len(received) = base + io.total
  BY <1>3
<1>4. CASE \E len \in 1 .. io.total - io.current : TRUE
  BY <1>1, <1>2, <1>4
<1> QED BY <1>1, <1>2, <1>3, <1>4 DEF WriterInv, Phase

\* A packet refused leaves the buffer empty.
LEMMA SetDataRefusedStep ==
  ASSUME WriterInv, NEW s \in StreamSizes, SetDataRefused(s)
  PROVE  WriterInv'
<1> USE DEF SetDataRefused, workerVars
<1>1. IoDataType(io', Nat) /\ io'.total = 0 /\ io'.current = 0
  BY ClearedType DEF WriterInv, TypeOK
<1>2. TypeOK' /\ RepliesIntact'
  <2>1. base' \in Nat /\ event' \in {"none", "overwritten"}
    BY DEF WriterInv, TypeOK, IoDataType
  <2>2. calls' \in 0 .. MaxPackets /\ refused' \in 0 .. calls'
    BY DEF WriterInv, TypeOK
  <2> QED BY <1>1, <2>1, <2>2 DEF WriterInv, TypeOK, RepliesIntact
<1>3. ASSUME Unspoilt' PROVE Holds(io', io'.total, base') /\ Phase'
  <2>1. ~Underway
    BY <1>3
  <2>2. Len(received) = base + io.total /\ posted = <<>> /\ port = <<>> /\ AllWait
    BY <2>1, NothingUnderway DEF Underway
  <2>3. Phase'
    BY <1>1, <2>2 DEF Phase
  <2> QED BY <1>1, <2>3 DEF Holds
<1> QED BY <1>2, <1>3 DEF WriterInv

\* A packet accepted is in the buffer, and its write is about to be posted.
LEMMA SetDataStep ==
  ASSUME WriterInv, NEW s \in StreamSizes, SetData(s)
  PROVE  WriterInv'
<1> USE DEF SetData, workerVars
<1>1. base' \in Nat /\ HeaderSize + s \in Nat
  <2>1. base \in Nat /\ io.total \in Nat /\ base' = base + io.total
    BY DEF WriterInv, TypeOK, IoDataType
  <2> HIDE DEF SetData
  <2> QED BY <2>1
<1>2. /\ IoDataType(io', Nat) /\ io'.total = HeaderSize + s /\ io'.current = 0
      /\ HeaderSize + s <= BufferSize => Holds(io', HeaderSize + s, base')
  <2>1. IoDataType(Cleared(io), Nat) /\ Cleared(io).current = 0
    BY ClearedType DEF WriterInv, TypeOK
  <2>2. PICK pos \in Nat : pos = base'
    BY <1>1
  <2>3. PICK n \in Nat : n = HeaderSize + s
    BY <1>1
  <2> DEFINE f == Filled(Cleared(io), 0, n, pos)
  <2>4. io' = [f EXCEPT !.total = n]
    BY <2>2, <2>3
  <2> HIDE DEF SetData
  <2>5. IoDataType(f, Nat) /\ f.current = 0 /\ (n <= BufferSize => Holds(f, n, pos))
    <3>1. IoDataType(Filled(Cleared(io), 0, n, pos), Nat)
      BY <2>1, FilledHolds
    <3>2. Filled(Cleared(io), 0, n, pos).current = Cleared(io).current
      BY <2>1, FilledCurrent
    <3>3. n <= BufferSize => Holds(Filled(Cleared(io), 0, n, pos), n, pos)
      BY <2>1, FilledHolds
    <3> QED BY <2>1, <3>1, <3>2, <3>3
  <2> HIDE DEF f
  <2>6. io' \in [buffer : [1 .. BufferSize -> Nat], total : Nat, current : Nat]
        /\ io'.buffer = f.buffer /\ io'.total = n /\ io'.current = 0
    BY <2>4, <2>5 DEF IoDataType
  <2> QED BY <2>2, <2>3, <2>5, <2>6 DEF IoDataType, Holds
<1>3. TypeOK' /\ RepliesIntact'
  <2>1. calls' \in 0 .. MaxPackets /\ refused' \in 0 .. calls'
    BY DEF WriterInv, TypeOK
  <2>2. event' \in {"none", "overwritten", "overrun"} /\ sending' \in StreamSizes
    OBVIOUS
  <2>3. UNCHANGED <<posted, port, wpc, size, received>>
    OBVIOUS
  <2> HIDE DEF SetData
  <2> QED BY <1>1, <1>2, <2>1, <2>2, <2>3 DEF WriterInv, TypeOK, RepliesIntact
<1>4. ASSUME Unspoilt' PROVE Holds(io', io'.total, base') /\ Phase'
  <2>1. ~Underway /\ HeaderSize + s <= BufferSize
    BY <1>1, <1>4
  <2>2. Len(received) = base + io.total /\ posted = <<>> /\ port = <<>> /\ AllWait
    BY <2>1, NothingUnderway DEF Underway
  <2>3. Phase'
    BY <1>2, <2>2 DEF Phase
  <2> QED BY <1>2, <2>1, <2>3
<1> QED BY <1>3, <1>4 DEF WriterInv

\* The write of as many bytes as the data has.
LEMMA SendStep ==
  ASSUME WriterInv, Send
  PROVE  WriterInv'
<1> USE DEF Send, workerVars
<1>1. /\ sending \in 1 .. io.total /\ io.current = 0 /\ Len(received) = base
      /\ posted = <<>> /\ port = <<>> /\ AllWait /\ io.total <= BufferSize
  BY DEF WriterInv, TypeOK, Phase, Holds
<1>2. posted' = <<[at |-> 0, len |-> sending]>>
  BY <1>1
<1>3. TypeOK' /\ RepliesIntact'
  <2>1. sending \in 1 .. BufferSize
    BY <1>1 DEF WriterInv, TypeOK, IoDataType
  <2>2. 0 \in 0 .. BufferSize
    OBVIOUS
  <2>3. posted' \in Seq([at : 0 .. BufferSize, len : 1 .. BufferSize])
    BY <1>2, <2>1, <2>2, OnePosted, Zenon
  <2> QED BY <2>3 DEF WriterInv, TypeOK, RepliesIntact
<1>4. Phase'
  BY <1>1, <1>2 DEF WriterInv, TypeOK, IoDataType, Phase
<1> QED BY <1>3, <1>4 DEF WriterInv, Holds

\* The system takes a part of the write, and the client gets the bytes that come next.
LEMMA FinishWriteStep ==
  ASSUME WriterInv, NEW n \in 1 .. BufferSize, FinishWrite(n)
  PROVE  WriterInv'
<1>1. /\ posted # <<>> /\ n <= Head(posted).len
      /\ received' = received \o SubSeq(io.buffer, Head(posted).at + 1, Head(posted).at + n)
      /\ posted' = Tail(posted) /\ port' = Append(port, n)
      /\ UNCHANGED <<calls, base, io, sending, wpc, size, refused, event>>
      /\ Unspoilt
  BY DEF FinishWrite, workerVars
<1>2. PICK len \in 1 .. io.total - io.current : posted = <<[at |-> io.current, len |-> len]>>
  BY <1>1 DEF WriterInv, Phase
<1>3. /\ sending = 0 /\ port = <<>> /\ AllWait
      /\ Len(received) = base + io.current /\ Holds(io, io.total, base)
  BY <1>1, <1>2 DEF WriterInv, Phase
<1>4. io.current \in Nat /\ io.total \in Nat /\ base \in Nat /\ io.total <= BufferSize
  BY <1>3 DEF WriterInv, TypeOK, IoDataType, Holds
<1>5. io.buffer \in [1 .. BufferSize -> Nat]
  BY DEF WriterInv, TypeOK, IoDataType
<1>6. Head(posted) = [at |-> io.current, len |-> len] /\ Tail(posted) = <<>>
  BY <1>2
<1>7. n \in 1 .. io.total - io.current
  BY <1>1, <1>2, <1>4, <1>6
<1> DEFINE part == SubSeq(io.buffer, io.current + 1, io.current + n)
<1>8. /\ part \in Seq(Nat) /\ Len(part) = n
      /\ \A i \in 1 .. n : part[i] = io.buffer[io.current + i]
  <2>1. io.current + n <= BufferSize
    BY <1>4, <1>7
  <2> QED BY <1>4, <1>5, <2>1, BufferPart, ZenonT(60)
<1>9. received' = received \o part /\ posted' = <<>> /\ port' = <<n>>
  <2>1. Append(<<>>, n) = <<n>>
    OBVIOUS
  <2>2. port = <<>>
    BY <1>3
  <2>3. Head(posted).at = io.current
    BY <1>6
  <2> QED BY <1>1, <1>6, <2>1, <2>2, <2>3
<1> HIDE DEF part
<1>10. received \in Seq(Nat)
  BY DEF WriterInv, TypeOK
<1>11. received' \in Seq(Nat) /\ Len(received') = base + io.current + n
  <2>1. received' \in Seq(Nat) /\ Len(received') = Len(received) + Len(part)
    BY <1>8, <1>9, <1>10, ConcatProperties
  <2>2. Len(received) = base + io.current /\ Len(part) = n
    BY <1>3, <1>8
  <2> QED BY <1>4, <2>1, <2>2
<1>12. Len(received) \in Nat /\ Len(received') = Len(received) + n
  <2>1. Len(received) = base + io.current
    BY <1>3
  <2> QED BY <1>4, <1>11, <2>1
<1>13. RepliesIntact'
  <2>1. ASSUME NEW i \in 1 .. Len(received') PROVE received'[i] = i
    <3>1. CASE i <= Len(received)
      BY <2>1, <3>1, <1>8, <1>9, <1>10, ConcatProperties DEF WriterInv, RepliesIntact
    <3>2. CASE i > Len(received)
      <4>1. PICK k \in 1 .. n : k = i - Len(received) /\ i = Len(received) + k
        <5>1. i - Len(received) \in 1 .. n
          BY <1>12, <2>1, <3>2
        <5>2. i = Len(received) + (i - Len(received))
          BY <1>12, <2>1
        <5> QED BY <5>1, <5>2
      <4>2. received'[i] = io.buffer[io.current + k]
        BY <1>8, <1>9, <1>10, <1>11, <2>1, <3>2, <4>1, ConcatProperties
      <4>3. io.current + k \in 1 .. io.total
        <5>1. io.current \in Nat /\ io.total \in Nat /\ k \in Nat /\ k # 0 /\ k <= n
          BY <1>4, <4>1
        <5>2. io.current + n <= io.total
          BY <1>4, <1>7
        <5> QED BY <5>1, <5>2
      <4>4. received'[i] = base + (io.current + k)
        BY <1>3, <4>2, <4>3 DEF Holds
      <4>5. Len(received) = base + io.current
        BY <1>3
      <4>6. base + (io.current + k) = Len(received) + k
        BY <1>4, <4>5
      <4> QED BY <4>1, <4>4, <4>6
    <3>3. i <= Len(received) \/ i > Len(received)
      BY <1>12, <2>1
    <3> QED BY <3>1, <3>2, <3>3
  <2> QED BY <1>11, <2>1 DEF RepliesIntact
<1>14. TypeOK'
  <2>1. port' \in Seq(1 .. BufferSize)
    BY <1>9, OneElement
  <2>2. posted' \in Seq([at : 0 .. BufferSize, len : 1 .. BufferSize])
    BY <1>9
  <2>3. received' \in Seq(Nat) /\ base' \in Nat /\ IoDataType(io', Nat)
    BY <1>1, <1>11 DEF WriterInv, TypeOK
  <2> QED BY <1>1, <2>1, <2>2, <2>3 DEF WriterInv, TypeOK
<1>15. Phase'
  BY <1>1, <1>3, <1>4, <1>7, <1>9, <1>11 DEF Phase
<1> QED BY <1>1, <1>3, <1>13, <1>14, <1>15 DEF WriterInv, Holds

\* A worker gets the completion.
LEMMA DequeueStep ==
  ASSUME WriterInv, NEW w \in Workers, Dequeue(w)
  PROVE  WriterInv'
<1> USE DEF Dequeue
<1>1. PICK n \in 1 .. io.total - io.current :
        port = <<n>> /\ Len(received) = base + io.current + n
  BY DEF WriterInv, Phase
<1>2. sending = 0 /\ posted = <<>> /\ AllWait /\ port' = <<>> /\ size' = [size EXCEPT ![w] = n]
  BY <1>1 DEF WriterInv, Phase
<1>3. n \in 1 .. BufferSize
  BY <1>1 DEF WriterInv, TypeOK, IoDataType, Holds
<1>4. TypeOK' /\ RepliesIntact'
  BY <1>2, <1>3 DEF WriterInv, TypeOK, RepliesIntact
<1>5. Phase'
  <2>1. wpc'[w] = "sent" /\ size'[w] = n /\ \A v \in Workers \ {w} : wpc'[v] = "wait"
    BY <1>2 DEF WriterInv, TypeOK
  <2>2. /\ sending' = 0 /\ posted' = <<>> /\ port' = <<>>
        /\ size'[w] \in 1 .. io'.total - io'.current
        /\ Len(received') = base' + io'.current + size'[w]
    BY <1>1, <1>2, <2>1
  <2> HIDE DEF Dequeue
  <2> QED BY <2>1, <2>2 DEF Phase
<1> QED BY <1>4, <1>5 DEF WriterInv, Holds

\* OnSend counts the bytes, and posts the write of the rest if there is one.
LEMMA OnSendStep ==
  ASSUME WriterInv, NEW w \in Workers, OnSend(w)
  PROVE  WriterInv'
<1>1. /\ Unspoilt /\ wpc[w] = "sent"
      /\ io' = Counted(io, size[w])
      /\ posted' = IF NeedMoreIO(io') THEN Append(posted, Wsabuf(io')) ELSE posted
      /\ wpc' = [wpc EXCEPT ![w] = "wait"]
      /\ UNCHANGED <<calls, base, sending, port, size, received, refused, event>>
  BY DEF OnSend
<1>2. /\ sending = 0 /\ posted = <<>> /\ port = <<>>
      /\ \A v \in Workers \ {w} : wpc[v] = "wait"
      /\ size[w] \in 1 .. io.total - io.current
      /\ Len(received) = base + io.current + size[w]
  BY <1>1 DEF WriterInv, Phase
<1>3. io \in [buffer : [1 .. BufferSize -> Nat], total : Nat, current : Nat]
      /\ Holds(io, io.total, base) /\ io.total <= BufferSize
  BY <1>1 DEF WriterInv, TypeOK, IoDataType, Holds
<1>4. io.current \in Nat /\ size[w] \in Nat /\ io.current + size[w] \in Nat
      /\ io.current + size[w] <= io.total
  BY <1>2, <1>3
<1>5. /\ io' \in [buffer : [1 .. BufferSize -> Nat], total : Nat, current : Nat]
      /\ io'.buffer = io.buffer /\ io'.total = io.total
      /\ io'.current = io.current + size[w] /\ io'.current <= io'.total
  BY <1>1, <1>3, <1>4 DEF Counted
<1>6. AllWait' /\ wpc' \in [Workers -> {"wait", "sent"}]
  BY <1>1, <1>2 DEF WriterInv, TypeOK
<1>7. Len(received') = base' + io'.current /\ sending' = 0 /\ port' = <<>>
  <2>1. base \in Nat
    BY DEF WriterInv, TypeOK
  <2>2. Len(received) = base + (io.current + size[w])
    BY <1>2, <1>4, <2>1
  <2> QED BY <1>1, <1>2, <1>5, <2>2
<1>8. CASE NeedMoreIO(io')
  <2>1. io'.total - io'.current \in 1 .. BufferSize /\ io'.current \in 0 .. BufferSize
    BY <1>3, <1>5, <1>8 DEF NeedMoreIO
  <2>2. posted' = <<[at |-> io'.current, len |-> io'.total - io'.current]>>
    BY <1>1, <1>2, <1>8 DEF Wsabuf
  <2>3. posted' \in Seq([at : 0 .. BufferSize, len : 1 .. BufferSize])
    BY <2>1, <2>2, OnePosted
  <2>4. TypeOK' /\ RepliesIntact'
    BY <1>1, <1>5, <1>6, <2>3 DEF WriterInv, TypeOK, RepliesIntact, IoDataType
  <2>5. Phase'
    <3>1. \E len \in 1 .. io'.total - io'.current :
            posted' = <<[at |-> io'.current, len |-> len]>>
      BY <1>5, <2>1, <2>2
    <3> QED BY <1>6, <1>7, <3>1 DEF Phase
  <2> QED BY <1>1, <1>3, <1>5, <2>4, <2>5 DEF WriterInv, Holds
<1>9. CASE ~NeedMoreIO(io')
  <2>1. io'.current = io'.total /\ posted' = <<>>
    BY <1>1, <1>2, <1>5, <1>9 DEF NeedMoreIO
  <2>2. TypeOK' /\ RepliesIntact'
    BY <1>1, <1>2, <1>5, <1>6, <2>1 DEF WriterInv, TypeOK, RepliesIntact, IoDataType
  <2>3. Phase'
    BY <1>6, <1>7, <2>1 DEF Phase
  <2> QED BY <1>1, <1>3, <1>5, <2>2, <2>3 DEF WriterInv, Holds
<1> QED BY <1>8, <1>9

-----------------------------------------------------------------------------
(* The theorems.                                                           *)

\* WriterInv is an invariant: the buffer and the one write of the packet in it agree
\* with what the client has, until a SendPacket comes too early or does not fit.
THEOREM WriterInvariant == Spec => []WriterInv
<1>1. WriterInv /\ [Next]_vars => WriterInv'
  <2> SUFFICES ASSUME WriterInv, [Next]_vars PROVE WriterInv'
    OBVIOUS
  <2>1. CASE UNCHANGED vars
    BY <2>1 DEF vars, workerVars, WriterInv, TypeOK, RepliesIntact, Phase
  <2>2. CASE Next
    BY <2>2, SetDataRefusedStep, SetDataStep, SendStep, FinishWriteStep, DequeueStep,
       OnSendStep DEF Next
  <2> QED BY <2>1, <2>2
<1> QED BY InitWriter, <1>1, PTL DEF Spec

\* The counters, the queues and the states of the workers keep their types, through a packet
\* that overwrites another and one that does not fit too.  Where in the buffer a write may
\* be is the matter of OneWrite.
THEOREM TypeCorrect == Spec => []TypeOK
<1>1. WriterInv => TypeOK
  BY DEF WriterInv
<1> QED BY WriterInvariant, <1>1, PTL

\* The client receives the bytes of the packets in order, once each, however the system
\* splits the writes and although the first leaves out as many as the header has.
THEOREM RepliesStayIntact == Spec => []RepliesIntact
<1>1. WriterInv => RepliesIntact
  BY DEF WriterInv
<1> QED BY WriterInvariant, <1>1, PTL

\* At most one write is on its way, inside the packet and where the client's bytes end.
THEOREM OneWrite == Spec => []OneWriteWithinPacket
<1>1. WriterInv => OneWriteWithinPacket
  <2> SUFFICES ASSUME WriterInv, Unspoilt PROVE OneWriteWithinPacket
    BY DEF OneWriteWithinPacket
  <2>1. io.total \in Nat /\ io.current \in Nat
    BY DEF WriterInv, TypeOK, IoDataType
  <2>2. CASE posted = <<>>
    <3>1. \/ port = <<>>
          \/ sending = 0 /\ \E n \in 1 .. io.total - io.current : port = <<n>>
      BY <2>2 DEF WriterInv, Phase
    <3>2. Len(posted) = 0 /\ DOMAIN posted = {}
      BY <2>2
    <3>3. \/ port = <<>>
          \/ sending = 0 /\ Len(port) = 1
      BY <3>1
    <3>4. Len(posted) + Len(port) + (IF sending = 0 THEN 0 ELSE 1) <= 1
      <4>1. CASE port = <<>>
        BY <3>2, <4>1
      <4>2. CASE sending = 0 /\ Len(port) = 1
        BY <3>2, <4>2
      <4> QED BY <3>3, <4>1, <4>2
    <3> QED BY <3>2, <3>4 DEF OneWriteWithinPacket
  <2>3. CASE posted # <<>>
    <3>1. PICK len \in 1 .. io.total - io.current :
            posted = <<[at |-> io.current, len |-> len]>>
      BY <2>3 DEF WriterInv, Phase
    <3>2. sending = 0 /\ port = <<>> /\ Len(received) = base + io.current
      BY <2>3 DEF WriterInv, Phase
    <3>3. Len(posted) = 1 /\ Len(port) = 0 /\ DOMAIN posted = {1}
          /\ posted[1].at = io.current /\ posted[1].len = len
      BY <3>1, <3>2
    <3> QED BY <2>1, <3>2, <3>3 DEF OneWriteWithinPacket
  <2> QED BY <2>2, <2>3
<1> QED BY WriterInvariant, <1>1, PTL
=============================================================================
