------------------------- MODULE PacketReader_proofs -------------------------
(***************************************************************************)
(* Proofs about PacketReader, for packets of any number and lengths, any   *)
(* header and buffer, and any workers: the packages are the packets, each  *)
(* once, and no byte is lost, as long as nothing has spoilt the stream.    *)
(*                                                                         *)
(* Where the packets lie in the stream is proved in Terminal_proofs; of    *)
(* the terminal nothing else is used, so that its variables may be         *)
(* anything here.                                                          *)
(***************************************************************************)
EXTENDS PacketReader, TLAPS

Stream == INSTANCE Terminal_proofs WITH
  MaxConnects <- 0, MaxSends <- 0,
  manager <- "done", status <- "ready", pc <- "ready", sockets <- 1, link <- "up",
  got <- 0, gone <- {}, torn <- {}, inbox <- <<>>, sends <- 0

-----------------------------------------------------------------------------
(* The stream.                                                             *)

LEMMA Lengths ==
  /\ Len(PacketLengths) \in Nat
  /\ PacketLengths \in [1 .. Len(PacketLengths) -> Nat]
  /\ \A p \in Packets : PacketLengths[p] \in HeaderSize + 1 .. BufferSize
  /\ HeaderSize \in Nat \ {0} /\ BufferSize \in Nat /\ HeaderSize < BufferSize
  /\ MaxReplies \in Nat
BY IoDataAssumption, ReaderAssumption DEF Packets

LEMMA SameStream == Stream!Start = Start /\ Stream!Packets = Packets
BY DEF Stream!Start, Start, Stream!Packets, Packets

LEMMA TerminalConstants == Stream!TerminalAssumption
<1>1. HeaderSize + 1 .. BufferSize \subseteq HeaderSize + 1 .. IntLimit - 1
  BY IoDataAssumption, ReaderAssumption
<1> DEFINE Short == HeaderSize + 1 .. BufferSize
           All == HeaderSize + 1 .. IntLimit - 1
<1>2. PacketLengths \in Seq(All)
  <2>1. PacketLengths \in Seq(Short)
    BY ReaderAssumption
  <2> HIDE DEF Short, All
  <2>2. Short \subseteq All
    BY <1>1 DEF Short, All
  <2> QED
    BY <2>1, <2>2
<1> QED
  BY <1>2, IoDataAssumption, ReaderAssumption DEF Stream!TerminalAssumption

LEMMA Starts ==
  /\ Start \in [1 .. Len(PacketLengths) + 1 -> Nat]
  /\ Start[1] = 0
  /\ \A p \in Packets : Start[p + 1] = Start[p] + PacketLengths[p]
BY SameStream, TerminalConstants, Stream!Starts

LEMMA StartsGrow ==
  \A p, q \in 1 .. Len(PacketLengths) + 1 : p < q => Start[p] < Start[q]
BY SameStream, TerminalConstants, Stream!StartsGrow

\* The types of the reader's variables that arithmetic needs, without intervals.
LEMMA ReaderTypes ==
  ASSUME TypeOK
  PROVE  /\ sent \in 0 .. Len(PacketLengths)
         /\ taken \in Nat /\ taken <= Start[sent + 1]
         /\ io \in [buffer : [1 .. BufferSize -> Nat], total : Nat, current : Nat]
         /\ \A i \in 1 .. BufferSize : io.buffer[i] <= taken
         /\ posted \in Seq([at : 0 .. BufferSize, len : Nat])
         /\ port \in Seq(1 .. BufferSize)
         /\ wpc \in [Workers -> {"wait", "handle", "standby", "put"}]
         /\ size \in [Workers -> 0 .. BufferSize]
         /\ package \in [Workers -> {0} \cup Packets]
         /\ delivered \in Seq({0} \cup Packets)
         /\ replies \in 0 .. MaxReplies
         /\ event \in {"none", "coalesced", "header split", "overwritten",
                        "parts to two reads", "wiped", "bad length"}
<1>1. /\ sent \in 0 .. Len(PacketLengths)
      /\ taken \in 0 .. Start[sent + 1]
      /\ io \in [buffer : [1 .. BufferSize -> 0 .. taken], total : Nat, current : Nat]
  BY DEF TypeOK, IoDataType
<1>2. Start[sent + 1] \in Nat
  BY <1>1, Starts, Lengths
<1>3. taken \in Nat /\ taken <= Start[sent + 1]
  BY <1>1, <1>2
<1>4. /\ io.buffer \in [1 .. BufferSize -> 0 .. taken]
      /\ io = [buffer |-> io.buffer, total |-> io.total, current |-> io.current]
      /\ io.total \in Nat /\ io.current \in Nat
  BY <1>1
<1>5. \A i \in 1 .. BufferSize : io.buffer[i] \in Nat /\ io.buffer[i] <= taken
  <2> SUFFICES ASSUME NEW i \in 1 .. BufferSize
               PROVE  io.buffer[i] \in Nat /\ io.buffer[i] <= taken
    OBVIOUS
  <2>1. io.buffer[i] \in 0 .. taken
    BY <1>4
  <2> QED
    BY <1>3, <2>1
<1>6. io.buffer \in [1 .. BufferSize -> Nat]
  BY <1>4, <1>5
<1>7. io \in [buffer : [1 .. BufferSize -> Nat], total : Nat, current : Nat]
  BY <1>4, <1>6
<1> QED
  BY <1>1, <1>3, <1>5, <1>7 DEF TypeOK

LEMMA HeadMember == ASSUME NEW S, NEW s \in Seq(S), s # <<>> PROVE Head(s) \in S
OBVIOUS

\* The other way round, for a buffer that is given by its parts.
LEMMA BufferType ==
  ASSUME NEW d \in [buffer : [1 .. BufferSize -> Nat], total : Nat, current : Nat],
         NEW top \in Nat, \A i \in 1 .. BufferSize : d.buffer[i] <= top
  PROVE  IoDataType(d, 0 .. top)
<1>1. /\ d = [buffer |-> d.buffer, total |-> d.total, current |-> d.current]
      /\ d.buffer \in [1 .. BufferSize -> Nat] /\ d.total \in Nat /\ d.current \in Nat
  OBVIOUS
<1>2. \A i \in 1 .. BufferSize : d.buffer[i] \in 0 .. top
  <2> SUFFICES ASSUME NEW i \in 1 .. BufferSize
               PROVE  d.buffer[i] \in 0 .. top
    OBVIOUS
  <2>1. d.buffer[i] \in Nat /\ d.buffer[i] <= top
    BY <1>1
  <2> QED
    BY <2>1
<1>3. d.buffer \in [1 .. BufferSize -> 0 .. top]
  BY <1>1, <1>2
<1> QED
  BY <1>1, <1>3 DEF IoDataType

\* Filled, Counted and Cleared change what they say.
LEMMA FilledIs ==
  ASSUME io \in [buffer : [1 .. BufferSize -> Nat], total : Nat, current : Nat],
         taken \in Nat, NEW at \in Nat, NEW n \in Nat,
         io' = Filled(io, at, n, taken)
  PROVE  /\ io' \in [buffer : [1 .. BufferSize -> Nat], total : Nat, current : Nat]
         /\ io'.total = io.total /\ io'.current = io.current
         /\ \A i \in 1 .. BufferSize : i \in at + 1 .. at + n => io'.buffer[i] = taken + i - at
         /\ \A i \in 1 .. BufferSize : i \notin at + 1 .. at + n => io'.buffer[i] = io.buffer[i]
<1> DEFINE bytes == [i \in 1 .. BufferSize |->
                       IF i \in at + 1 .. at + n THEN taken + i - at ELSE io.buffer[i]]
<1>1. \A i \in 1 .. BufferSize : bytes[i] \in Nat
  <2> SUFFICES ASSUME NEW i \in 1 .. BufferSize
               PROVE  bytes[i] \in Nat
    OBVIOUS
  <2>1. io.buffer[i] \in Nat
    OBVIOUS
  <2>2. i \in at + 1 .. at + n => taken + i - at \in Nat
    OBVIOUS
  <2> QED
    BY <2>1, <2>2
<1>2. bytes \in [1 .. BufferSize -> Nat]
  BY <1>1
<1>3. io' = [io EXCEPT !.buffer = bytes]
  BY DEF Filled
<1>4. \A i \in 1 .. BufferSize : i \in at + 1 .. at + n => bytes[i] = taken + i - at
  OBVIOUS
<1>5. \A i \in 1 .. BufferSize : i \notin at + 1 .. at + n => bytes[i] = io.buffer[i]
  OBVIOUS
<1> HIDE DEF bytes
<1> QED
  BY <1>2, <1>3, <1>4, <1>5

LEMMA CountedIs ==
  ASSUME NEW d, d \in [buffer : [1 .. BufferSize -> Nat], total : Nat, current : Nat],
         NEW n \in Nat, io' = Counted(d, n)
  PROVE  /\ io' \in [buffer : [1 .. BufferSize -> Nat], total : Nat, current : Nat]
         /\ io'.buffer = d.buffer /\ io'.total = d.total /\ io'.current = d.current + n
BY DEF Counted

LEMMA ClearedIs ==
  ASSUME io \in [buffer : [1 .. BufferSize -> Nat], total : Nat, current : Nat],
         io' = Cleared(io)
  PROVE  /\ io' \in [buffer : [1 .. BufferSize -> Nat], total : Nat, current : Nat]
         /\ \A i \in 1 .. BufferSize : io'.buffer[i] = 0
         /\ io'.total = 0 /\ io'.current = 0
BY DEF Cleared

\* The packet the next byte belongs to is the one that is being put together.
LEMMA PacketAfterIs ==
  ASSUME NEW p \in Packets, NEW pos \in Nat, Start[p] <= pos, pos < Start[p + 1]
  PROVE  PacketAfter(pos) = p
<1>1. \A a, b \in Packets, q \in Nat :
        Start[a] <= q /\ q < Start[a + 1] /\ Start[b] <= q /\ q < Start[b + 1] => a = b
  BY SameStream, TerminalConstants, Stream!PacketUnique
<1>2. PacketAfter(pos) \in Packets
  BY DEF PacketAfter
<1>3. Start[PacketAfter(pos)] <= pos /\ pos < Start[PacketAfter(pos) + 1]
  BY DEF PacketAfter
<1> QED
  BY <1>1, <1>2, <1>3

\* A header is that of one packet only.
LEMMA HeaderIs ==
  ASSUME NEW d, NEW p \in Packets, Holds(d, HeaderSize, Start[p])
  PROVE  HeaderOf(d) = {p}
<1>1. ASSUME NEW q \in Packets, Holds(d, HeaderSize, Start[q])
      PROVE  q = p
  <2>1. 1 \in 1 .. HeaderSize
    BY Lengths
  <2>2. d.buffer[1] = Start[p] + 1 /\ d.buffer[1] = Start[q] + 1
    BY <1>1, <2>1 DEF Holds
  <2>3. /\ p \in 1 .. Len(PacketLengths) + 1 /\ q \in 1 .. Len(PacketLengths) + 1
        /\ p \in Nat /\ q \in Nat
        /\ Start[p] \in Nat /\ Start[q] \in Nat
    <3>1. Len(PacketLengths) \in Nat
      BY Lengths
    <3>2. p \in 1 .. Len(PacketLengths) /\ q \in 1 .. Len(PacketLengths)
      BY DEF Packets
    <3>3. p \in 1 .. Len(PacketLengths) + 1 /\ q \in 1 .. Len(PacketLengths) + 1
      BY <3>1, <3>2
    <3> QED
      BY <3>2, <3>3, Starts
  <2>4. Start[p] = Start[q]
    BY <2>2, <2>3
  <2>5. ~(p < q) /\ ~(q < p)
    BY <2>3, <2>4, StartsGrow
  <2> QED
    BY <2>3, <2>5
<1> QED
  BY <1>1 DEF HeaderOf

\* The first bytes of a buffer that holds more of the stream.
LEMMA HoldsLess ==
  ASSUME NEW d, NEW m \in Nat, NEW n \in Nat, n <= m, NEW pos, Holds(d, m, pos),
         BufferSize \in Nat
  PROVE  Holds(d, n, pos)
BY DEF Holds

\* An action that leaves the packages alone.
LEMMA OutUntouched ==
  ASSUME PacketsIntact, InHand' = InHand, UNCHANGED <<package, delivered>>
  PROVE  PacketsIntact' /\ Out' = Out
<1>1. Handed' = Handed
  BY DEF Handed
<1>2. PacketsIntact'
  BY <1>1 DEF PacketsIntact
<1>3. Out' = Out
  BY <1>1 DEF Out
<1> QED
  BY <1>2, <1>3

LEMMA HandUntouched ==
  ASSUME PacketsIntact, UNCHANGED <<wpc, package, delivered>>
  PROVE  /\ PacketsIntact'
         /\ Out' = Out
         /\ Uncleared' <=> Uncleared
<1>1. InHand' = InHand
  BY DEF InHand
<1>2. Uncleared' <=> Uncleared
  BY DEF Uncleared
<1> QED
  BY <1>1, <1>2, OutUntouched

\* The client sends one packet more; what has been received stays.
LEMMA ClientSendKeeps ==
  ASSUME StreamInv, ClientSend
  PROVE  StreamInv'
<1>0. /\ sent < Len(PacketLengths) /\ sent' = sent + 1
      /\ UNCHANGED <<taken, io, posted, port, wpc, size, package, delivered, replies, event>>
  BY DEF ClientSend, workerVars
<1>1. TypeOK
  BY DEF StreamInv
<1>2. taken' \in 0 .. Start[sent' + 1] /\ sent' \in 0 .. Len(PacketLengths)
  <2>1. /\ sent \in 0 .. Len(PacketLengths) /\ Len(PacketLengths) \in Nat
        /\ taken \in Nat /\ taken <= Start[sent + 1]
    BY <1>1, ReaderTypes, Lengths
  <2>2. /\ sent + 1 \in 1 .. Len(PacketLengths) + 1
        /\ sent' + 1 \in 1 .. Len(PacketLengths) + 1
        /\ sent + 1 < sent' + 1
    BY <1>0, <2>1
  <2>3. Start[sent + 1] < Start[sent' + 1]
    BY <2>2, StartsGrow
  <2>4. Start[sent + 1] \in Nat /\ Start[sent' + 1] \in Nat
    BY <2>2, Starts
  <2> QED
    BY <1>0, <2>1, <2>3, <2>4
<1>3. TypeOK'
  BY <1>0, <1>1, <1>2 DEF TypeOK, IoDataType
<1>4. PacketsIntact' /\ Out' = Out /\ (Uncleared' <=> Uncleared)
  BY <1>0, HandUntouched DEF StreamInv
<1>5. ASSUME NEW k \in 0 .. Len(PacketLengths)
      PROVE  /\ Between(k) => Between(k)'
             /\ PartRead(k) => PartRead(k)'
             /\ Received(k) => Received(k)'
  BY <1>0, <1>4 DEF Between, PartRead, Received, Waiting,
     WholeReads, Pending
<1>6. Unspoilt' <=> Unspoilt
  BY <1>0 DEF Unspoilt
<1> QED
  BY <1>3, <1>4, <1>5, <1>6 DEF StreamInv

\* A receive: what may happen to the types.
LEMMA FinishReadType ==
  ASSUME TypeOK, NEW n \in 1 .. BufferSize, FinishRead(n)
  PROVE  TypeOK'
<1>0. /\ posted # <<>> /\ n <= Head(posted).len /\ taken + n <= Start[sent + 1]
      /\ io' = Filled(io, Head(posted).at, n, taken)
      /\ taken' = taken + n /\ posted' = Tail(posted) /\ port' = Append(port, n)
      /\ event' = ReceiveEvent(n)
      /\ UNCHANGED <<sent, wpc, size, package, delivered, replies>>
  BY DEF FinishRead, workerVars
<1>1. /\ sent \in 0 .. Len(PacketLengths)
      /\ taken \in Nat /\ taken <= Start[sent + 1]
      /\ io \in [buffer : [1 .. BufferSize -> Nat], total : Nat, current : Nat]
      /\ \A i \in 1 .. BufferSize : io.buffer[i] <= taken
      /\ posted \in Seq([at : 0 .. BufferSize, len : Nat])
      /\ port \in Seq(1 .. BufferSize)
  BY ReaderTypes
<1>2. n \in Nat /\ taken + n \in Nat /\ Start[sent + 1] \in Nat
  <2>1. BufferSize \in Nat /\ Len(PacketLengths) \in Nat
    BY Lengths
  <2>2. sent \in 0 .. Len(PacketLengths) /\ taken \in Nat
    BY <1>1
  <2>3. sent + 1 \in 1 .. Len(PacketLengths) + 1
    BY <2>1, <2>2
  <2>4. Start[sent + 1] \in Nat
    BY <2>3, Starts
  <2> QED
    BY <2>1, <2>2, <2>4
<1>3. taken' \in 0 .. Start[sent' + 1]
  BY <1>0, <1>1, <1>2
<1>4. posted' \in Seq([at : 0 .. BufferSize, len : Nat])
  BY <1>0, <1>1
<1>5. port' \in Seq(1 .. BufferSize)
  BY <1>0, <1>1
<1>6. IoDataType(io', 0 .. taken')
  <2>1. Head(posted) \in [at : 0 .. BufferSize, len : Nat]
    <3>1. posted \in Seq([at : 0 .. BufferSize, len : Nat]) /\ posted # <<>>
      BY <1>0, <1>1
    <3> QED
      BY <3>1, HeadMember
  <2>2. Head(posted).at \in Nat
    BY <2>1, Lengths
  <2>3. PICK at \in Nat : at = Head(posted).at
    BY <2>2
  <2>4. /\ io' \in [buffer : [1 .. BufferSize -> Nat], total : Nat, current : Nat]
        /\ \A i \in 1 .. BufferSize : i \in at + 1 .. at + n => io'.buffer[i] = taken + i - at
        /\ \A i \in 1 .. BufferSize : i \notin at + 1 .. at + n => io'.buffer[i] = io.buffer[i]
    <3>1. io \in [buffer : [1 .. BufferSize -> Nat], total : Nat, current : Nat] /\ taken \in Nat
      BY <1>1
    <3>2. io' = Filled(io, at, n, taken)
      BY <1>0, <2>3
    <3> QED
      BY <1>2, <3>1, <3>2, FilledIs
  <2>5. \A i \in 1 .. BufferSize : io'.buffer[i] <= taken + n
    <3> SUFFICES ASSUME NEW i \in 1 .. BufferSize
                 PROVE  io'.buffer[i] <= taken + n
      OBVIOUS
    <3>1. CASE i \in at + 1 .. at + n
      BY <1>1, <1>2, <2>4, <3>1
    <3>2. CASE i \notin at + 1 .. at + n
      <4>1. io'.buffer[i] = io.buffer[i] /\ io.buffer[i] <= taken /\ io.buffer[i] \in Nat
        BY <1>1, <2>4, <3>2
      <4> QED
        BY <1>1, <1>2, <4>1
    <3> QED
      BY <3>1, <3>2
  <2>6. IoDataType(io', 0 .. taken + n)
    BY <1>2, <2>4, <2>5, BufferType
  <2> QED
    BY <1>0, <2>6
<1>7. event' \in {"none", "coalesced", "header split", "overwritten",
                   "parts to two reads", "wiped", "bad length"}
  BY <1>0 DEF ReceiveEvent
<1> QED
  BY <1>0, <1>3, <1>4, <1>5, <1>6, <1>7 DEF TypeOK

\* A receive that spoils nothing brings bytes of the packet that is being put together.
LEMMA FinishReadKeeps ==
  ASSUME StreamInv, NEW n \in 1 .. BufferSize, FinishRead(n)
  PROVE  StreamInv'
<1>0. /\ Unspoilt /\ posted # <<>>
      /\ n <= Head(posted).len /\ taken + n <= Start[sent + 1]
      /\ io' = Filled(io, Head(posted).at, n, taken)
      /\ taken' = taken + n /\ posted' = Tail(posted) /\ port' = Append(port, n)
      /\ event' = ReceiveEvent(n)
      /\ UNCHANGED <<sent, wpc, size, package, delivered, replies>>
  BY DEF FinishRead, workerVars
<1>1. TypeOK /\ TypeOK'
  BY FinishReadType DEF StreamInv
<1>2. PacketsIntact' /\ Out' = Out /\ (Uncleared' <=> Uncleared)
  BY <1>0, HandUntouched DEF StreamInv
<1>3. SUFFICES ASSUME Unspoilt', NEW k \in 0 .. Len(PacketLengths), Out = 1 .. k,
                      Between(k) \/ PartRead(k) \/ Received(k)
               PROVE  Received(k)'
  BY <1>0, <1>1, <1>2 DEF StreamInv, Unspoilt
<1>a. io \in [buffer : [1 .. BufferSize -> Nat], total : Nat, current : Nat]
  BY <1>1, ReaderTypes
<1>b. posted \in Seq([at : 0 .. BufferSize, len : Nat])
  BY <1>1, ReaderTypes
<1>4. /\ sent \in 0 .. Len(PacketLengths) /\ taken \in Nat
      /\ BufferSize \in Nat /\ Len(PacketLengths) \in Nat /\ HeaderSize \in Nat
      /\ n \in Nat /\ n > 0
  <2>1. sent \in 0 .. Len(PacketLengths) /\ taken \in Nat
    BY <1>1, ReaderTypes
  <2>2. BufferSize \in Nat /\ Len(PacketLengths) \in Nat /\ HeaderSize \in Nat
    BY Lengths
  <2>3. n \in Nat /\ n > 0
    BY <2>2
  <2> QED
    BY <2>1, <2>2, <2>3
<1>5. \A p \in 1 .. Len(PacketLengths) + 1 : Start[p] \in Nat
  BY Starts
<1>6. ~Waiting /\ ~Uncleared
  BY <1>0, <1>3 DEF ReceiveEvent, Unspoilt
<1>7. port' = <<n>> /\ (\A w \in Workers : wpc'[w] # "handle") /\ Pending(n)'
  <2>1. port = <<>> /\ \A w \in Workers : wpc[w] # "handle"
    BY <1>6 DEF Waiting
  <2>2. port' = <<n>>
    BY <1>0, <2>1
  <2> QED
    BY <1>0, <2>1, <2>2 DEF Pending
<1>8. ~Received(k)
  <2>1. ASSUME NEW m, Pending(m)
        PROVE  Waiting
    BY <2>1 DEF Pending, Waiting
  <2> QED
    BY <1>6, <2>1 DEF Received
\* The packet in question, and where in it the stream stands.
<1>9. ASSUME k + 1 \in Packets, Start[k + 1] <= taken, taken < Start[k + 2]
      PROVE  /\ taken + n <= Start[k + 2]
             /\ taken = Start[k + 1] => n >= HeaderSize
             /\ taken + n < Start[k + 2] => Len(posted) <= 1
  <2>1. k + 1 + 1 = k + 2
    BY <1>4
  <2>2. PacketAfter(taken) = k + 1
    BY <1>4, <1>9, <2>1, PacketAfterIs
  <2>3. event' = "none"
    BY <1>3 DEF Unspoilt
  <2>4. /\ ~(taken + n > Start[k + 2])
        /\ ~(taken = Start[k + 1] /\ n < HeaderSize)
        /\ ~(taken + n < Start[k + 2] /\ Len(posted) > 1)
    BY <1>0, <2>1, <2>2, <2>3 DEF ReceiveEvent
  <2>5. Start[k + 2] \in Nat /\ Len(posted) \in Nat
    BY <1>b, <1>4, <1>5, <1>9 DEF Packets
  <2> QED
    BY <1>4, <2>4, <2>5
<1>10. CASE Between(k)
  <2>1. taken = Start[k + 1] /\ WholeReads /\ io.current = 0 /\ io.total = 0
    BY <1>6, <1>10 DEF Between
  <2>2. k + 1 \in Packets /\ k + 2 \in 1 .. Len(PacketLengths) + 1
    <3>1. k + 1 \in 1 .. Len(PacketLengths) + 1 /\ sent + 1 \in 1 .. Len(PacketLengths) + 1
      BY <1>4
    <3>2. Start[k + 1] < Start[sent + 1]
      <4>1. Start[k + 1] \in Nat /\ Start[sent + 1] \in Nat
        BY <1>5, <3>1
      <4>2. Start[k + 1] + n <= Start[sent + 1] /\ n \in Nat /\ n > 0
        BY <1>0, <1>4, <2>1
      <4> QED
        BY <4>1, <4>2
    <3>3. ~(sent + 1 < k + 1) /\ sent # k
      <4>1. Start[k + 1] \in Nat /\ Start[sent + 1] \in Nat
        BY <1>5, <3>1
      <4> QED
        BY <3>1, <3>2, <4>1, StartsGrow
    <3> QED
      BY <1>4, <3>3 DEF Packets
  <2>3. Start[k + 2] = Start[k + 1] + PacketLengths[k + 1] /\ PacketLengths[k + 1] \in HeaderSize + 1 .. BufferSize
    <3>1. k + 1 + 1 = k + 2
      BY <1>4
    <3> QED
      BY <2>2, <3>1, Starts, Lengths
  <2>4. PacketLengths[k + 1] \in Nat /\ PacketLengths[k + 1] > 0
    BY <1>4, <2>3
  <2>5. /\ taken + n <= Start[k + 2] /\ n >= HeaderSize
        /\ taken + n < Start[k + 2] => Len(posted) <= 1
    <3>1. taken \in Nat
      BY <1>4
    <3>2. Start[k + 1] <= taken /\ taken < Start[k + 2]
      BY <2>1, <2>3, <2>4, <3>1
    <3> QED
      BY <1>9, <2>1, <2>2, <3>2
  <2>6. n <= PacketLengths[k + 1] /\ (n < PacketLengths[k + 1] => Len(posted) <= 1)
    <3>1. taken \in Nat /\ n \in Nat /\ Start[k + 2] = taken + PacketLengths[k + 1]
      BY <1>4, <2>1, <2>3
    <3> QED
      BY <2>4, <2>5, <3>1
  <2>7. Head(posted).at = 0
    <3>1. posted # <<>>
      BY <1>0
    <3>2. 1 \in DOMAIN posted /\ Head(posted) = posted[1]
      BY <1>b, <3>1
    <3> QED
      BY <2>1, <3>2 DEF WholeReads, WholeBuffer
  <2>8. /\ io'.total = 0 /\ io'.current = 0
        /\ \A i \in 1 .. BufferSize : i <= n => io'.buffer[i] = taken + i
    <3>1. io' = Filled(io, 0, n, taken) /\ 0 \in Nat
      BY <1>0, <2>7
    <3>2. /\ io'.total = io.total /\ io'.current = io.current
          /\ \A i \in 1 .. BufferSize : i \in 0 + 1 .. 0 + n => io'.buffer[i] = taken + i - 0
      BY <1>a, <1>4, <3>1, FilledIs
    <3> QED
      BY <1>4, <2>1, <3>2
  <2>9. Holds(io', n, Start[k + 1])
    BY <1>4, <2>1, <2>8 DEF Holds
  <2>10. WholeReads'
    <3>1. \A i \in DOMAIN Tail(posted) : Tail(posted)[i] = posted[i + 1] /\ i + 1 \in DOMAIN posted
      <4>1. posted # <<>>
        BY <1>0
      <4> QED
        BY <1>b, <4>1
    <3> QED
      BY <1>0, <2>1, <3>1 DEF WholeReads, WholeBuffer
  <2>11. n < PacketLengths[k + 1] => posted' = <<>>
    <3>1. Len(posted) <= 1 => Tail(posted) = <<>>
      BY <1>b
    <3> QED
      BY <1>0, <2>6, <3>1
  <2> HIDE DEF Packets
  <2>12. 0 + n = n /\ taken' = Start[k + 1] + 0 + n
    BY <1>0, <1>4, <2>1
  <2> QED
    BY <1>2, <1>6, <1>7, <2>2, <2>6, <2>5, <2>8, <2>9, <2>10, <2>11, <2>12 DEF Received
<1>11. CASE PartRead(k)
  <2>1. /\ k + 1 \in Packets /\ taken = Start[k + 1] + io.current
        /\ io.current \in 1 .. io.total - 1 /\ io.total = PacketLengths[k + 1]
        /\ Holds(io, io.current, Start[k + 1])
        /\ posted = <<Wsabuf(io)>>
    BY <1>11 DEF PartRead
  <2>2. /\ k + 1 \in 1 .. Len(PacketLengths) + 1 /\ k + 2 \in 1 .. Len(PacketLengths) + 1
        /\ k + 1 + 1 = k + 2
    BY <1>4, <2>1 DEF Packets
  <2>3. /\ Start[k + 2] = Start[k + 1] + PacketLengths[k + 1]
        /\ Start[k + 1] \in Nat /\ Start[k + 2] \in Nat
        /\ PacketLengths[k + 1] \in Nat /\ PacketLengths[k + 1] <= BufferSize
    <3>1. PacketLengths[k + 1] \in HeaderSize + 1 .. BufferSize
      BY <2>1, Lengths
    <3>2. Start[k + 1 + 1] = Start[k + 1] + PacketLengths[k + 1]
      BY <2>1, Starts
    <3>3. PacketLengths[k + 1] \in Nat /\ PacketLengths[k + 1] <= BufferSize
      BY <1>4, <3>1
    <3> QED
      BY <1>5, <2>2, <3>2, <3>3
  <2>4. io.current \in Nat /\ io.total \in Nat /\ 1 <= io.current /\ io.current < io.total
    <3>1. io.current \in Nat /\ io.total \in Nat
      BY <1>a
    <3> QED
      BY <2>1, <3>1
  <2>5. Head(posted).at = io.current /\ Head(posted).len = io.total - io.current /\ posted' = <<>>
    BY <1>0, <2>1 DEF Wsabuf
  <2>6. io.current + n <= PacketLengths[k + 1] /\ io.current + n \in Nat
    <3>1. n <= io.total - io.current /\ io.total = PacketLengths[k + 1]
      BY <1>0, <2>1, <2>5
    <3>2. n \in Nat
      BY <1>4
    <3> QED
      BY <2>4, <3>1, <3>2
  <2>7. /\ io'.total = io.total /\ io'.current = io.current
        /\ \A i \in 1 .. BufferSize :
             i \in io.current + 1 .. io.current + n => io'.buffer[i] = taken + i - io.current
        /\ \A i \in 1 .. BufferSize :
             i \notin io.current + 1 .. io.current + n => io'.buffer[i] = io.buffer[i]
    <3>1. io' = Filled(io, io.current, n, taken)
      BY <1>0, <2>5
    <3>2. io.current \in Nat /\ n \in Nat /\ taken \in Nat
      BY <1>4, <2>4
    <3> QED
      BY <1>a, <3>1, <3>2, FilledIs
  <2>8. Holds(io', io.current + n, Start[k + 1])
    <3>1. \A i \in 1 .. io.current : io.buffer[i] = Start[k + 1] + i
      BY <2>1 DEF Holds
    <3>2. ASSUME NEW i \in 1 .. io.current + n
          PROVE  io'.buffer[i] = Start[k + 1] + i
      <4>1. i \in 1 .. BufferSize
        BY <1>4, <2>3, <2>6
      <4>2. CASE i <= io.current
        <5>1. i \in 1 .. io.current /\ i \notin io.current + 1 .. io.current + n
          BY <1>4, <2>4, <4>2
        <5> QED
          BY <2>7, <3>1, <4>1, <5>1
      <4>3. CASE i > io.current
        <5>1. i \in io.current + 1 .. io.current + n
          BY <1>4, <2>4, <4>3
        <5>2. io'.buffer[i] = taken + i - io.current
          BY <2>7, <4>1, <5>1
        <5>3. taken + i - io.current = Start[k + 1] + i
          <6>1. Start[k + 1] \in Nat /\ io.current \in Nat /\ i \in Nat
            BY <1>4, <2>3, <2>4
          <6>2. taken = Start[k + 1] + io.current
            BY <2>1
          <6> HIDE DEF Packets
          <6> QED
            BY <6>1, <6>2
        <5> QED
          BY <5>2, <5>3
      <4> QED
        BY <1>4, <2>4, <4>2, <4>3
    <3>3. io.current + n <= BufferSize
      BY <1>4, <2>3, <2>6
    <3> QED
      BY <3>2, <3>3 DEF Holds
  <2>9. taken' = Start[k + 1] + io'.current + n
    BY <1>0, <2>1, <2>7
  <2> QED
    BY <1>2, <1>6, <1>7, <2>1, <2>5, <2>6, <2>7, <2>8, <2>9 DEF Received
<1> QED
  BY <1>3, <1>8, <1>10, <1>11

\* A worker gets the receive out of the port.
LEMMA DequeueKeeps ==
  ASSUME StreamInv, NEW w \in Workers, Dequeue(w)
  PROVE  StreamInv'
<1>0. /\ Unspoilt /\ wpc[w] = "wait" /\ port # <<>>
      /\ size' = [size EXCEPT ![w] = Head(port)] /\ port' = Tail(port)
      /\ wpc' = [wpc EXCEPT ![w] = "handle"]
      /\ UNCHANGED <<sent, taken, io, posted, package, delivered, replies, event>>
  BY DEF Dequeue
<1>1. /\ port \in Seq(1 .. BufferSize)
      /\ wpc \in [Workers -> {"wait", "handle", "standby", "put"}]
      /\ size \in [Workers -> 0 .. BufferSize]
      /\ BufferSize \in Nat
  BY ReaderTypes, Lengths DEF StreamInv
<1>2. Head(port) \in 1 .. BufferSize /\ Tail(port) \in Seq(1 .. BufferSize)
  BY <1>0, <1>1, HeadMember
<1>3. /\ wpc' \in [Workers -> {"wait", "handle", "standby", "put"}]
      /\ size' \in [Workers -> 0 .. BufferSize]
      /\ port' \in Seq(1 .. BufferSize)
  <2>1. Head(port) \in 0 .. BufferSize
    BY <1>1, <1>2
  <2> QED
    BY <1>0, <1>1, <1>2, <2>1
<1>4. TypeOK'
  BY <1>0, <1>3 DEF TypeOK, IoDataType, StreamInv
<1>5. InHand' = InHand /\ (Uncleared' <=> Uncleared)
  BY <1>0, <1>1 DEF InHand, Uncleared
<1>6. PacketsIntact' /\ Out' = Out
  BY <1>0, <1>5, OutUntouched DEF StreamInv
<1>7. PICK k \in 0 .. Len(PacketLengths) :
        Out = 1 .. k /\ (Between(k) \/ PartRead(k) \/ Received(k))
  BY <1>0 DEF StreamInv
<1>8. Received(k)
  BY <1>0, <1>7 DEF Between, PartRead, Waiting
<1>9. Received(k)'
  <2>1. ASSUME NEW n \in 1 .. BufferSize, Pending(n)
        PROVE  Pending(n)'
    <3>1. port = <<n>> /\ \A v \in Workers : wpc[v] # "handle"
      BY <1>0, <2>1 DEF Pending
    <3>2. port' = <<>> /\ size'[w] = n /\ wpc'[w] = "handle"
      BY <1>0, <1>1, <3>1
    <3>3. \A v \in Workers \ {w} : wpc'[v] # "handle"
      BY <1>0, <1>1, <3>1
    <3> QED
      BY <3>2, <3>3 DEF Pending
  <2> QED
    BY <1>0, <1>5, <1>8, <2>1 DEF Received, WholeReads
<1> QED
  BY <1>4, <1>6, <1>7, <1>9 DEF StreamInv

\* What OnRecv finds after it has counted the receive.
LEMMA HandleIs ==
  ASSUME StreamInv, Unspoilt,
         NEW w \in Workers, wpc[w] = "handle",
         NEW d \in SetupTotalBytes(io), io' = Counted(d, size[w])
  PROVE  \E k \in 0 .. Len(PacketLengths) :
           /\ Out = 1 .. k /\ k + 1 \in Packets
           /\ ~Uncleared /\ port = <<>> /\ \A v \in Workers \ {w} : wpc[v] # "handle"
           /\ io' \in [buffer : [1 .. BufferSize -> Nat], total : Nat, current : Nat]
           /\ io'.buffer = io.buffer /\ io'.total = PacketLengths[k + 1]
           /\ io'.current \in 1 .. io'.total /\ taken = Start[k + 1] + io'.current
           /\ Holds(io', io'.current, Start[k + 1])
           /\ WholeReads /\ (io'.current < io'.total => posted = <<>>)
<1>1. PICK k \in 0 .. Len(PacketLengths) :
        Out = 1 .. k /\ (Between(k) \/ PartRead(k) \/ Received(k))
  BY DEF StreamInv
<1>2. Received(k)
  BY <1>1 DEF Between, PartRead, Waiting
<1>3. PICK n \in 1 .. BufferSize :
        /\ Pending(n)
        /\ taken = Start[k + 1] + io.current + n
        /\ io.current + n <= PacketLengths[k + 1]
        /\ Holds(io, io.current + n, Start[k + 1])
        /\ \/ /\ io.current = 0 /\ io.total = 0 /\ n >= HeaderSize
              /\ WholeReads /\ (n < PacketLengths[k + 1] => posted = <<>>)
           \/ io.current \in 1 .. io.total - 1 /\ io.total = PacketLengths[k + 1] /\ posted = <<>>
  BY <1>2 DEF Received
<1>4. k + 1 \in Packets /\ ~Uncleared
  BY <1>2 DEF Received
<1>5. port = <<>> /\ size[w] = n /\ \A v \in Workers \ {w} : wpc[v] # "handle"
  BY <1>3 DEF Pending
<1>6. /\ n \in Nat /\ n > 0 /\ HeaderSize \in Nat /\ BufferSize \in Nat
      /\ PacketLengths[k + 1] \in Nat /\ PacketLengths[k + 1] > 0
      /\ Start[k + 1] \in Nat
  <2>1. BufferSize \in Nat /\ HeaderSize \in Nat /\ Len(PacketLengths) \in Nat
    BY Lengths
  <2>2. PacketLengths[k + 1] \in HeaderSize + 1 .. BufferSize
    BY <1>4, Lengths
  <2>3. k + 1 \in 1 .. Len(PacketLengths) + 1
    BY <2>1
  <2>4. Start[k + 1] \in Nat
    BY <2>3, Starts
  <2> QED
    BY <2>1, <2>2, <2>4
<1>7. io \in [buffer : [1 .. BufferSize -> Nat], total : Nat, current : Nat]
  BY ReaderTypes DEF StreamInv
<1>8. /\ d \in [buffer : [1 .. BufferSize -> Nat], total : Nat, current : Nat]
      /\ d.buffer = io.buffer /\ d.current = io.current /\ d.total = PacketLengths[k + 1]
  <2>1. CASE io.total = 0
    <3>1. io.current = 0 /\ n >= HeaderSize
      <4>1. ~(io.current \in 1 .. io.total - 1)
        BY <2>1
      <4> QED
        BY <1>3, <4>1
    <3>2. Holds(io, HeaderSize, Start[k + 1])
      <4>1. io.current + n = n
        BY <1>6, <3>1
      <4> QED
        BY <1>3, <1>6, <3>1, <4>1, HoldsLess
    <3>3. HeaderOf(io) = {k + 1}
      BY <1>4, <3>2, HeaderIs
    <3>4. d = [io EXCEPT !.total = PacketLengths[k + 1]]
      BY <2>1, <3>3 DEF SetupTotalBytes
    <3> QED
      BY <1>6, <1>7, <3>4
  <2>2. CASE io.total # 0
    <3>1. d = io
      BY <2>2 DEF SetupTotalBytes
    <3>2. io.total = PacketLengths[k + 1]
      BY <1>3, <2>2
    <3> QED
      BY <1>7, <3>1, <3>2
  <2> QED
    BY <2>1, <2>2
<1>9. /\ io' \in [buffer : [1 .. BufferSize -> Nat], total : Nat, current : Nat]
      /\ io'.buffer = io.buffer /\ io'.total = PacketLengths[k + 1]
      /\ io'.current = io.current + n
  <2>1. io' = Counted(d, n) /\ n \in Nat
    BY <1>5, <1>6
  <2>2. /\ io' \in [buffer : [1 .. BufferSize -> Nat], total : Nat, current : Nat]
        /\ io'.buffer = d.buffer /\ io'.total = d.total /\ io'.current = d.current + n
    BY <1>8, <2>1, CountedIs
  <2> QED
    BY <1>8, <2>2
<1>10. io.current \in Nat
  BY <1>7
<1>11. io'.current \in 1 .. io'.total /\ taken = Start[k + 1] + io'.current
  <2>1. taken = Start[k + 1] + io.current + n /\ io.current + n <= PacketLengths[k + 1]
    BY <1>3
  <2>2. io'.current = io.current + n /\ io'.total = PacketLengths[k + 1]
    BY <1>9
  <2>3. io.current + n \in 1 .. PacketLengths[k + 1]
    BY <1>6, <1>10, <2>1
  <2>4. taken = Start[k + 1] + (io.current + n)
    <3>1. Start[k + 1] \in Nat /\ io.current \in Nat /\ n \in Nat
      BY <1>6, <1>10
    <3> HIDE DEF Packets
    <3> QED
      BY <2>1, <3>1
  <2> QED
    BY <2>2, <2>3, <2>4
<1>12. Holds(io', io'.current, Start[k + 1])
  BY <1>3, <1>9 DEF Holds
<1>13. WholeReads /\ (io'.current < io'.total => posted = <<>>)
  <2>1. CASE posted = <<>>
    BY <2>1 DEF WholeReads
  <2>2. CASE posted # <<>>
    <3>1. io.current = 0 /\ WholeReads /\ ~(n < PacketLengths[k + 1])
      BY <1>3, <2>2
    <3> QED
      BY <1>6, <1>9, <3>1
  <2> QED
    BY <2>1, <2>2
<1> QED
  BY <1>1, <1>4, <1>5, <1>9, <1>11, <1>12, <1>13

\* OnRecv asks for the rest of the packet.
LEMMA HandlePartKeeps ==
  ASSUME StreamInv, NEW w \in Workers, HandlePart(w)
  PROVE  StreamInv'
<1>0. /\ Unspoilt /\ wpc[w] = "handle"
      /\ wpc' = [wpc EXCEPT ![w] = "wait"]
      /\ UNCHANGED <<sent, taken, port, size, package, delivered, replies, event>>
  BY DEF HandlePart
<1>1. PICK d \in SetupTotalBytes(io) :
        /\ io' = Counted(d, size[w])
        /\ NeedMoreIO(io')
        /\ posted' = Append(posted, Wsabuf(io'))
  BY DEF HandlePart
<1>2. PICK k \in 0 .. Len(PacketLengths) :
        /\ Out = 1 .. k /\ k + 1 \in Packets
        /\ ~Uncleared /\ port = <<>> /\ \A v \in Workers \ {w} : wpc[v] # "handle"
        /\ io' \in [buffer : [1 .. BufferSize -> Nat], total : Nat, current : Nat]
        /\ io'.buffer = io.buffer /\ io'.total = PacketLengths[k + 1]
        /\ io'.current \in 1 .. io'.total /\ taken = Start[k + 1] + io'.current
        /\ Holds(io', io'.current, Start[k + 1])
        /\ WholeReads /\ (io'.current < io'.total => posted = <<>>)
  BY <1>0, <1>1, HandleIs
<1>3. io'.current < io'.total
  BY <1>1 DEF NeedMoreIO
<1>4. /\ io'.current \in Nat /\ io'.total \in Nat /\ io'.total <= BufferSize /\ BufferSize \in Nat
      /\ io'.current > 0
  <2>1. io'.current \in Nat /\ io'.total \in Nat
    BY <1>2
  <2>2. PacketLengths[k + 1] \in HeaderSize + 1 .. BufferSize /\ HeaderSize \in Nat /\ BufferSize \in Nat
    BY <1>2, Lengths
  <2>3. io'.total <= BufferSize
    BY <1>2, <2>1, <2>2
  <2>4. io'.current > 0
    BY <1>2, <2>1
  <2> QED
    BY <2>1, <2>2, <2>3, <2>4
<1>5. posted' = <<Wsabuf(io')>>
  BY <1>1, <1>2, <1>3
<1>6. posted' \in Seq([at : 0 .. BufferSize, len : Nat])
  <2>1. io'.current \in 0 .. BufferSize /\ io'.total - io'.current \in 1 .. BufferSize
    BY <1>3, <1>4
  <2>2. Wsabuf(io') \in [at : 0 .. BufferSize, len : Nat]
    BY <1>4, <2>1 DEF Wsabuf
  <2> QED
    BY <1>5, <2>2
<1>7. wpc \in [Workers -> {"wait", "handle", "standby", "put"}]
  BY ReaderTypes DEF StreamInv
<1>8. wpc' \in [Workers -> {"wait", "handle", "standby", "put"}]
  BY <1>0, <1>7
<1>9. IoDataType(io', 0 .. taken')
  <2>1. taken \in Nat /\ \A i \in 1 .. BufferSize : io.buffer[i] <= taken
    BY ReaderTypes DEF StreamInv
  <2> QED
    BY <1>0, <1>2, <2>1, BufferType
<1>10. TypeOK'
  BY <1>0, <1>6, <1>8, <1>9 DEF TypeOK, StreamInv
<1>11. InHand' = InHand /\ ~Uncleared' /\ ~Waiting'
  BY <1>0, <1>2, <1>7 DEF InHand, Uncleared, Waiting
<1>12. PacketsIntact' /\ Out' = Out
  BY <1>0, <1>11, OutUntouched DEF StreamInv
<1>13. PartRead(k)'
  <2>1. io'.current \in 1 .. io'.total - 1
    BY <1>3, <1>4
  <2> QED
    BY <1>0, <1>2, <1>5, <1>11, <2>1 DEF PartRead
<1> QED
  BY <1>2, <1>10, <1>12, <1>13 DEF StreamInv

\* OnRecv takes the packet out of the buffer.
LEMMA HandleWholeKeeps ==
  ASSUME StreamInv, NEW w \in Workers, HandleWhole(w)
  PROVE  StreamInv'
<1>0. /\ Unspoilt /\ wpc[w] = "handle"
      /\ wpc' = [wpc EXCEPT ![w] = "standby"]
      /\ UNCHANGED <<sent, taken, posted, port, size, delivered, replies, event>>
  BY DEF HandleWhole
<1>1. PICK d \in SetupTotalBytes(io) :
        /\ io' = Counted(d, size[w])
        /\ ~NeedMoreIO(io')
        /\ package' = [package EXCEPT ![w] = Analyzed(io')]
  BY DEF HandleWhole
<1>2. PICK k \in 0 .. Len(PacketLengths) :
        /\ Out = 1 .. k /\ k + 1 \in Packets
        /\ ~Uncleared /\ port = <<>> /\ \A v \in Workers \ {w} : wpc[v] # "handle"
        /\ io' \in [buffer : [1 .. BufferSize -> Nat], total : Nat, current : Nat]
        /\ io'.buffer = io.buffer /\ io'.total = PacketLengths[k + 1]
        /\ io'.current \in 1 .. io'.total /\ taken = Start[k + 1] + io'.current
        /\ Holds(io', io'.current, Start[k + 1])
        /\ WholeReads /\ (io'.current < io'.total => posted = <<>>)
  BY <1>0, <1>1, HandleIs
<1>3. io'.current \in Nat /\ io'.total \in Nat /\ io'.current = io'.total
  <2>1. io'.current \in Nat /\ io'.total \in Nat
    BY <1>2
  <2> QED
    BY <1>1, <1>2, <2>1 DEF NeedMoreIO
<1>4. Analyzed(io') = k + 1
  <2>1. /\ PacketLengths[k + 1] \in HeaderSize + 1 .. BufferSize /\ HeaderSize \in Nat
        /\ BufferSize \in Nat
    BY <1>2, Lengths
  <2>2. Holds(io', io'.total, Start[k + 1])
    BY <1>2, <1>3
  <2>3. Holds(io', HeaderSize, Start[k + 1])
    <3>1. HeaderSize <= io'.total
      BY <1>2, <1>3, <2>1
    <3> QED
      BY <1>3, <2>1, <2>2, <3>1, HoldsLess
  <2>4. HeaderOf(io') = {k + 1}
    BY <1>2, <2>3, HeaderIs
  <2> QED
    BY <1>2, <2>2, <2>4 DEF Analyzed
<1>5. /\ wpc \in [Workers -> {"wait", "handle", "standby", "put"}]
      /\ package \in [Workers -> {0} \cup Packets]
      /\ Len(PacketLengths) \in Nat
  BY ReaderTypes, Lengths DEF StreamInv
<1>6. /\ wpc' \in [Workers -> {"wait", "handle", "standby", "put"}]
      /\ package' \in [Workers -> {0} \cup Packets]
  BY <1>0, <1>1, <1>2, <1>4, <1>5
<1>7. IoDataType(io', 0 .. taken')
  <2>1. taken \in Nat /\ \A i \in 1 .. BufferSize : io.buffer[i] <= taken
    BY ReaderTypes DEF StreamInv
  <2> QED
    BY <1>0, <1>2, <2>1, BufferType
<1>8. TypeOK'
  BY <1>0, <1>6, <1>7 DEF TypeOK, StreamInv
<1>9. /\ InHand' = InHand \cup {w} /\ w \notin InHand
      /\ Handed' = Handed
      /\ package'[w] = k + 1 /\ \A v \in InHand : package'[v] = package[v]
  BY <1>0, <1>1, <1>4, <1>5 DEF InHand, Handed
<1>10. k + 1 \notin Out /\ k + 1 # 0 /\ 1 .. k + 1 = (1 .. k) \cup {k + 1}
  BY <1>2, <1>5
<1>11. Out' = 1 .. k + 1
  BY <1>2, <1>9, <1>10 DEF Out
<1>12. PacketsIntact'
  <2>1. PacketsIntact
    BY DEF StreamInv
  <2>2. k + 1 \notin Handed /\ \A v \in InHand : package[v] # k + 1
    BY <1>10 DEF Out
  <2>3. \A v \in InHand' : package'[v] # 0 /\ package'[v] \notin Handed'
    BY <1>9, <1>10, <2>1, <2>2 DEF PacketsIntact
  <2>4. \A u, v \in InHand' : package'[u] = package'[v] => u = v
    BY <1>9, <2>1, <2>2 DEF PacketsIntact
  <2> QED
    BY <1>0, <1>9, <2>1, <2>3, <2>4 DEF PacketsIntact
<1>13. Between(k + 1)'
  <2>1. ~Waiting' /\ Uncleared' /\ WholeReads'
    BY <1>0, <1>2, <1>5 DEF Waiting, Uncleared, WholeReads
  <2>2. Start[k + 1 + 1] = Start[k + 1] + PacketLengths[k + 1]
    BY <1>2, Starts
  <2> QED
    BY <1>0, <1>2, <1>3, <2>1, <2>2 DEF Between
<1>14. k + 1 \in 0 .. Len(PacketLengths)
  BY <1>2, <1>5 DEF Packets
<1> QED
  BY <1>8, <1>11, <1>12, <1>13, <1>14 DEF StreamInv

\* A header that says the length of no packet: buffer_ stays as it is, and the counters are
\* numbers still, however long the packet is taken for.
LEMMA BadLengthKeeps ==
  ASSUME StreamInv, NEW w \in Workers, BadLength(w)
  PROVE  StreamInv'
<1>0. /\ wpc[w] = "handle" /\ event' = "bad length"
      /\ posted' = posted \/ (io'.current < io'.total /\ posted' = Append(posted, Wsabuf(io')))
      /\ UNCHANGED <<sent, taken, port, wpc, size, package, delivered, replies>>
  BY DEF BadLength, workerVars, NeedMoreIO
<1>1. PICK len \in BadLengths : io' = Counted([io EXCEPT !.total = Unsigned(len)], size[w])
  BY DEF BadLength
<1>2. /\ io \in [buffer : [1 .. BufferSize -> Nat], total : Nat, current : Nat]
      /\ taken \in Nat /\ \A i \in 1 .. BufferSize : io.buffer[i] <= taken
      /\ posted \in Seq([at : 0 .. BufferSize, len : Nat])
      /\ size \in [Workers -> 0 .. BufferSize]
  BY ReaderTypes DEF StreamInv
<1>3. Unsigned(len) \in Nat
  <2>1. len \in -IntLimit .. IntLimit - 1 /\ IntLimit \in Nat
    BY ReaderAssumption
  <2> QED
    BY <2>1 DEF Unsigned
<1>4. /\ io' \in [buffer : [1 .. BufferSize -> Nat], total : Nat, current : Nat]
      /\ io'.buffer = io.buffer /\ io'.current = io.current + size[w]
  <2> DEFINE d == [io EXCEPT !.total = Unsigned(len)]
  <2>1. /\ d \in [buffer : [1 .. BufferSize -> Nat], total : Nat, current : Nat]
        /\ d.buffer = io.buffer /\ d.current = io.current
    BY <1>2, <1>3
  <2>2. size[w] \in Nat /\ io' = Counted(d, size[w])
    BY <1>1, <1>2, Lengths
  <2> HIDE DEF d
  <2> QED
    BY <2>1, <2>2, CountedIs
<1>5. IoDataType(io', 0 .. taken')
  BY <1>0, <1>2, <1>4, BufferType
<1>6. io'.current \in 0 .. BufferSize
  <2>1. PICK k \in 0 .. Len(PacketLengths) : Between(k) \/ PartRead(k) \/ Received(k)
    BY DEF StreamInv, BadLength
  <2>2. Received(k)
    BY <1>0, <2>1 DEF Between, PartRead, Waiting
  <2>3. PICK n \in 1 .. BufferSize : Pending(n) /\ io.current + n <= PacketLengths[k + 1]
    BY <2>2 DEF Received
  <2>4. size[w] = n
    BY <1>0, <2>3 DEF Pending
  <2>5. k + 1 \in Packets /\ PacketLengths[k + 1] \in HeaderSize + 1 .. BufferSize
    BY <2>2, Lengths DEF Received
  <2> QED
    <3>1. PacketLengths[k + 1] \in Nat /\ PacketLengths[k + 1] <= BufferSize
      BY <2>5, Lengths
    <3>2. io.current \in Nat /\ n \in Nat /\ BufferSize \in Nat /\ io'.current = io.current + n
      BY <1>2, <1>4, <2>4, Lengths
    <3> QED
      BY <2>3, <3>1, <3>2
<1>7. posted' \in Seq([at : 0 .. BufferSize, len : Nat])
  <2>1. CASE posted' = posted
    BY <1>2, <2>1
  <2>2. CASE io'.current < io'.total /\ posted' = Append(posted, Wsabuf(io'))
    <3>1. Wsabuf(io') \in [at : 0 .. BufferSize, len : Nat]
      <4>1. io'.total - io'.current \in Nat
        BY <1>4, <2>2
      <4> QED
        BY <1>6, <4>1 DEF Wsabuf
    <3> QED
      BY <1>2, <2>2, <3>1
  <2> QED
    BY <1>0, <2>1, <2>2
<1>8. TypeOK'
  BY <1>0, <1>5, <1>7 DEF TypeOK, StreamInv
<1>9. PacketsIntact'
  BY <1>0, HandUntouched DEF StreamInv
<1> QED
  BY <1>0, <1>8, <1>9 DEF StreamInv, Unspoilt

\* RecvStandBy, on the worker's own call or on SendPacket's: where it does not spoil
\* the stream, no byte that counts is in the buffer, and the next read may take a packet.
LEMMA StandByType ==
  ASSUME TypeOK, RecvStandBy
  PROVE  /\ IoDataType(io', 0 .. taken)
         /\ posted' \in Seq([at : 0 .. BufferSize, len : Nat])
         /\ event' \in {"none", "wiped"}
         /\ io'.total = 0 /\ io'.current = 0
<1>0. /\ io' = Cleared(io) /\ posted' = Append(posted, WholeBuffer)
      /\ event' = ClearEvent
  BY DEF RecvStandBy
<1>1. /\ taken \in Nat
      /\ io \in [buffer : [1 .. BufferSize -> Nat], total : Nat, current : Nat]
      /\ posted \in Seq([at : 0 .. BufferSize, len : Nat])
  BY ReaderTypes
<1>2. /\ io' \in [buffer : [1 .. BufferSize -> Nat], total : Nat, current : Nat]
      /\ \A i \in 1 .. BufferSize : io'.buffer[i] = 0
      /\ io'.total = 0 /\ io'.current = 0
  BY <1>0, <1>1, ClearedIs
<1>3. \A i \in 1 .. BufferSize : io'.buffer[i] <= taken
  BY <1>1, <1>2
<1>4. IoDataType(io', 0 .. taken)
  BY <1>1, <1>2, <1>3, BufferType
<1>5. WholeBuffer \in [at : 0 .. BufferSize, len : Nat]
  <2>1. 0 \in 0 .. BufferSize /\ BufferSize \in Nat
    BY Lengths 
  <2> QED
    BY <2>1 DEF WholeBuffer
<1>6. posted' \in Seq([at : 0 .. BufferSize, len : Nat])
  BY <1>0, <1>1, <1>5
<1> QED
  BY <1>0, <1>2, <1>4, <1>6 DEF ClearEvent

LEMMA StandByClean ==
  ASSUME StreamInv, Unspoilt, RecvStandBy,
         Unspoilt'
  PROVE  \E k \in 0 .. Len(PacketLengths) :
           /\ Out = 1 .. k
           /\ taken = Start[k + 1] /\ ~Waiting /\ WholeReads'
<1>0. /\ posted' = Append(posted, WholeBuffer) /\ ClearEvent = "none"
  BY DEF RecvStandBy, Unspoilt
<1>1. ~Waiting /\ ~Unfinished
  BY <1>0 DEF ClearEvent
<1>2. /\ io \in [buffer : [1 .. BufferSize -> Nat], total : Nat, current : Nat]
      /\ posted \in Seq([at : 0 .. BufferSize, len : Nat])
  BY ReaderTypes DEF StreamInv
<1>3. PICK k \in 0 .. Len(PacketLengths) :
        Out = 1 .. k /\ (Between(k) \/ PartRead(k) \/ Received(k))
  BY DEF StreamInv
<1>4. ~Received(k)
  <2>1. ASSUME NEW n \in 1 .. BufferSize, Pending(n)
        PROVE  Waiting
    <3>1. <<n>> # <<>>
      OBVIOUS
    <3> QED
      BY <2>1, <3>1 DEF Pending, Waiting
  <2> QED
    BY <1>1, <2>1 DEF Received
<1>5. ~PartRead(k)
  <2> SUFFICES ASSUME PartRead(k)
               PROVE  FALSE
    OBVIOUS
  <2>1. io.current \in 1 .. io.total - 1 /\ io.total \in Nat /\ io.current \in Nat
    BY <1>2 DEF PartRead
  <2>2. io.current > 0 /\ io.current < io.total
    BY <2>1
  <2> QED
    BY <1>1, <2>2 DEF Unfinished, NeedMoreIO
<1>6. taken = Start[k + 1] /\ WholeReads
  BY <1>3, <1>4, <1>5 DEF Between
<1>7. WholeReads'
  <2>1. \A i \in DOMAIN posted' : posted'[i] = WholeBuffer \/ (i \in DOMAIN posted /\ posted'[i] = posted[i])
    <3> DEFINE R == [at : 0 .. BufferSize, len : Nat]
    <3> HIDE DEF WholeBuffer, R
    <3>1. posted \in Seq(R) /\ posted' = Append(posted, WholeBuffer)
      BY <1>0, <1>2 DEF R
    <3>2. \A i \in DOMAIN Append(posted, WholeBuffer) :
            \/ Append(posted, WholeBuffer)[i] = WholeBuffer
            \/ i \in DOMAIN posted /\ Append(posted, WholeBuffer)[i] = posted[i]
      BY <3>1
    <3> QED
      BY <3>1, <3>2
  <2>2. \A i \in DOMAIN posted : posted[i] = WholeBuffer
    BY <1>6 DEF WholeReads
  <2>3. WholeBuffer' = WholeBuffer
    BY DEF WholeBuffer
  <2> QED
    BY <2>1, <2>2, <2>3 DEF WholeReads
<1> QED
  BY <1>1, <1>3, <1>6, <1>7

\* A worker clears the buffer for the next packet.
LEMMA StandByKeeps ==
  ASSUME StreamInv, NEW w \in Workers, StandBy(w)
  PROVE  StreamInv'
<1>0. /\ Unspoilt /\ wpc[w] = "standby" /\ RecvStandBy
      /\ wpc' = [wpc EXCEPT ![w] = "put"]
      /\ UNCHANGED <<sent, taken, port, size, package, delivered, replies>>
  BY DEF StandBy
<1>1. wpc \in [Workers -> {"wait", "handle", "standby", "put"}]
  BY ReaderTypes DEF StreamInv
<1>2. /\ IoDataType(io', 0 .. taken)
      /\ posted' \in Seq([at : 0 .. BufferSize, len : Nat])
      /\ event' \in {"none", "wiped"}
      /\ io'.total = 0 /\ io'.current = 0
  BY <1>0, StandByType DEF StreamInv
<1>3. wpc' \in [Workers -> {"wait", "handle", "standby", "put"}]
  BY <1>0, <1>1
<1>4. TypeOK'
  BY <1>0, <1>2, <1>3 DEF TypeOK, StreamInv
<1>5. InHand' = InHand /\ (Waiting' <=> Waiting)
  BY <1>0, <1>1 DEF InHand, Waiting
<1>6. PacketsIntact' /\ Out' = Out
  BY <1>0, <1>5, OutUntouched DEF StreamInv
<1>7. ASSUME Unspoilt'
      PROVE  \E k \in 0 .. Len(PacketLengths) : Out' = 1 .. k /\ Between(k)'
  <2>1. PICK k \in 0 .. Len(PacketLengths) :
          /\ Out = 1 .. k
          /\ taken = Start[k + 1] /\ ~Waiting /\ WholeReads'
    BY <1>0, <1>7, StandByClean
  <2>2. Between(k)'
    BY <1>0, <1>2, <1>5, <2>1 DEF Between
  <2> QED
    BY <1>6, <2>1, <2>2
<1> QED
  BY <1>4, <1>6, <1>7 DEF StreamInv

\* A packet that the contents process sends ends with a RecvStandBy too.
LEMMA ReplyKeeps ==
  ASSUME StreamInv, Reply
  PROVE  StreamInv'
<1>0. /\ Unspoilt /\ replies < MaxReplies /\ RecvStandBy
      /\ replies' = replies + 1
      /\ UNCHANGED <<sent, taken, port, wpc, size, package, delivered>>
  BY DEF Reply, workerVars
<1>1. /\ IoDataType(io', 0 .. taken)
      /\ posted' \in Seq([at : 0 .. BufferSize, len : Nat])
      /\ event' \in {"none", "wiped"}
      /\ io'.total = 0 /\ io'.current = 0
  BY <1>0, StandByType DEF StreamInv
<1>2. replies' \in 0 .. MaxReplies
  <2>1. replies \in 0 .. MaxReplies /\ MaxReplies \in Nat
    BY ReaderTypes, Lengths DEF StreamInv
  <2> QED
    BY <1>0, <2>1
<1>3. TypeOK'
  BY <1>0, <1>1, <1>2 DEF TypeOK, StreamInv
<1>4. /\ PacketsIntact' /\ Out' = Out
      /\ (Uncleared' <=> Uncleared)
  BY <1>0, HandUntouched DEF StreamInv
<1>5. Waiting' <=> Waiting
  BY <1>0 DEF Waiting
<1>6. ASSUME Unspoilt'
      PROVE  \E k \in 0 .. Len(PacketLengths) : Out' = 1 .. k /\ Between(k)'
  <2>1. PICK k \in 0 .. Len(PacketLengths) :
          /\ Out = 1 .. k
          /\ taken = Start[k + 1] /\ ~Waiting /\ WholeReads'
    BY <1>0, <1>6, StandByClean
  <2>2. Between(k)'
    BY <1>0, <1>1, <1>5, <2>1 DEF Between
  <2> QED
    BY <1>4, <2>1, <2>2
<1> QED
  BY <1>3, <1>4, <1>6 DEF StreamInv

\* A worker hands its package over: it was in nobody else's hand, and not handed yet.
LEMMA PutPackageKeeps ==
  ASSUME StreamInv, NEW w \in Workers, PutPackage(w)
  PROVE  StreamInv'
<1>0. /\ Unspoilt /\ wpc[w] = "put"
      /\ delivered' = Append(delivered, package[w])
      /\ package' = [package EXCEPT ![w] = 0]
      /\ wpc' = [wpc EXCEPT ![w] = "wait"]
      /\ UNCHANGED <<sent, taken, io, posted, port, size, replies, event>>
  BY DEF PutPackage
<1>1. /\ wpc \in [Workers -> {"wait", "handle", "standby", "put"}]
      /\ package \in [Workers -> {0} \cup Packets]
      /\ delivered \in Seq({0} \cup Packets)
  BY ReaderTypes DEF StreamInv
<1>2. /\ wpc' \in [Workers -> {"wait", "handle", "standby", "put"}]
      /\ package' \in [Workers -> {0} \cup Packets]
  BY <1>0, <1>1
<1>3. delivered' \in Seq({0} \cup Packets)
  <2>1. package[w] \in {0} \cup Packets
    BY <1>1
  <2> QED
    BY <1>0, <1>1, <2>1
<1>4. TypeOK'
  BY <1>0, <1>2, <1>3 DEF TypeOK, StreamInv
<1>5. /\ InHand' = InHand \ {w} /\ w \in InHand
      /\ \A v \in InHand' : package'[v] = package[v]
  BY <1>0, <1>1 DEF InHand
<1>6. /\ DOMAIN delivered' = DOMAIN delivered \cup {Len(delivered) + 1} /\ Len(delivered) + 1 \notin DOMAIN delivered
      /\ delivered'[Len(delivered) + 1] = package[w]
      /\ \A i \in DOMAIN delivered : delivered'[i] = delivered[i]
  BY <1>0, <1>1
<1>7. Handed' = Handed \cup {package[w]}
  BY <1>6 DEF Handed
<1>8. Out' = Out
  <2>1. {package'[v] : v \in InHand'} \cup {package[w]} = {package[v] : v \in InHand}
    BY <1>5
  <2> QED
    BY <1>7, <2>1 DEF Out
<1>9. PacketsIntact'
  <2>0. PacketsIntact
    BY DEF StreamInv
  <2>1. /\ 0 \notin Handed /\ \A v \in InHand : package[v] # 0
        /\ \A i, j \in DOMAIN delivered : delivered[i] = delivered[j] => i = j
        /\ \A v \in InHand : package[v] \notin Handed
        /\ \A u, v \in InHand : package[u] = package[v] => u = v
    BY <2>0 DEF PacketsIntact
  <2>2. 0 \notin Handed' /\ \A v \in InHand' : package'[v] # 0
    BY <1>5, <1>7, <2>1
  <2>3. ASSUME NEW i \in DOMAIN delivered', NEW j \in DOMAIN delivered', delivered'[i] = delivered'[j]
        PROVE  i = j
    <3>1. \A l \in DOMAIN delivered : delivered[l] # package[w]
      BY <1>5, <2>1 DEF Handed
    <3> QED
      BY <1>6, <2>1, <2>3, <3>1
  <2>4. \A v \in InHand' : package'[v] \notin Handed'
    BY <1>5, <1>7, <2>1
  <2>5. \A u, v \in InHand' : package'[u] = package'[v] => u = v
    BY <1>5, <2>1
  <2> QED
    BY <2>2, <2>3, <2>4, <2>5 DEF PacketsIntact
<1>10. /\ (Waiting' <=> Waiting) /\ (Uncleared' <=> Uncleared)
       /\ \A n \in 1 .. BufferSize : Pending(n) => Pending(n)'
  <2>1. \A v \in Workers :
          /\ wpc'[v] = "handle" <=> wpc[v] = "handle"
          /\ wpc'[v] = "standby" <=> wpc[v] = "standby"
    BY <1>0, <1>1
  <2> QED
    BY <1>0, <2>1 DEF Waiting, Uncleared, Pending
<1>11. PICK k \in 0 .. Len(PacketLengths) :
         Out = 1 .. k /\ (Between(k) \/ PartRead(k) \/ Received(k))
  BY <1>0 DEF StreamInv
<1>12. WholeReads' <=> WholeReads
  BY <1>0 DEF WholeReads
<1>13. CASE Between(k)
  <2>1. Between(k)'
    BY <1>0, <1>10, <1>12, <1>13 DEF Between
  <2> QED
    BY <1>4, <1>8, <1>9, <1>11, <2>1 DEF StreamInv
<1>14. CASE PartRead(k)
  <2>1. PartRead(k)'
    BY <1>0, <1>10, <1>14 DEF PartRead
  <2> QED
    BY <1>4, <1>8, <1>9, <1>11, <2>1 DEF StreamInv
<1>15. CASE Received(k)
  <2>1. Received(k)'
    BY <1>0, <1>10, <1>12, <1>15 DEF Received
  <2> QED
    BY <1>4, <1>8, <1>9, <1>11, <2>1 DEF StreamInv
<1> QED
  BY <1>11, <1>13, <1>14, <1>15

\* The server's first RecvStandBy has asked for the first packet.
LEMMA StreamInit ==
  ASSUME Init
  PROVE  StreamInv
<1>0. /\ sent = 0 /\ taken = 0
      /\ io = NewIoData
      /\ posted = <<WholeBuffer>> /\ port = <<>>
      /\ wpc = [w \in Workers |-> "wait"]
      /\ size = [w \in Workers |-> 0]
      /\ package = [w \in Workers |-> 0]
      /\ delivered = <<>> /\ replies = 0
      /\ event = "none"
  BY DEF Init
<1>1. /\ BufferSize \in Nat /\ BufferSize >= 1 /\ MaxReplies \in Nat
      /\ Len(PacketLengths) \in Nat /\ 1 \in 1 .. Len(PacketLengths) + 1
  BY Lengths 
<1>2. Start[1] = 0
  BY <1>1, Starts
<1>3. IoDataType(io, 0 .. 0) /\ io.total = 0 /\ io.current = 0
  <2>1. 0 \in Nat /\ 0 \in 0 .. 0
    OBVIOUS
  <2> QED
    BY <1>0, <2>1 DEF IoDataType, NewIoData
<1>4. posted \in Seq([at : 0 .. BufferSize, len : Nat])
  <2>1. 0 \in 0 .. BufferSize /\ BufferSize \in Nat
    BY <1>1
  <2>2. WholeBuffer \in [at : 0 .. BufferSize, len : Nat]
    BY <2>1 DEF WholeBuffer
  <2> QED
    BY <1>0, <2>2
<1>5. sent \in 0 .. Len(PacketLengths) /\ taken \in 0 .. Start[sent + 1]
  <2>1. sent + 1 = 1 /\ 0 \in 0 .. Len(PacketLengths)
    BY <1>0, <1>1
  <2> QED
    BY <1>0, <1>2, <2>1
<1>6. TypeOK
  <2>1. port \in Seq(1 .. BufferSize) /\ delivered \in Seq({0} \cup Packets)
    BY <1>0
  <2>2. size \in [Workers -> 0 .. BufferSize]
    BY <1>0, <1>1
  <2>3. replies \in 0 .. MaxReplies
    BY <1>0, <1>1
  <2> QED
    BY <1>0, <1>3, <1>4, <1>5, <2>1, <2>2, <2>3 DEF TypeOK
<1>7. InHand = {} /\ Handed = {}
  BY <1>0 DEF InHand, Handed
<1>8. PacketsIntact
  BY <1>0, <1>7 DEF PacketsIntact
<1>9. Out = 1 .. 0
  BY <1>7 DEF Out
<1>10. Between(0)
  <2>1. ~Waiting /\ WholeReads
    BY <1>0 DEF Waiting, WholeReads
  <2>2. taken = Start[0 + 1]
    BY <1>0, <1>2
  <2> QED
    BY <1>3, <2>1, <2>2 DEF Between
<1>11. 0 \in 0 .. Len(PacketLengths)
  BY <1>1
<1> QED
  BY <1>6, <1>8, <1>9, <1>10, <1>11 DEF StreamInv

LEMMA StreamStutter ==
  ASSUME StreamInv, UNCHANGED vars
  PROVE  StreamInv'
<1>0. UNCHANGED <<sent, taken, io, posted, port, wpc, size, package, delivered, replies, event>>
  BY DEF vars, workerVars
<1>1. TypeOK' <=> TypeOK
  BY <1>0 DEF TypeOK
<1>2. /\ (Waiting' <=> Waiting)
      /\ (WholeReads' <=> WholeReads)
      /\ \A n : Pending(n)' <=> Pending(n)
  BY <1>0 DEF Waiting, WholeReads, Pending
<1>3. /\ PacketsIntact' <=> PacketsIntact
      /\ Out' = Out
      /\ Uncleared' <=> Uncleared
      /\ Unspoilt' <=> Unspoilt
  BY <1>0 DEF PacketsIntact, Out, Uncleared, Unspoilt,
              InHand, Handed
<1>4. ASSUME NEW k
      PROVE  /\ Between(k)' <=> Between(k)
             /\ PartRead(k)' <=> PartRead(k)
             /\ Received(k)' <=> Received(k)
  BY <1>0, <1>2, <1>3 DEF Between, PartRead, Received
<1> QED
  BY <1>1, <1>3, <1>4 DEF StreamInv

\* However the stream is cut into receives, and whichever workers deal with them, the
\* packets up to some k are out, and the bytes after them are packet k + 1's.
THEOREM ReaderInvariant == Spec => []StreamInv
<1>1. Init => StreamInv
  BY StreamInit
<1>2. ASSUME StreamInv, [Next]_vars
      PROVE  StreamInv'
  <2>1. CASE ClientSend
    BY <1>2, <2>1, ClientSendKeeps
  <2>2. ASSUME NEW n \in 1 .. BufferSize, FinishRead(n)
        PROVE  StreamInv'
    BY <1>2, <2>2, FinishReadKeeps
  <2>3. ASSUME NEW w \in Workers, Worker(w)
        PROVE  StreamInv'
    <3>1. CASE Dequeue(w)
      BY <1>2, <3>1, DequeueKeeps
    <3>2. CASE HandlePart(w)
      BY <1>2, <3>2, HandlePartKeeps
    <3>3. CASE HandleWhole(w)
      BY <1>2, <3>3, HandleWholeKeeps
    <3>4. CASE StandBy(w)
      BY <1>2, <3>4, StandByKeeps
    <3>6. CASE BadLength(w)
      BY <1>2, <3>6, BadLengthKeeps
    <3>5. CASE PutPackage(w)
      BY <1>2, <3>5, PutPackageKeeps
    <3> QED
      BY <2>3, <3>1, <3>2, <3>3, <3>4, <3>5, <3>6 DEF Worker
  <2>4. CASE Reply
    BY <1>2, <2>4, ReplyKeeps
  <2>5. CASE UNCHANGED vars
    BY <1>2, <2>5, StreamStutter
  <2> QED
    BY <1>2, <2>1, <2>2, <2>3, <2>4, <2>5 DEF Next, Worker
<1> QED
  BY <1>1, <1>2, PTL DEF Spec

\* Each packet that is out was sent, whole, and is out once: no event that OnRecv does
\* not survive has been forgotten.
THEOREM PacketsStayIntact == Spec => []PacketsIntact
<1>1. StreamInv => PacketsIntact
  BY DEF StreamInv
<1> QED
  BY <1>1, ReaderInvariant, PTL

\* The counters say where every byte is.
LEMMA BytesAreConserved ==
  ASSUME StreamInv
  PROVE  BytesConserved
<1> SUFFICES ASSUME Unspoilt
             PROVE  \E k \in 0 .. Len(PacketLengths), n \in 0 .. BufferSize :
                      /\ Out = 1 .. k
                      /\ IF Waiting THEN Pending(n) ELSE n = 0
                      /\ taken = Start[k + 1]
                                    + (IF NeedMoreIO(io) THEN io.current ELSE 0) + n
  BY DEF BytesConserved
<1>1. PICK k \in 0 .. Len(PacketLengths) :
        Out = 1 .. k /\ (Between(k) \/ PartRead(k) \/ Received(k))
  BY DEF StreamInv
<1>2. io.current \in Nat /\ io.total \in Nat
  BY ReaderTypes DEF StreamInv
<1>3. Start[k + 1] \in Nat /\ BufferSize \in Nat
  <2>1. k + 1 \in 1 .. Len(PacketLengths) + 1
    BY Lengths
  <2> QED
    BY <2>1, Starts, Lengths
<1>4. CASE Between(k)
  <2>1. ~NeedMoreIO(io) /\ ~Waiting /\ taken = Start[k + 1]
    BY <1>2, <1>4 DEF Between, NeedMoreIO
  <2>2. taken = Start[k + 1] + 0 + 0 /\ 0 \in 0 .. BufferSize
    <3> HIDE DEF Packets
    <3> QED
      BY <1>3, <2>1
  <2> QED
    BY <1>1, <2>1, <2>2
<1>5. CASE PartRead(k)
  <2>1. io.current \in 1 .. io.total - 1 /\ ~Waiting /\ taken = Start[k + 1] + io.current
    BY <1>5 DEF PartRead
  <2>2. NeedMoreIO(io)
    BY <1>2, <2>1 DEF NeedMoreIO
  <2>3. taken = Start[k + 1] + io.current + 0 /\ 0 \in 0 .. BufferSize
    BY <1>2, <1>3, <2>1
  <2> QED
    BY <1>1, <2>1, <2>2, <2>3
<1>6. CASE Received(k)
  <2>1. PICK n \in 1 .. BufferSize :
          /\ Pending(n)
          /\ taken = Start[k + 1] + io.current + n
          /\ io.current = 0 \/ io.current \in 1 .. io.total - 1
    BY <1>6 DEF Received
  <2>2. Waiting
    <3>1. <<n>> # <<>>
      OBVIOUS
    <3> QED
      BY <2>1, <3>1 DEF Pending, Waiting
  <2>3. (IF NeedMoreIO(io) THEN io.current ELSE 0) = io.current
    BY <1>2, <2>1 DEF NeedMoreIO
  <2>4. n \in 0 .. BufferSize
    BY <1>3
  <2> QED
    BY <1>1, <2>1, <2>2, <2>3, <2>4
<1> QED
  BY <1>1, <1>4, <1>5, <1>6

\* A read for a whole packet has the whole buffer, one for the rest of a packet what is
\* left of the packet, which is no longer than the buffer.
LEMMA ReadsFit ==
  ASSUME StreamInv
  PROVE  ReadsFitBuffer
<1> SUFFICES ASSUME Unspoilt, NEW i \in DOMAIN posted
             PROVE  posted[i].at + posted[i].len <= BufferSize
  BY DEF ReadsFitBuffer
<1>1. PICK k \in 0 .. Len(PacketLengths) :
        Between(k) \/ PartRead(k) \/ Received(k)
  BY DEF StreamInv
<1>2. io.current \in Nat /\ io.total \in Nat /\ BufferSize \in Nat
  BY ReaderTypes, Lengths DEF StreamInv
<1>3. CASE posted[i] = WholeBuffer
  BY <1>2, <1>3 DEF WholeBuffer
<1>4. CASE PartRead(k)
  <2>1. posted = <<Wsabuf(io)>> /\ k + 1 \in Packets /\ io.total = PacketLengths[k + 1]
    BY <1>4 DEF PartRead
  <2>2. posted[i] = Wsabuf(io)
    BY <2>1
  <2>3. io.total <= BufferSize
    <3>1. PacketLengths[k + 1] \in HeaderSize + 1 .. BufferSize
      BY <2>1, Lengths
    <3> QED
      BY <1>2, <2>1, <3>1
  <2>4. posted[i].at + posted[i].len = io.total
    BY <1>2, <2>2 DEF Wsabuf
  <2> QED
    BY <2>3, <2>4
<1>5. CASE WholeReads
  BY <1>3, <1>5 DEF WholeReads
<1>6. CASE Received(k)
  <2>1. WholeReads \/ posted = <<>>
    BY <1>6 DEF Received
  <2> QED
    BY <1>5, <2>1
<1> QED
  BY <1>1, <1>4, <1>5, <1>6 DEF Between

\* For any workers and any sizes of the header, the buffer and the packets: as long as
\* nothing spoils the stream, no byte is lost; and as long as every header has said the
\* length of a packet that fits into it, no read leaves buffer_.
THEOREM ReaderCorrect == Spec => []ReaderInv
<1>1. StreamInv => ReaderInv
  BY BytesAreConserved, ReadsFit DEF ReaderInv, StreamInv
<1> QED
  BY <1>1, ReaderInvariant, PTL
=============================================================================
