--------------------------- MODULE Terminal_proofs ---------------------------
(***************************************************************************)
(* Proofs about Terminal, for packets of any number and lengths: the       *)
(* packages come in the order of their packets through any number of       *)
(* connections (StreamInv), and the peer of every connection has been told *)
(* once that this is a terminal (IntroInv).                                *)
(*                                                                         *)
(* That packets lie one after another in the stream is an induction on     *)
(* their numbers; it is done by the least number for which it fails.       *)
(***************************************************************************)
EXTENDS Terminal, WellFoundedInduction, TLAPS

-----------------------------------------------------------------------------
(* The stream.                                                             *)

\* A set of numbers that has a member has a least one.
LEMMA LeastNumber ==
  ASSUME NEW T \in SUBSET Nat, T # {}
  PROVE  \E x \in T : \A y \in T : x <= y
<1> DEFINE Less == {ss \in Nat \X Nat : ss[1] < ss[2]}
<1>1. OpToRel(<, Nat) = Less
  BY DEF OpToRel
<1>2. PICK x \in T : \A y \in T : ~(<<y, x>> \in OpToRel(<, Nat))
  BY NatLessThanWellFounded, WFMin, Zenon
<1>3. \A y \in T : ~(y < x)
  BY <1>1, <1>2
<1> QED
  BY <1>3

\* Lengths have offsets: the recursion that defines Start has a solution.
LEMMA OffsetsExist ==
  ASSUME NEW k \in Nat, NEW lens \in [1 .. k -> Nat]
  PROVE  \E f \in [1 .. k + 1 -> Nat] :
           f = [p \in 1 .. k + 1 |-> IF p = 1 THEN 0 ELSE f[p - 1] + lens[p - 1]]
<1> DEFINE Off(n) == \E f \in [1 .. n -> Nat] :
             /\ f[1] = 0
             /\ \A p \in 2 .. n : f[p] = f[p - 1] + lens[p - 1]
           Bad == {n \in 1 .. k + 1 : ~Off(n)}
<1>1. Off(1)
  <2>1. [i \in 1 .. 1 |-> 0] \in [1 .. 1 -> Nat] /\ [i \in 1 .. 1 |-> 0][1] = 0
    OBVIOUS
  <2>2. 2 .. 1 = {}
    OBVIOUS
  <2> QED
    BY <2>1, <2>2
<1>2. ASSUME NEW n \in 1 .. k, Off(n)
      PROVE  Off(n + 1)
  <2>1. PICK f \in [1 .. n -> Nat] :
          /\ f[1] = 0
          /\ \A p \in 2 .. n : f[p] = f[p - 1] + lens[p - 1]
    BY <1>2
  <2> DEFINE g == [p \in 1 .. n + 1 |-> IF p = n + 1 THEN f[n] + lens[n] ELSE f[p]]
  <2>2. f[n] \in Nat /\ lens[n] \in Nat
    OBVIOUS
  <2>3. g \in [1 .. n + 1 -> Nat]
    BY <2>2
  <2>4. g[1] = 0
    BY <2>1
  <2>5. \A p \in 2 .. n + 1 : g[p] = g[p - 1] + lens[p - 1]
    <3> SUFFICES ASSUME NEW p \in 2 .. n + 1
                 PROVE  g[p] = g[p - 1] + lens[p - 1]
      OBVIOUS
    <3>1. CASE p = n + 1
      BY <3>1
    <3>2. CASE p # n + 1
      BY <3>2, <2>1
    <3> QED
      BY <3>1, <3>2
  <2> HIDE DEF g
  <2> QED
    BY <2>3, <2>4, <2>5
<1>3. Bad = {}
  <2>1. SUFFICES ASSUME Bad # {}
                 PROVE  FALSE
    OBVIOUS
  <2>2. Bad \in SUBSET Nat
    OBVIOUS
  <2> HIDE DEF Off
  <2>3. PICK x \in Bad : \A y \in Bad : x <= y
    BY <2>1, <2>2, LeastNumber, Zenon
  <2>4. x # 1
    BY <1>1
  <2>5. x - 1 \in 1 .. k /\ x - 1 \notin Bad
    BY <2>3, <2>4
  <2>6. Off(x - 1)
    BY <2>5
  <2>7. Off(x - 1 + 1)
    BY <1>2, <2>5, <2>6, Zenon
  <2>8. x - 1 + 1 = x
    BY <2>4
  <2> QED
    BY <2>7, <2>8
<1>4. Off(k + 1)
  <2> HIDE DEF Off
  <2> QED
    BY <1>3
<1>5. PICK f \in [1 .. k + 1 -> Nat] :
        /\ f[1] = 0
        /\ \A p \in 2 .. k + 1 : f[p] = f[p - 1] + lens[p - 1]
  BY <1>4
<1>6. f = [p \in 1 .. k + 1 |-> IF p = 1 THEN 0 ELSE f[p - 1] + lens[p - 1]]
  <2>1. \A p \in 1 .. k + 1 : f[p] = IF p = 1 THEN 0 ELSE f[p - 1] + lens[p - 1]
    BY <1>5
  <2> QED
    BY <2>1
<1> QED
  BY <1>6

LEMMA Lengths ==
  /\ Len(PacketLengths) \in Nat
  /\ PacketLengths \in [1 .. Len(PacketLengths) -> Nat]
  /\ \A p \in Packets : PacketLengths[p] \in Nat /\ HeaderSize < PacketLengths[p]
  /\ HeaderSize \in Nat \ {0} /\ BufferSize \in Nat
BY TerminalAssumption DEF Packets

\* Start is what its definition says.
LEMMA Starts ==
  /\ Start \in [1 .. Len(PacketLengths) + 1 -> Nat]
  /\ Start[1] = 0
  /\ \A p \in Packets : Start[p + 1] = Start[p] + PacketLengths[p]
<1> DEFINE k == Len(PacketLengths)
<1>1. PICK f \in [1 .. k + 1 -> Nat] :
        f = [p \in 1 .. k + 1 |-> IF p = 1 THEN 0 ELSE f[p - 1] + PacketLengths[p - 1]]
  BY OffsetsExist, Lengths, Zenon
<1>2. Start = [p \in 1 .. k + 1 |-> IF p = 1 THEN 0 ELSE Start[p - 1] + PacketLengths[p - 1]]
  BY <1>1, Zenon DEF Start
<1>3. \A p \in 1 .. k + 1 : Start[p] = IF p = 1 THEN 0 ELSE Start[p - 1] + PacketLengths[p - 1]
  BY <1>2, Zenon
<1> HIDE DEF k
<1>4. k \in Nat /\ k = Len(PacketLengths)
  BY Lengths DEF k
<1>5. Start[1] = 0
  BY <1>3, <1>4
<1>6. \A p \in 1 .. k : Start[p + 1] = Start[p] + PacketLengths[p]
  <2> SUFFICES ASSUME NEW p \in 1 .. k
               PROVE  Start[p + 1] = Start[p] + PacketLengths[p]
    OBVIOUS
  <2>1. p + 1 \in 1 .. k + 1 /\ p + 1 # 1 /\ p + 1 - 1 = p
    BY <1>4
  <2> QED
    BY <1>3, <2>1
<1> DEFINE Bad == {p \in 1 .. k + 1 : Start[p] \notin Nat}
<1>7. Bad = {}
  <2>1. SUFFICES ASSUME Bad # {}
                 PROVE  FALSE
    OBVIOUS
  <2>2. Bad \in SUBSET Nat
    BY <1>4
  <2>3. PICK x \in Bad : \A y \in Bad : x <= y
    BY <2>1, <2>2, LeastNumber, Zenon
  <2>4. x \in 2 .. k + 1
    BY <1>4, <1>5, <2>3
  <2>5. x - 1 \in 1 .. k /\ Start[x - 1] \in Nat
    BY <1>4, <2>3, <2>4
  <2>6. PacketLengths[x - 1] \in Nat
    BY <1>4, <2>5, Lengths
  <2>7. Start[x] \in Nat
    BY <1>3, <1>4, <2>4, <2>5, <2>6
  <2> QED
    BY <2>3, <2>7
<1>8. \A p \in 1 .. k + 1 : Start[p] \in Nat
  BY <1>7
<1>9. Start \in [1 .. k + 1 -> Nat]
  BY <1>2, <1>8
<1> QED
  BY <1>4, <1>5, <1>6, <1>9 DEF Packets

LEMMA StartsGrow ==
  \A p, q \in 1 .. Len(PacketLengths) + 1 : p < q => Start[p] < Start[q]
<1> DEFINE k == Len(PacketLengths)
<1> HIDE DEF k
<1>1. k \in Nat /\ k = Len(PacketLengths)
  BY Lengths DEF k
<1>2. \A p \in 1 .. k : Start[p + 1] = Start[p] + PacketLengths[p] /\ PacketLengths[p] \in Nat \ {0}
  BY <1>1, Starts, Lengths DEF Packets
<1>3. \A p \in 1 .. k + 1 : Start[p] \in Nat
  BY <1>1, Starts
<1>4. SUFFICES ASSUME NEW p \in 1 .. k + 1
               PROVE  {q \in 1 .. k + 1 : p < q /\ ~(Start[p] < Start[q])} = {}
  BY <1>1
<1> DEFINE Bad == {q \in 1 .. k + 1 : p < q /\ ~(Start[p] < Start[q])}
<1>5. SUFFICES ASSUME Bad # {}
               PROVE  FALSE
  OBVIOUS
<1>6. Bad \in SUBSET Nat
  BY <1>1
<1>7. PICK x \in Bad : \A y \in Bad : x <= y
  BY <1>5, <1>6, LeastNumber, Zenon
<1>8. x - 1 \in 1 .. k /\ x - 1 \notin Bad /\ p <= x - 1
  <2>1. x \in 1 .. k + 1 /\ p < x
    BY <1>7
  <2>2. ~(x <= x - 1)
    BY <1>1, <2>1
  <2>3. x - 1 \notin Bad
    <3> HIDE DEF Bad
    <3> QED
      BY <1>7, <2>2
  <2> QED
    BY <1>1, <2>1, <2>3
<1>9. Start[p] <= Start[x - 1]
  BY <1>1, <1>3, <1>8
<1>10. Start[x - 1] < Start[x]
  <2>1. x \in 1 .. k + 1
    BY <1>7
  <2>2. Start[x - 1 + 1] = Start[x - 1] + PacketLengths[x - 1] /\ PacketLengths[x - 1] \in Nat \ {0}
    BY <1>2, <1>8
  <2>3. x - 1 + 1 = x /\ Start[x - 1] \in Nat
    BY <1>1, <1>3, <1>8, <2>1
  <2> QED
    BY <2>2, <2>3
<1> QED
  BY <1>1, <1>3, <1>7, <1>8, <1>9, <1>10

\* The packet a byte belongs to; at a boundary it is the one that starts there.
LEMMA PacketAtType ==
  ASSUME NEW pos \in Nat, pos < Start[Len(PacketLengths) + 1]
  PROVE  PacketAt(pos) \in Packets /\ Start[PacketAt(pos)] <= pos /\ pos < Start[PacketAt(pos) + 1]
<1> DEFINE k == Len(PacketLengths)
           After == {q \in 1 .. k + 1 : pos < Start[q]}
<1>1. k \in Nat
  BY Lengths
<1>2. \A p \in 1 .. k + 1 : Start[p] \in Nat
  BY Starts
<1>3. After \in SUBSET Nat /\ k + 1 \in After
  BY <1>1
<1>4. PICK x \in After : \A y \in After : x <= y
  BY <1>3, LeastNumber, Zenon
<1>5. x # 1
  BY <1>1, <1>4, Starts
<1>6. x - 1 \in 1 .. k /\ x - 1 \notin After
  BY <1>1, <1>4, <1>5
<1>7. Start[x - 1] <= pos /\ pos < Start[x - 1 + 1]
  BY <1>1, <1>2, <1>4, <1>6
<1>8. \E p \in Packets : Start[p] <= pos /\ pos < Start[p + 1]
  BY <1>6, <1>7 DEF Packets
<1> QED
  BY <1>8 DEF PacketAt

\* There is only one such packet.
LEMMA PacketUnique ==
  ASSUME NEW a \in Packets, NEW b \in Packets, NEW pos \in Nat,
         Start[a] <= pos, pos < Start[a + 1], Start[b] <= pos, pos < Start[b + 1]
  PROVE  a = b
<1> DEFINE k == Len(PacketLengths)
<1>1. k \in Nat /\ a \in 1 .. k /\ b \in 1 .. k
  BY Lengths DEF Packets
<1>2. \A p \in 1 .. k + 1 : Start[p] \in Nat
  BY Starts
<1>3. /\ a \in 1 .. k + 1 /\ a + 1 \in 1 .. k + 1 /\ b \in 1 .. k + 1 /\ b + 1 \in 1 .. k + 1
      /\ Start[a] \in Nat /\ Start[a + 1] \in Nat /\ Start[b] \in Nat /\ Start[b + 1] \in Nat
  BY <1>1, <1>2
<1>4. ~(a + 1 < b) /\ a + 1 # b
  <2>1. a + 1 < b => Start[a + 1] < Start[b]
    BY <1>3, StartsGrow
  <2> QED
    BY <1>3, <2>1
<1>5. ~(b + 1 < a) /\ b + 1 # a
  <2>1. b + 1 < a => Start[b + 1] < Start[a]
    BY <1>3, StartsGrow
  <2> QED
    BY <1>3, <2>1
<1> QED
  BY <1>1, <1>4, <1>5

LEMMA PacketAtBoundary ==
  ASSUME NEW s \in 0 .. Len(PacketLengths), NEW pos \in Boundaries, pos < Start[s + 1]
  PROVE  PacketAt(pos) \in 1 .. s /\ Start[PacketAt(pos)] = pos
<1> DEFINE k == Len(PacketLengths)
<1>1. k \in Nat /\ s \in Nat /\ s <= k
  BY Lengths
<1>2. \A p \in 1 .. k + 1 : Start[p] \in Nat
  BY Starts
<1>3. PICK b \in 1 .. k + 1 : pos = Start[b]
  BY DEF Boundaries
<1>4. b \in 1 .. s
  BY <1>1, <1>2, <1>3, StartsGrow
<1>5. pos \in Nat /\ pos < Start[k + 1]
  BY <1>1, <1>2, <1>3, <1>4, StartsGrow
<1>6. /\ PacketAt(pos) \in 1 .. k
      /\ Start[PacketAt(pos)] <= pos /\ pos < Start[PacketAt(pos) + 1]
  BY <1>5, PacketAtType DEF Packets
<1>7. PacketAt(pos) = b
  <2>1. b \in Packets /\ Start[b] <= pos /\ pos < Start[b + 1]
    BY <1>1, <1>2, <1>3, <1>4, StartsGrow DEF Packets
  <2>2. PacketAt(pos) \in Packets
    BY <1>6 DEF Packets
  <2> QED
    BY <1>5, <1>6, <2>1, <2>2, PacketUnique
<1> QED
  BY <1>3, <1>4, <1>7

-----------------------------------------------------------------------------
(* The invariant.                                                          *)

\* Nobody has told the peer before ConnectProcess comes to "notify", and from there on
\* SendPacket finds the terminal ready.
IntroInv ==
  /\ pc \in {"connect", "ready", "notify"} => \A i \in DOMAIN inbox : inbox[i] # "notify"
  /\ pc = "notify" \/ Talking => status = "ready"
  /\ IntroducesItself

\* The thread runs only when TerminalManager::Initialize has made the terminal.
StartInv == manager = "start" => pc = "none"

\* Between two packets, OnRecv stands at the start of one; what was handed over or given up
\* starts before that.  All this ends with the connection, and begins again with the next.
StreamInv ==
  /\ pc = "connect" => link = "unconnected"
  /\ pc # "more" /\ event = "none" /\ link # "lost" => taken \in Boundaries
  /\ package # 0 <=> pc \in {"more", "put"}
  /\ pc = "more" /\ link # "lost" => got \in 1 .. PacketLengths[package] - 1
  /\ \A p \in Handed \cup gone : Start[p] < taken
  /\ package # 0 => Start[package] < taken
  /\ PackagesInOrder

TerminalInv == TypeOK /\ StartInv /\ IntroInv /\ StreamInv

-----------------------------------------------------------------------------
(* Its parts, one action at a time.                                        *)

LEMMA StartStep ==
  ASSUME StartInv, [Next]_vars
  PROVE  StartInv'
<1> USE DEF StartInv
<1>1. CASE StartTerminal
  BY <1>1 DEF StartTerminal
<1>2. CASE Put
  BY <1>2 DEF Put
<1>3. CASE \/ PeerSend \/ PeerClose \/ PeerLost \/ ContentsSend \/ MakeSocket \/ Connect
           \/ Ready \/ Notify \/ RecvError \/ Disconnected \/ UnknownPacket \/ PutPackage
  BY <1>3 DEF PeerSend, PeerClose, PeerLost, ContentsSend, MakeSocket, Connect, Ready, Notify,
              RecvError, Disconnected, UnknownPacket, PutPackage
<1>4. ASSUME NEW n \in 1 .. BufferSize, RecvNoHeader(n) \/ Recv(n) \/ RecvMore(n)
      PROVE  StartInv'
  BY <1>4 DEF RecvNoHeader, Recv, RecvMore, Complete
<1>5. CASE UNCHANGED vars
  BY <1>5 DEF vars
<1> QED
  BY <1>1, <1>2, <1>3, <1>4, <1>5 DEF Next

\* The peer of a connection is told once what it is talking to.
LEMMA IntroStep ==
  ASSUME TypeOK, IntroInv, [Next]_vars
  PROVE  IntroInv'
<1> USE DEF IntroInv, IntroducesItself, Talking
<1>0. inbox \in Seq({"notify", "contents"})
  BY DEF TypeOK
<1> DEFINE Told(box) == \E i \in DOMAIN box : \A j \in DOMAIN box : box[j] = "notify" <=> j = i
           Untold(box) == \A i \in DOMAIN box : box[i] # "notify"
<1>1. Untold(inbox) => Told(Append(inbox, "notify"))
  <2> SUFFICES ASSUME Untold(inbox)
               PROVE  Told(Append(inbox, "notify"))
    OBVIOUS
  <2>1. /\ DOMAIN Append(inbox, "notify") = 1 .. Len(inbox) + 1
        /\ DOMAIN inbox = 1 .. Len(inbox) /\ Len(inbox) \in Nat
        /\ Append(inbox, "notify")[Len(inbox) + 1] = "notify"
        /\ \A j \in 1 .. Len(inbox) : Append(inbox, "notify")[j] = inbox[j]
    BY <1>0
  <2>2. Len(inbox) + 1 \in DOMAIN Append(inbox, "notify")
    BY <2>1
  <2>3. \A j \in DOMAIN Append(inbox, "notify") :
          Append(inbox, "notify")[j] = "notify" <=> j = Len(inbox) + 1
    BY <2>1
  <2> QED
    BY <2>2, <2>3
<1>2. /\ Told(inbox) => Told(Append(inbox, "contents"))
      /\ Untold(inbox) => Untold(Append(inbox, "contents"))
  <2>1. /\ DOMAIN Append(inbox, "contents") = 1 .. Len(inbox) + 1
        /\ DOMAIN inbox = 1 .. Len(inbox) /\ Len(inbox) \in Nat
        /\ Append(inbox, "contents")[Len(inbox) + 1] = "contents"
        /\ \A j \in 1 .. Len(inbox) : Append(inbox, "contents")[j] = inbox[j]
    BY <1>0
  <2>2. Untold(inbox) => Untold(Append(inbox, "contents"))
    BY <2>1
  <2>3. ASSUME Told(inbox)
        PROVE  Told(Append(inbox, "contents"))
    <3>1. PICK i \in DOMAIN inbox : \A j \in DOMAIN inbox : inbox[j] = "notify" <=> j = i
      BY <2>3
    <3>2. i \in DOMAIN Append(inbox, "contents")
      BY <2>1
    <3>3. \A j \in DOMAIN Append(inbox, "contents") :
            Append(inbox, "contents")[j] = "notify" <=> j = i
      BY <2>1, <3>1
    <3> QED
      BY <3>2, <3>3
  <2> QED
    BY <2>2, <2>3
<1>3. /\ pc \in {"connect", "ready", "notify"} => Untold(inbox)
      /\ pc \in {"notify", "recv", "more", "put"} => status = "ready"
      /\ pc \in {"recv", "more", "put"} /\ link \in {"up", "fin"} => Told(inbox)
  BY DEF TypeOK
<1>4. SUFFICES /\ pc' \in {"connect", "ready", "notify"} => Untold(inbox')
               /\ pc' \in {"notify", "recv", "more", "put"} => status' = "ready"
               /\ pc' \in {"recv", "more", "put"} /\ link' \in {"up", "fin"} => Told(inbox')
  OBVIOUS
<1> HIDE DEF IntroInv, IntroducesItself, Talking, Told, Untold
<1>5. CASE StartTerminal
  BY <1>3, <1>5 DEF StartTerminal
<1>6. CASE Put
  BY <1>3, <1>6 DEF Put
<1>7. CASE PeerSend
  BY <1>3, <1>7 DEF PeerSend
<1>8. CASE PeerClose
  BY <1>3, <1>8 DEF PeerClose
<1>9. CASE PeerLost
  BY <1>3, <1>9 DEF PeerLost
<1>10. CASE ContentsSend
  BY <1>2, <1>3, <1>10 DEF ContentsSend, SendPacket, Transmit
<1>11. CASE MakeSocket
  <2>1. Untold(<<>>)
    BY DEF Untold
  <2> QED
    BY <1>3, <1>11, <2>1 DEF MakeSocket
<1>12. CASE Connect
  BY <1>3, <1>12 DEF Connect
<1>13. CASE Ready
  BY <1>3, <1>13 DEF Ready
<1>14. CASE Notify
  BY <1>1, <1>3, <1>14 DEF Notify, SendPacket, Transmit
<1>15. ASSUME NEW n \in 1 .. BufferSize, RecvNoHeader(n)
       PROVE  UNCHANGED <<status, link, inbox, pc>>
  BY <1>15 DEF RecvNoHeader
<1>16. ASSUME NEW n \in 1 .. BufferSize, Recv(n)
       PROVE  UNCHANGED <<status, link, inbox>> /\ pc = "recv" /\ pc' \in {"put", "more"}
  BY <1>16 DEF Recv, Complete
<1>17. ASSUME NEW n \in 1 .. BufferSize, RecvMore(n)
       PROVE  UNCHANGED <<status, link, inbox>> /\ pc = "more" /\ pc' \in {"put", "more"}
  BY <1>17 DEF RecvMore, Complete
<1>18. CASE Disconnected
  BY <1>3, <1>18 DEF Disconnected
<1>19. CASE UnknownPacket
  BY <1>3, <1>19 DEF UnknownPacket
<1>20. CASE PutPackage
  BY <1>3, <1>20 DEF PutPackage
<1>21. CASE UNCHANGED vars
  BY <1>3, <1>21 DEF vars
<1>22. CASE RecvError
  BY <1>3, <1>22 DEF RecvError
<1> QED
  BY <1>3, <1>5, <1>6, <1>7, <1>8, <1>9, <1>10, <1>11, <1>12, <1>13, <1>14, <1>15, <1>16,
     <1>17, <1>18, <1>19, <1>20, <1>21, <1>22 DEF Next

\* The types of the stream's variables, without intervals.
LEMMA StreamTypes ==
  ASSUME TypeOK
  PROVE  /\ Len(PacketLengths) \in Nat /\ BufferSize \in Nat
         /\ \A q \in 1 .. Len(PacketLengths) + 1 : Start[q] \in Nat
         /\ sent \in 0 .. Len(PacketLengths)
         /\ taken \in Nat /\ taken <= Start[sent + 1]
         /\ gone \subseteq Packets /\ Handed \subseteq Packets
         /\ delivered \in Seq(Packets)
<1>1. Len(PacketLengths) \in Nat /\ BufferSize \in Nat
  BY Lengths
<1>2. \A q \in 1 .. Len(PacketLengths) + 1 : Start[q] \in Nat
  BY Starts
<1>3. sent \in 0 .. Len(PacketLengths) /\ taken \in 0 .. Start[sent + 1]
  BY DEF TypeOK
<1>4. Start[sent + 1] \in Nat
  BY <1>1, <1>2, <1>3
<1>5. taken \in Nat /\ taken <= Start[sent + 1]
  BY <1>3, <1>4
<1>6. gone \subseteq Packets /\ delivered \in Seq(Packets)
  BY DEF TypeOK
<1>7. Handed \subseteq Packets
  BY <1>6 DEF Handed
<1> QED
  BY <1>1, <1>2, <1>3, <1>5, <1>6, <1>7

\* An action that leaves what was received alone.
LEMMA StreamUntouched ==
  ASSUME StreamInv, UNCHANGED <<taken, recvVars>>,
         link = "lost" => link' = "lost", pc' = "connect" => link' = "unconnected",
         pc' = pc \/ (pc \notin {"more", "put"} /\ pc' \notin {"more", "put"})
  PROVE  StreamInv'
BY DEF StreamInv, PackagesInOrder, Handed, recvVars

\* A package more.
LEMMA HandedMore ==
  ASSUME delivered \in Seq(Packets), NEW p \in Packets, delivered' = Append(delivered, p)
  PROVE  /\ Handed' = Handed \cup {p}
         /\ (\A i, j \in DOMAIN delivered : i < j => delivered[i] < delivered[j])
              /\ (\A q \in Handed : q < p)
            => (\A i, j \in DOMAIN delivered : i < j => delivered[i] < delivered[j])'
<1>1. /\ DOMAIN delivered' = 1 .. Len(delivered) + 1
      /\ DOMAIN delivered = 1 .. Len(delivered) /\ Len(delivered) \in Nat
      /\ delivered'[Len(delivered) + 1] = p
      /\ \A i \in 1 .. Len(delivered) : delivered'[i] = delivered[i]
  OBVIOUS
<1>2. Handed' = Handed \cup {p}
  BY <1>1 DEF Handed
<1>3. ASSUME \A i, j \in DOMAIN delivered : i < j => delivered[i] < delivered[j],
             \A q \in Handed : q < p,
             NEW i \in DOMAIN delivered', NEW j \in DOMAIN delivered', i < j
      PROVE  delivered'[i] < delivered'[j]
  <2>1. i \in DOMAIN delivered /\ delivered'[i] = delivered[i] /\ delivered[i] \in Handed
    BY <1>1, <1>3 DEF Handed
  <2>2. CASE j \in DOMAIN delivered
    BY <1>1, <1>3, <2>1, <2>2
  <2>3. CASE j = Len(delivered) + 1
    BY <1>1, <1>3, <2>1, <2>3
  <2> QED
    BY <1>1, <2>2, <2>3
<1> QED
  BY <1>2, <1>3

\* What Recv and RecvMore do, when the first bytes of packet p are in hand.
LEMMA StreamReceive ==
  ASSUME TypeOK, NEW p \in Packets, NEW n \in 1 .. BufferSize,
         p \notin gone, \A q \in Handed : q < p, \A q \in Handed \cup gone : Start[q] < taken,
         \A i, j \in DOMAIN delivered : i < j => delivered[i] < delivered[j],
         Handed \cap gone = {},
         Start[p] <= taken, taken' = taken + n, package' = p, UNCHANGED delivered,
         \/ Complete(p, taken + n) /\ Start[p + 1] <= taken + n
         \/ /\ got' \in 1 .. PacketLengths[p] - 1 /\ taken + n = Start[p] + got'
            /\ pc' = "more" /\ UNCHANGED <<gone, event>>
  PROVE  StreamInv'
<1>1. /\ taken \in Nat /\ Start[p] \in Nat /\ BufferSize \in Nat
      /\ \A q \in Packets : Start[q] \in Nat /\ q \in Nat
      /\ gone \subseteq Packets /\ Handed \subseteq Packets
      /\ p # 0
  BY StreamTypes DEF Packets
<1>2. /\ Start[p] < taken'
      /\ \A q \in Handed \cup gone : Start[q] < taken'
      /\ Handed' = Handed
  BY <1>1 DEF Handed
<1>3. CASE Complete(p, taken + n) /\ Start[p + 1] <= taken + n
  <2>1. gone' = gone \cup {q \in Packets : q > p /\ Start[q] < taken'} /\ pc' = "put"
    BY <1>3 DEF Complete
  <2>2. (pc # "more" /\ event = "none" /\ link # "lost" => taken \in Boundaries)'
    BY <1>3 DEF Complete, Boundaries
  <2>3. \A q \in Handed' \cup gone' : Start[q] < taken'
    BY <1>1, <1>2, <2>1
  <2>4. Handed' \cap gone' = {}
    BY <1>1, <1>2, <2>1
  <2>5. p \notin gone'
    BY <1>1, <2>1
  <2> QED
    BY <1>1, <1>2, <2>1, <2>2, <2>3, <2>4, <2>5 DEF StreamInv, PackagesInOrder
<1>4. CASE /\ got' \in 1 .. PacketLengths[p] - 1 /\ taken + n = Start[p] + got'
           /\ pc' = "more" /\ UNCHANGED <<gone, event>>
  BY <1>1, <1>2, <1>4 DEF StreamInv, PackagesInOrder
<1> QED
  BY <1>3, <1>4

\* The order of packages, through all connections.
LEMMA StreamStep ==
  ASSUME TypeOK, StartInv, StreamInv, [Next]_vars
  PROVE  StreamInv'
<1>1. /\ Len(PacketLengths) \in Nat /\ BufferSize \in Nat
      /\ taken \in Nat /\ sent \in 0 .. Len(PacketLengths) /\ taken <= Start[sent + 1]
      /\ gone \subseteq Packets /\ Handed \subseteq Packets
      /\ delivered \in Seq(Packets)
      /\ \A q \in 1 .. Len(PacketLengths) + 1 : Start[q] \in Nat
  BY StreamTypes
<1>2. /\ \A p \in Handed \cup gone : Start[p] < taken
      /\ Handed \cap gone = {}
      /\ \A i, j \in DOMAIN delivered : i < j => delivered[i] < delivered[j]
  BY DEF StreamInv, PackagesInOrder
<1>3. CASE \/ StartTerminal \/ Put \/ PeerSend \/ PeerClose \/ PeerLost \/ ContentsSend
           \/ Connect \/ Ready \/ Notify \/ Disconnected \/ UNCHANGED vars
  <2>1. /\ UNCHANGED <<taken, recvVars>>
        /\ link = "lost" => link' = "lost"
        /\ pc' = "connect" => link' = "unconnected"
        /\ pc' = pc \/ (pc \notin {"more", "put"} /\ pc' \notin {"more", "put"})
    <3>1. CASE StartTerminal
      BY <3>1 DEF StartTerminal, peerVars, StartInv, StreamInv
    <3>2. CASE Put
      BY <3>2 DEF Put, peerVars, StreamInv
    <3>3. CASE PeerSend
      BY <3>3 DEF PeerSend, peerVars, StreamInv
    <3>4. CASE PeerClose
      BY <3>4 DEF PeerClose, peerVars, StreamInv
    <3>5. CASE PeerLost
      BY <3>5 DEF PeerLost, peerVars, StreamInv
    <3>6. CASE ContentsSend
      BY <3>6 DEF ContentsSend, peerVars, StreamInv
    <3>7. CASE Connect
      BY <3>7 DEF Connect, peerVars, StreamInv
    <3>8. CASE Ready
      BY <3>8 DEF Ready, peerVars, StreamInv
    <3>9. CASE Notify
      BY <3>9 DEF Notify, peerVars, StreamInv
    <3>10. CASE Disconnected
      BY <3>10 DEF Disconnected, peerVars, StreamInv
    <3>11. CASE UNCHANGED vars
      BY <3>11 DEF vars, peerVars, StreamInv
    <3> QED
      BY <1>3, <3>1, <3>2, <3>3, <3>4, <3>5, <3>6, <3>7, <3>8, <3>9, <3>10, <3>11
  <2> QED
    BY <2>1, StreamUntouched
<1>4. CASE MakeSocket
  <2>1. /\ pc = "socket" /\ pc' = "connect" /\ taken' = Start[sent + 1]
        /\ link' = "unconnected"
        /\ gone' = gone \cup {p \in 1 .. sent : taken <= Start[p]}
        /\ UNCHANGED <<got, package, delivered, event>> /\ Handed' = Handed
    BY <1>4 DEF MakeSocket, Handed
  <2>2. package = 0
    BY <2>1 DEF StreamInv
  <2>3. taken' \in Boundaries
    BY <1>1, <2>1 DEF Boundaries
  <2>4. \A p \in 1 .. sent : Start[p] < taken'
    BY <1>1, <2>1, StartsGrow
  <2>5. \A p \in Handed' \cup gone' : Start[p] < taken'
    <3>1. \A p \in Handed \cup gone : Start[p] \in Nat
      BY <1>1 DEF Packets
    <3> QED
      BY <1>1, <1>2, <2>1, <2>4, <3>1
  <2>6. Handed' \cap gone' = {}
    <3>1. \A p \in Handed : Start[p] \in Nat /\ Start[p] < taken
      BY <1>1, <1>2 DEF Packets
    <3> QED
      BY <1>1, <1>2, <2>1, <3>1
  <2> QED
    BY <1>2, <2>1, <2>2, <2>3, <2>5, <2>6 DEF StreamInv, PackagesInOrder
<1>5. ASSUME NEW n \in 1 .. BufferSize, RecvNoHeader(n)
      PROVE  StreamInv'
  <2>1. /\ pc = "recv" /\ pc' = pc /\ event' = "header split" /\ taken' = taken + n
        /\ UNCHANGED <<got, package, delivered, gone>> /\ Handed' = Handed
    BY <1>5 DEF RecvNoHeader, Handed
  <2>2. package = 0
    BY <2>1 DEF StreamInv
  <2>3. \A p \in Handed' \cup gone' : Start[p] < taken'
    <3>1. \A p \in Handed \cup gone : Start[p] \in Nat
      BY <1>1 DEF Packets
    <3>2. n \in Nat
      BY <1>1
    <3>3. \A p \in Handed \cup gone : Start[p] < taken + n
      BY <1>1, <1>2, <3>1, <3>2
    <3> QED
      BY <2>1, <3>3
  <2> QED
    BY <1>2, <2>1, <2>2, <2>3 DEF StreamInv, PackagesInOrder
<1>6. ASSUME NEW n \in 1 .. BufferSize, Recv(n)
      PROVE  StreamInv'
  <2> DEFINE p == PacketAt(taken)
  <2>1. taken \in Boundaries /\ taken < Start[sent + 1]
    BY <1>1, <1>6 DEF Recv, Arrives, StreamInv
  <2>2. p \in 1 .. sent /\ Start[p] = taken
    BY <1>1, <2>1, PacketAtBoundary
  <2> HIDE DEF p
  <2>3. p \in Packets
    BY <1>1, <2>2 DEF Packets
  <2>4. /\ taken' = taken + n /\ package' = p /\ UNCHANGED delivered
        /\ IF n >= PacketLengths[p] THEN Complete(p, taken + n)
           ELSE got' = n /\ pc' = "more" /\ UNCHANGED <<gone, event>>
    BY <1>6 DEF Recv, p
  <2>5. p \notin gone /\ \A q \in Handed : q < p
    <3>1. p \notin gone
      BY <1>1, <1>2, <2>2
    <3>2. ASSUME NEW q \in Handed
          PROVE  q < p
      <4>1. q \in 1 .. Len(PacketLengths) /\ p \in 1 .. Len(PacketLengths) /\ Start[q] < Start[p]
        BY <1>1, <1>2, <2>2, <2>3, <3>2 DEF Packets
      <4>2. ~(p < q) /\ p # q
        BY <1>1, <4>1, StartsGrow
      <4> QED
        BY <4>1, <4>2
    <3> QED
      BY <3>1, <3>2
  <2>6. PacketLengths[p] \in Nat /\ BufferSize \in Nat
    BY <2>3, Lengths
  <2>7. \/ Complete(p, taken + n) /\ Start[p + 1] <= taken + n
        \/ /\ got' \in 1 .. PacketLengths[p] - 1 /\ taken + n = Start[p] + got'
           /\ pc' = "more" /\ UNCHANGED <<gone, event>>
    <3>1. Start[p + 1] = Start[p] + PacketLengths[p] /\ Start[p] \in Nat /\ n \in Nat
      BY <1>1, <2>3, Starts DEF Packets
    <3>2. CASE n >= PacketLengths[p]
      BY <2>2, <2>4, <2>6, <3>1, <3>2
    <3>3. CASE ~(n >= PacketLengths[p])
      BY <2>2, <2>4, <2>6, <3>1, <3>3
    <3> QED
      BY <3>2, <3>3
  <2>8. Start[p] <= taken
    BY <1>1, <2>2
  <2> QED
    BY <1>2, <2>3, <2>4, <2>5, <2>7, <2>8, StreamReceive
<1>7. ASSUME NEW n \in 1 .. BufferSize, RecvMore(n)
      PROVE  StreamInv'
  <2> DEFINE p == package
  <2>1. /\ p # 0 /\ got \in 1 .. PacketLengths[p] - 1 /\ taken = Start[p] + got
        /\ p \notin gone /\ \A q \in Handed : q < p
    BY <1>7 DEF RecvMore, Arrives, StreamInv, PackagesInOrder
  <2>2. p \in Packets
    BY <2>1 DEF TypeOK
  <2> HIDE DEF p
  <2>3. /\ taken' = taken + n /\ package' = p /\ UNCHANGED delivered
        /\ pc = "more"
        /\ IF got + n >= PacketLengths[p] THEN Complete(p, taken + n)
           ELSE got' = got + n /\ UNCHANGED <<pc, gone, event>>
    BY <1>7 DEF RecvMore, p
  <2>4. PacketLengths[p] \in Nat /\ BufferSize \in Nat /\ Start[p] \in Nat
    BY <1>1, <2>2, Lengths DEF Packets
  <2>5. \/ Complete(p, taken + n) /\ Start[p + 1] <= taken + n
        \/ /\ got' \in 1 .. PacketLengths[p] - 1 /\ taken + n = Start[p] + got'
           /\ pc' = "more" /\ UNCHANGED <<gone, event>>
    <3>1. Start[p + 1] = Start[p] + PacketLengths[p] /\ n \in Nat /\ got \in Nat
      BY <1>1, <2>1, <2>2, <2>4, Starts
    <3>2. CASE got + n >= PacketLengths[p]
      BY <2>1, <2>3, <2>4, <3>1, <3>2
    <3>3. CASE ~(got + n >= PacketLengths[p])
      BY <2>1, <2>3, <2>4, <3>1, <3>3
    <3> QED
      BY <3>2, <3>3
  <2>6. Start[p] <= taken
    BY <2>1, <2>4
  <2> QED
    BY <1>2, <2>1, <2>2, <2>3, <2>5, <2>6, StreamReceive
<1>8. CASE UnknownPacket
  <2>1. /\ pc = "put" /\ pc' = "socket" /\ package' = 0 /\ gone' = gone \cup {package}
        /\ link' = link
        /\ UNCHANGED <<taken, got, delivered, event>> /\ Handed' = Handed
    BY <1>8 DEF UnknownPacket, peerVars, Handed
  <2>2. /\ package # 0 /\ Start[package] < taken
        /\ \A q \in Handed : q < package
    BY <2>1 DEF StreamInv, PackagesInOrder
  <2>3. package \in Packets
    BY <2>2 DEF TypeOK
  <2>4. package \notin Handed
    BY <2>2, <2>3, Lengths DEF Packets
  <2>5. pc' # "more" /\ event' = "none" /\ link' # "lost" => taken' \in Boundaries
    BY <2>1 DEF StreamInv
  <2> QED
    BY <1>2, <2>1, <2>2, <2>4, <2>5 DEF StreamInv, PackagesInOrder
<1>9. CASE PutPackage
  <2>1. /\ pc = "put" /\ pc' = "recv" /\ package' = 0 /\ delivered' = Append(delivered, package)
        /\ UNCHANGED <<taken, got, gone, event, link>>
    BY <1>9 DEF PutPackage, peerVars
  <2>2. /\ package # 0 /\ Start[package] < taken /\ package \notin gone
        /\ \A q \in Handed : q < package
    BY <2>1 DEF StreamInv, PackagesInOrder
  <2>3. package \in Packets
    BY <2>2 DEF TypeOK
  <2>4. /\ Handed' = Handed \cup {package}
        /\ (\A i, j \in DOMAIN delivered : i < j => delivered[i] < delivered[j])'
    BY <1>1, <1>2, <2>1, <2>2, <2>3, HandedMore
  <2>5. pc' # "more" /\ event' = "none" /\ link' # "lost" => taken' \in Boundaries
    BY <2>1 DEF StreamInv
  <2> QED
    BY <1>2, <2>1, <2>2, <2>4, <2>5 DEF StreamInv, PackagesInOrder
<1>10. CASE RecvError
  <2>1. /\ pc = "more" /\ pc' \in {"more", "put"} /\ link = "lost" /\ link' = "lost"
        /\ pc' = "put" => package' \in torn'
        /\ UNCHANGED <<taken, package, delivered, gone>> /\ Handed' = Handed
    BY <1>10 DEF RecvError, peerVars, Handed
  <2> QED
    BY <1>2, <2>1 DEF StreamInv, PackagesInOrder
<1> QED
  BY <1>3, <1>4, <1>5, <1>6, <1>7, <1>8, <1>9, <1>10 DEF Next

LEMMA TypeStep ==
  ASSUME TypeOK, StreamInv, [Next]_vars
  PROVE  TypeOK'
<1>1. /\ Len(PacketLengths) \in Nat /\ BufferSize \in Nat
      /\ \A q \in 1 .. Len(PacketLengths) + 1 : Start[q] \in Nat
      /\ sent \in 0 .. Len(PacketLengths)
      /\ taken \in Nat /\ taken <= Start[sent + 1]
  BY StreamTypes
<1>2. /\ manager \in {"start", "put", "done"}
      /\ status \in {"stop", "ready"}
      /\ pc \in {"none", "socket", "connect", "ready", "notify", "recv", "more", "put"}
      /\ sockets \in 0 .. MaxConnects
      /\ link \in {"unconnected", "up", "fin", "lost"}
      /\ taken \in 0 .. Start[sent + 1]
      /\ got \in -IntLimit .. BufferSize
      /\ package \in {0} \cup Packets
      /\ delivered \in Seq(Packets)
      /\ gone \subseteq Packets /\ torn \subseteq Packets
      /\ inbox \in Seq({"notify", "contents"})
      /\ sends \in 0 .. MaxSends
      /\ event \in {"none", "header split", "misframed", "past rowData"}
  BY DEF TypeOK
<1>3. CASE StartTerminal
  BY <1>1, <1>2, <1>3 DEF StartTerminal, peerVars, recvVars, TypeOK
<1>4. CASE Put
  BY <1>1, <1>2, <1>4 DEF Put, peerVars, recvVars, TypeOK
<1>5. CASE PeerSend
  <2>1. sent' \in 0 .. Len(PacketLengths)
    BY <1>1, <1>5 DEF PeerSend
  <2>2. taken' \in 0 .. Start[sent' + 1]
    <3>1. /\ taken' = taken /\ sent' = sent + 1
          /\ sent + 1 \in 1 .. Len(PacketLengths) + 1 /\ sent + 1 + 1 \in 1 .. Len(PacketLengths) + 1
      BY <1>1, <1>5 DEF PeerSend
    <3>2. Start[sent + 1] < Start[sent + 1 + 1]
      BY <1>1, <3>1, StartsGrow
    <3>3. Start[sent + 1] \in Nat /\ Start[sent + 1 + 1] \in Nat
      BY <1>1, <3>1
    <3> QED
      BY <1>1, <3>1, <3>2, <3>3
  <2> QED
    BY <1>2, <1>5, <2>1, <2>2 DEF PeerSend, recvVars, TypeOK
<1>6. CASE PeerClose
  BY <1>1, <1>2, <1>6 DEF PeerClose, peerVars, recvVars, TypeOK
<1>7. CASE PeerLost
  BY <1>1, <1>2, <1>7 DEF PeerLost, peerVars, recvVars, TypeOK
<1>8. CASE ContentsSend
  <2>1. inbox' \in Seq({"notify", "contents"})
    <3>1. inbox \in Seq({"notify", "contents"})
      BY <1>2
    <3>2. inbox' = inbox \/ inbox' = Append(inbox, "contents")
      BY <1>8 DEF ContentsSend, SendPacket, Transmit
    <3> QED
      BY <3>1, <3>2
  <2>2. sends' \in 0 .. MaxSends
    <3>1. sends \in 0 .. MaxSends /\ MaxSends \in Nat
      BY <1>2, TerminalAssumption
    <3>2. sends < MaxSends /\ sends' = sends + 1
      BY <1>8 DEF ContentsSend
    <3> QED
      BY <3>1, <3>2
  <2> QED
    BY <1>1, <1>2, <1>8, <2>1, <2>2 DEF ContentsSend, peerVars, recvVars, TypeOK
<1>9. CASE MakeSocket
  <2>1. sockets' \in 0 .. MaxConnects
    <3>1. sockets \in 0 .. MaxConnects /\ MaxConnects \in Nat
      BY <1>2, TerminalAssumption
    <3>2. sockets < MaxConnects /\ sockets' = sockets + 1
      BY <1>9 DEF MakeSocket
    <3> QED
      BY <3>1, <3>2
  <2>2. sent' = sent /\ taken' = Start[sent + 1]
    BY <1>9 DEF MakeSocket
  <2>3. taken' \in 0 .. Start[sent' + 1]
    BY <1>1, <2>2
  <2>4. gone' \subseteq Packets
    <3>1. gone' = gone \cup {p \in 1 .. sent : taken <= Start[p]}
      BY <1>9 DEF MakeSocket
    <3>2. 1 .. sent \subseteq Packets
      BY <1>1 DEF Packets
    <3> QED
      BY <1>2, <3>1, <3>2
  <2>5. inbox' \in Seq({"notify", "contents"})
    BY <1>9 DEF MakeSocket
  <2>6. /\ link' = "unconnected" /\ pc' = "connect"
        /\ UNCHANGED <<manager, status, sent, got, package, delivered, torn, event, sends>>
    BY <1>9 DEF MakeSocket
  <2> QED
    BY <1>1, <1>2, <2>1, <2>3, <2>4, <2>5, <2>6 DEF TypeOK
<1>10. CASE Connect
  BY <1>1, <1>2, <1>10 DEF Connect, peerVars, recvVars, TypeOK
<1>11. CASE Ready
  BY <1>1, <1>2, <1>11 DEF Ready, peerVars, recvVars, TypeOK
<1>12. CASE Notify
  <2>1. inbox' \in Seq({"notify", "contents"})
    <3>1. inbox \in Seq({"notify", "contents"})
      BY <1>2
    <3>2. inbox' = inbox \/ inbox' = Append(inbox, "notify")
      BY <1>12 DEF Notify, SendPacket, Transmit
    <3> QED
      BY <3>1, <3>2
  <2> QED
    BY <1>1, <1>2, <1>12, <2>1 DEF Notify, peerVars, recvVars, TypeOK
<1>13. ASSUME NEW n \in 1 .. BufferSize,
              Arrives(n, BufferSize), taken' = taken + n, sent' = sent
       PROVE  taken' \in 0 .. Start[sent' + 1]
  BY <1>1, <1>13 DEF Arrives
<1>14. ASSUME NEW n \in 1 .. BufferSize, RecvNoHeader(n)
       PROVE  TypeOK'
  <2>1. taken' \in 0 .. Start[sent' + 1]
    BY <1>13, <1>14 DEF RecvNoHeader
  <2> QED
    BY <1>1, <1>2, <1>14, <2>1 DEF RecvNoHeader, TypeOK
<1>15. ASSUME NEW p \in Packets, NEW upTo, Complete(p, upTo)
       PROVE  /\ got' \in -IntLimit .. BufferSize /\ gone' \subseteq Packets /\ pc' = "put"
              /\ event' \in {"none", "header split", "misframed", "past rowData"}
  <2>1. /\ got' = 0 /\ pc' = "put"
        /\ gone' = gone \cup {q \in Packets : q > p /\ Start[q] < upTo}
        /\ event' \in {"none", "misframed"}
    BY <1>15 DEF Complete
  <2>2. gone \subseteq Packets
    BY <1>2
  <2>3. gone' \subseteq Packets
    BY <2>1, <2>2
  <2>4. 0 \in -IntLimit .. BufferSize
    BY <1>1, TerminalAssumption
  <2> QED
    BY <2>1, <2>3, <2>4
<1>16. ASSUME NEW n \in 1 .. BufferSize, Recv(n)
       PROVE  TypeOK'
  <2>1. taken' \in 0 .. Start[sent' + 1]
    BY <1>13, <1>16 DEF Recv
  <2>2. package' \in Packets
    <3>1. taken \in Boundaries /\ taken < Start[sent + 1]
      BY <1>1, <1>16 DEF Recv, Arrives, StreamInv
    <3>2. PacketAt(taken) \in 1 .. sent
      BY <1>1, <3>1, PacketAtBoundary
    <3> QED
      BY <1>1, <1>16, <3>2 DEF Recv, Packets
  <2>3. /\ got' \in -IntLimit .. BufferSize /\ gone' \subseteq Packets /\ pc' \in {"put", "more"}
        /\ event' \in {"none", "header split", "misframed", "past rowData"}
    <3>1. CASE Complete(package', taken + n)
      BY <1>15, <2>2, <3>1
    <3>2. CASE got' = n /\ pc' = "more" /\ UNCHANGED <<gone, event>>
      <4>1. /\ gone \subseteq Packets
            /\ event \in {"none", "header split", "misframed", "past rowData"}
        BY <1>2
      <4>2. n \in -IntLimit .. BufferSize
        BY <1>1, TerminalAssumption
      <4> QED
        BY <3>2, <4>1, <4>2
    <3> QED
      BY <1>16, <3>1, <3>2 DEF Recv
  <2>4. UNCHANGED <<manager, status, sockets, link, sent, delivered, torn, inbox, sends>>
    BY <1>16 DEF Recv
  <2> QED
    BY <1>1, <1>2, <2>1, <2>2, <2>3, <2>4 DEF TypeOK
<1>17. ASSUME NEW n \in 1 .. BufferSize, RecvMore(n)
       PROVE  TypeOK'
  <2>0. got \in Nat /\ n \in Nat
    <3>1. package \in Packets /\ got \in 1 .. PacketLengths[package] - 1
      BY <1>2, <1>17 DEF RecvMore, Arrives, StreamInv
    <3> QED
      BY <1>1, <3>1, Lengths
  <2>1. /\ n <= BufferSize - got /\ taken + n <= Start[sent + 1]
        /\ taken' = taken + n
        /\ UNCHANGED <<manager, status, sockets, link, sent, package, delivered, torn, inbox, sends>>
    BY <1>17 DEF RecvMore, Arrives
  <2>2. taken' \in 0 .. Start[sent' + 1]
    BY <1>1, <2>0, <2>1
  <2>3. package \in Packets
    BY <1>2, <1>17 DEF RecvMore, StreamInv
  <2>4. /\ got' \in -IntLimit .. BufferSize /\ gone' \subseteq Packets /\ pc' \in {"put", "more"}
        /\ event' \in {"none", "header split", "misframed", "past rowData"}
    <3>1. CASE Complete(package, taken + n)
      BY <1>15, <2>3, <3>1
    <3>2. CASE got' = got + n /\ UNCHANGED <<pc, gone, event>>
      <4>1. /\ gone \subseteq Packets
            /\ event \in {"none", "header split", "misframed", "past rowData"}
            /\ pc = "more"
        BY <1>2, <1>17 DEF RecvMore
      <4>2. got' \in -IntLimit .. BufferSize
        BY <1>1, <2>0, <2>1, <3>2, TerminalAssumption
      <4> QED
        BY <3>2, <4>1, <4>2
    <3> QED
      BY <1>17, <3>1, <3>2 DEF RecvMore
  <2> QED
    BY <1>1, <1>2, <2>1, <2>2, <2>4 DEF TypeOK
<1>18. CASE Disconnected
  BY <1>1, <1>2, <1>18 DEF Disconnected, peerVars, recvVars, TypeOK
<1>19. CASE UnknownPacket
  <2>1. gone' \subseteq Packets
    BY <1>2, <1>19 DEF UnknownPacket, StreamInv
  <2> QED
    BY <1>1, <1>2, <1>19, <2>1 DEF UnknownPacket, peerVars, TypeOK
<1>20. CASE PutPackage
  <2>1. package \in Packets
    BY <1>2, <1>20 DEF PutPackage, StreamInv
  <2>2. delivered' \in Seq(Packets)
    BY <1>2, <1>20, <2>1 DEF PutPackage
  <2> QED
    BY <1>1, <1>2, <1>20, <2>2 DEF PutPackage, peerVars, TypeOK
<1>21. CASE UNCHANGED vars
  <2>1. UNCHANGED <<manager, status, pc, sockets, link, sent, taken, got, package, gone, torn,
                    event, delivered, inbox, sends>>
    BY <1>21 DEF vars, peerVars, recvVars
  <2> QED
    BY <2>1, ZenonT(40) DEF TypeOK
<1>22. CASE RecvError
  <2>1. got \in -IntLimit .. BufferSize /\ IntLimit \in Nat /\ BufferSize \in Nat
    BY <1>1, <1>2, TerminalAssumption
  <2>2. got' \in -IntLimit .. BufferSize
    <3>1. (got > -IntLimit /\ got' = got - 1) \/ got' = 0
      BY <1>22 DEF RecvError
    <3> QED
      BY <2>1, <3>1
  <2>3. torn' \subseteq Packets
    <3>1. package \in Packets
      BY <1>2, <1>22 DEF RecvError, StreamInv
    <3>2. torn' = torn \/ torn' = torn \cup {package}
      BY <1>22 DEF RecvError
    <3> QED
      BY <1>2, <3>1, <3>2
  <2>4. /\ pc' \in {"more", "put"} /\ event' \in {event, "none", "past rowData"}
        /\ UNCHANGED <<manager, status, sockets, link, sent, taken, package, delivered, gone,
                       inbox, sends>>
    BY <1>22 DEF RecvError, peerVars
  <2> QED
    BY <1>1, <1>2, <2>2, <2>3, <2>4 DEF TypeOK
<1> QED
  BY <1>3, <1>4, <1>5, <1>6, <1>7, <1>8, <1>9, <1>10, <1>11, <1>12, <1>14, <1>16,
     <1>17, <1>18, <1>19, <1>20, <1>21, <1>22 DEF Next

-----------------------------------------------------------------------------
(* The theorems.                                                           *)

\* Nothing is connected, and nothing was sent.
LEMMA InitInv == Init => TerminalInv
<1> SUFFICES ASSUME Init
             PROVE  TerminalInv
  OBVIOUS
<1>1. 0 \in Boundaries /\ 0 \in 0 .. Start[0 + 1]
  BY Starts, Lengths DEF Boundaries
<1>2. TypeOK
  BY <1>1, Lengths, TerminalAssumption DEF Init, TypeOK
<1>3. StartInv /\ IntroInv
  BY DEF Init, StartInv, IntroInv, IntroducesItself, Talking
<1>4. Handed = {}
  BY DEF Init, Handed
<1>5. StreamInv
  BY <1>1, <1>4 DEF Init, StreamInv, PackagesInOrder
<1> QED
  BY <1>2, <1>3, <1>5 DEF TerminalInv

\* The inductive invariant: every action of the thread, of the peer and of the contents
\* process keeps it.
THEOREM TerminalInvariant == Spec => []TerminalInv
<1>1. TerminalInv /\ [Next]_vars => TerminalInv'
  BY TypeStep, StartStep, IntroStep, StreamStep DEF TerminalInv
<1> QED
  BY InitInv, <1>1, PTL DEF Spec

\* The variables of a terminal have their types: what recv returned is never more than the
\* peer has sent, and ret, however many recvs fail, is an int and never more than rowData.
THEOREM TypeCorrect == Spec => []TypeOK
BY TerminalInvariant, PTL DEF TerminalInv

\* The peer of a connection that is up is told exactly once that it talks to a terminal,
\* whatever the contents process sends meanwhile and however often the thread connects again.
THEOREM Introduced == Spec => []IntroducesItself
BY TerminalInvariant, PTL DEF TerminalInv, IntroInv

\* Packages come in the order of their packets, none twice and none after it was given up,
\* for packets of every length, cut in every way, over any number of connections; a
\* package is torn only where the connection was reset in the middle of its packet.
THEOREM InOrder == Spec => []PackagesInOrder
BY TerminalInvariant, PTL DEF TerminalInv, StreamInv
=============================================================================
