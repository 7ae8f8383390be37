------------------------------ MODULE Terminal ------------------------------
(***************************************************************************)
(* A terminal: the connection this server opens to another one             *)
(* (Terminal.cpp, TerminalSession.cpp, TerminalManager.cpp).  Its thread   *)
(* connects, introduces itself, and passes on what it receives; when       *)
(* OnRecv returns null it closes and connects again.  The contents process *)
(* sends through it meanwhile.                                             *)
(*                                                                         *)
(* The peer's packets are numbered through all connections, and a byte is  *)
(* its position in their concatenation.  OnRecv makes one packet of each   *)
(* first recv; where the bytes it leaves are not whole packets, or it has  *)
(* not even a header, the lengths it reads are no lengths any more, and    *)
(* the model stops ("event").  The connection may be reset in the middle   *)
(* of a packet: then ret counts down, one for each recv that fails, until  *)
(* it wraps around, and OnRecv goes on with the packet it has a part of.   *)
(***************************************************************************)
EXTENDS Integers, Sequences

CONSTANTS
  HeaderSize,     \* sizeof(packet_size_t)
  BufferSize,     \* SOCKET_BUF_SIZE
  IntLimit,       \* an int is one of -IntLimit .. IntLimit - 1
  PacketLengths,  \* bound: the lengths of the packets the peer sends, in order
  MaxConnects,    \* bound: calls of ConnectTo
  MaxSends        \* bound: packets of the contents process

ASSUME TerminalAssumption ==
  /\ HeaderSize \in Nat \ {0} /\ BufferSize \in Nat
  /\ IntLimit \in Nat /\ BufferSize < IntLimit
  /\ PacketLengths \in Seq(HeaderSize + 1 .. IntLimit - 1)
  /\ MaxConnects \in Nat /\ MaxSends \in Nat

Packets == 1 .. Len(PacketLengths)

\* The bytes of packet p are those after Start[p] up to Start[p + 1].
Start[p \in 1 .. Len(PacketLengths) + 1] ==
  IF p = 1 THEN 0 ELSE Start[p - 1] + PacketLengths[p - 1]

VARIABLES
  manager,    \* TerminalManager::Initialize: "start", "put", "done"
  status,     \* status_
  pc,         \* the terminal's thread
  sockets,    \* sockets it has made; the newest is socketData_.socket_
  link,       \* the newest: "unconnected", "up", "fin", "lost"
  sent,       \* packets the peer has sent
  taken,      \* bytes of them that recv returned, or that were lost
  got,        \* ret of OnRecv: what it has of its packet, less the recvs that failed
  package,    \* the packet whose length OnRecv has read, then the one in hand
  delivered,  \* the packages passed to PutPackage
  gone,       \* packets that come to no package any more
  torn,       \* packets that OnRecv went on with and had a part of
  inbox,      \* what the peer has received on the newest socket
  sends,      \* SendPackets of the contents process
  event       \* what spoilt the stream, or "none"

peerVars == <<sent, taken>>
recvVars == <<got, package, delivered, gone, torn, event>>
vars == <<manager, status, pc, sockets, link, peerVars, recvVars, inbox, sends>>

\* Terminal's constructor leaves status_ as the memory was.
Init ==
  /\ manager = "start"
  /\ status \in {"stop", "ready"}
  /\ pc = "none"
  /\ sockets = 0 /\ link = "unconnected"
  /\ sent = 0 /\ taken = 0 /\ got = 0 /\ package = 0
  /\ delivered = <<>> /\ gone = {} /\ torn = {} /\ inbox = <<>> /\ sends = 0
  /\ event = "none"

-----------------------------------------------------------------------------
(* TerminalManager::Initialize, on the thread that starts the server.      *)

\* new Terminal and its Initialize, which starts the thread.
StartTerminal ==
  /\ manager = "start"
  /\ manager' = "put"
  /\ pc' = "socket"
  /\ UNCHANGED <<status, sockets, link, peerVars, recvVars, inbox, sends>>

\* From here on Get(name) finds the terminal, which has been running for a while.
Put ==
  /\ manager = "put"
  /\ manager' = "done"
  /\ UNCHANGED <<status, pc, sockets, link, peerVars, recvVars, inbox, sends>>

-----------------------------------------------------------------------------
(* The peer and the network.                                               *)

PeerSend ==
  /\ link = "up" /\ sent < Len(PacketLengths)
  /\ sent' = sent + 1
  /\ UNCHANGED <<manager, status, pc, sockets, link, taken, recvVars, inbox, sends>>

\* The peer closes; what it has sent can still be received.
PeerClose ==
  /\ link = "up"
  /\ link' = "fin"
  /\ UNCHANGED <<manager, status, pc, sockets, peerVars, recvVars, inbox, sends>>

\* The connection is reset; what was not received is gone.
PeerLost ==
  /\ link \in {"up", "fin"}
  /\ link' = "lost"
  /\ UNCHANGED <<manager, status, pc, sockets, peerVars, recvVars, inbox, sends>>

\* ::send to the newest socket.
Transmit(packet) ==
  inbox' = IF link \in {"up", "fin"} THEN Append(inbox, packet) ELSE inbox

\* Terminal::SendPacket.
SendPacket(packet) ==
  IF status = "ready" THEN Transmit(packet) ELSE UNCHANGED inbox

\* The contents process, through TerminalManager::Get.
ContentsSend ==
  /\ manager = "done" /\ sends < MaxSends
  /\ SendPacket("contents")
  /\ sends' = sends + 1
  /\ UNCHANGED <<manager, status, pc, sockets, link, peerVars, recvVars>>

-----------------------------------------------------------------------------
(* The terminal's thread: ConnectProcess.                                  *)

\* TerminalSession::ConnectTo, up to connect.  The socket before is not closed, and
\* what was not received from it never will be.
MakeSocket ==
  /\ pc = "socket" /\ sockets < MaxConnects
  /\ sockets' = sockets + 1
  /\ link' = "unconnected"
  /\ inbox' = <<>>
  /\ taken' = Start[sent + 1]
  /\ gone' = gone \cup {p \in 1 .. sent : taken <= Start[p]}
  /\ pc' = "connect"
  /\ UNCHANGED <<manager, status, sent, got, package, delivered, torn, event, sends>>

\* connect, which may fail; then ConnectProcess sleeps for a second and tries again.
Connect ==
  /\ pc = "connect"
  /\ \/ link' = "up" /\ pc' = "ready"
     \/ pc' = "socket" /\ UNCHANGED link
  /\ UNCHANGED <<manager, status, sockets, peerVars, recvVars, inbox, sends>>

\* Mutant: the status is not set.
ReadyForgotten ==
  /\ pc = "ready"
  /\ UNCHANGED status
  /\ pc' = "notify"
  /\ UNCHANGED <<manager, sockets, link, peerVars, recvVars, inbox, sends>>

Ready ==
  /\ pc = "ready"
  /\ status' = "ready"
  /\ pc' = "notify"
  /\ UNCHANGED <<manager, sockets, link, peerVars, recvVars, inbox, sends>>

\* PK_I_NOTIFY_TERMINAL.
Notify ==
  /\ pc = "notify"
  /\ SendPacket("notify")
  /\ pc' = "recv"
  /\ UNCHANGED <<manager, status, sockets, link, peerVars, recvVars, sends>>

PacketAt(pos) == CHOOSE p \in Packets : Start[p] <= pos /\ pos < Start[p + 1]
Boundaries == {Start[p] : p \in 1 .. Len(PacketLengths) + 1}

\* recv has bytes to return.
Arrives(n, room) == link \in {"up", "fin"} /\ n <= room /\ taken + n <= Start[sent + 1]

\* recv answers 0 or SOCKET_ERROR.
Ended == link = "lost" \/ (link = "fin" /\ taken = Start[sent + 1])

\* The packet is complete when ret is no less than its length; bytes beyond it are
\* left in rowData, which goes away.
Complete(p, upTo) ==
  /\ got' = 0
  /\ gone' = gone \cup {q \in Packets : q > p /\ Start[q] < upTo}
  /\ event' = IF upTo \in Boundaries THEN "none" ELSE "misframed"
  /\ pc' = "put"

\* The first recv of OnRecv.  What decodes from less than a header is no length.
RecvNoHeader(n) ==
  /\ pc = "recv" /\ event = "none"
  /\ Arrives(n, BufferSize) /\ n < HeaderSize
  /\ event' = "header split"
  /\ taken' = taken + n
  /\ UNCHANGED <<manager, status, pc, sockets, link, sent, got, package, delivered, gone, torn, inbox,
                 sends>>

\* The first recv of OnRecv, and the length in it.
Recv(n) ==
  /\ pc = "recv" /\ event = "none"
  /\ Arrives(n, BufferSize) /\ n >= HeaderSize
  /\ package' = PacketAt(taken)
  /\ IF n >= PacketLengths[package']
     THEN Complete(package', taken + n)
     ELSE got' = n /\ pc' = "more" /\ UNCHANGED <<gone, event>>
  /\ taken' = taken + n
  /\ UNCHANGED <<manager, status, sockets, link, sent, delivered, torn, inbox, sends>>

\* Mutant: ret is the size of the last part.
RecvMoreLastOnly(n) ==
  /\ pc = "more"
  /\ Arrives(n, BufferSize - got)
  /\ IF n >= PacketLengths[package]
     THEN Complete(package, taken + n)
     ELSE got' = n /\ UNCHANGED <<pc, gone, event>>
  /\ taken' = taken + n
  /\ UNCHANGED <<manager, status, sockets, link, sent, package, delivered, torn, inbox, sends>>

\* The loop for the rest of the packet.  A recv that answers 0 adds nothing: the thread
\* calls it again and again (Spinning).
RecvMore(n) ==
  /\ pc = "more"
  /\ Arrives(n, BufferSize - got)
  /\ IF got + n >= PacketLengths[package]
     THEN Complete(package, taken + n)
     ELSE got' = got + n /\ UNCHANGED <<pc, gone, event>>
  /\ taken' = taken + n
  /\ UNCHANGED <<manager, status, sockets, link, sent, package, delivered, torn, inbox, sends>>

\* The same recv on a connection that was reset: SOCKET_ERROR, which is -1, is added to
\* ret.  Below the least int there is the greatest, which no length exceeds, and the loop
\* ends.  DecodingData then runs over a packet that is longer than rowData.
RecvError ==
  /\ pc = "more" /\ link = "lost"
  /\ IF got > -IntLimit
     THEN got' = got - 1 /\ UNCHANGED <<pc, torn, event>>
     ELSE /\ got' = 0 /\ pc' = "put" /\ torn' = torn \cup {package}
          /\ event' = IF PacketLengths[package] > BufferSize THEN "past rowData" ELSE "none"
  /\ UNCHANGED <<manager, status, sockets, link, peerVars, package, delivered, gone, inbox, sends>>

\* Mutant: a terminal that has lost its connection ends.
DisconnectedForGood ==
  /\ pc = "recv" /\ event = "none" /\ Ended
  /\ pc' = "none"
  /\ UNCHANGED <<manager, status, sockets, link, peerVars, recvVars, inbox, sends>>

\* OnRecv returns null at once, and OnClose, which finds no such session in the list of
\* the SessionManager, leaves the socket open.
Disconnected ==
  /\ pc = "recv" /\ event = "none" /\ Ended
  /\ pc' = "socket"
  /\ UNCHANGED <<manager, status, sockets, link, peerVars, recvVars, inbox, sends>>

\* Mutant: the null is passed on.
UnknownPacketPut ==
  /\ pc = "put" /\ event = "none"
  /\ delivered' = Append(delivered, 0)
  /\ package' = 0
  /\ pc' = "recv"
  /\ UNCHANGED <<manager, status, sockets, link, peerVars, got, gone, torn, inbox, sends, event>>

\* A packet the Analyzer does not know: OnRecv returns null.
UnknownPacket ==
  /\ pc = "put" /\ event = "none"
  /\ gone' = gone \cup {package}
  /\ package' = 0
  /\ pc' = "socket"
  /\ UNCHANGED <<manager, status, sockets, link, peerVars, got, delivered, torn, inbox, sends, event>>

PutPackage ==
  /\ pc = "put" /\ event = "none"
  /\ delivered' = Append(delivered, package)
  /\ package' = 0
  /\ pc' = "recv"
  /\ UNCHANGED <<manager, status, sockets, link, peerVars, got, gone, torn, inbox, sends, event>>

ConnectProcess ==
  \/ MakeSocket \/ Connect \/ Ready \/ Notify \/ RecvError \/ Disconnected \/ UnknownPacket
  \/ PutPackage
  \/ \E n \in 1 .. BufferSize : RecvNoHeader(n) \/ Recv(n) \/ RecvMore(n)

Next ==
  \/ StartTerminal \/ Put
  \/ PeerSend \/ PeerClose \/ PeerLost
  \/ ContentsSend
  \/ MakeSocket \/ Connect \/ Ready \/ Notify
  \/ \E n \in 1 .. BufferSize : RecvNoHeader(n)
  \/ \E n \in 1 .. BufferSize : Recv(n)
  \/ \E n \in 1 .. BufferSize : RecvMore(n)
  \/ RecvError
  \/ Disconnected \/ UnknownPacket \/ PutPackage

Spec == Init /\ [][Next]_vars

\* The terminal's thread goes on.  Nobody has to send, and connect may fail for ever.
FairSpec == Spec /\ WF_vars(ConnectProcess)

-----------------------------------------------------------------------------
(* Properties.                                                             *)

TypeOK ==
  /\ manager \in {"start", "put", "done"}
  /\ status \in {"stop", "ready"}
  /\ pc \in {"none", "socket", "connect", "ready", "notify", "recv", "more", "put"}
  /\ sockets \in 0 .. MaxConnects
  /\ link \in {"unconnected", "up", "fin", "lost"}
  /\ sent \in 0 .. Len(PacketLengths)
  /\ taken \in 0 .. Start[sent + 1]
  /\ got \in -IntLimit .. BufferSize
  /\ package \in {0} \cup Packets
  /\ delivered \in Seq(Packets)
  /\ gone \subseteq Packets /\ torn \subseteq Packets
  /\ inbox \in Seq({"notify", "contents"})
  /\ sends \in 0 .. MaxSends
  /\ event \in {"none", "header split", "misframed", "past rowData"}

Handed == {delivered[i] : i \in DOMAIN delivered}
Talking == pc \in {"recv", "more", "put"}

\* A terminal that is there to receive has told its peer that it is a terminal, on
\* this connection, and once: the packet would not go out if SendPacket still found
\* the terminal not ready.
IntroducesItself ==
  Talking /\ link \in {"up", "fin"} =>
    \E i \in DOMAIN inbox : \A j \in DOMAIN inbox : inbox[j] = "notify" <=> j = i

\* Packages come in the order in which the peer sent their packets, none twice and none
\* after it was given up, through all disconnections.  What OnRecv has of the packet that
\* is being received are its first bytes, and a package is made of the whole packet:
\* until the connection is reset, after which ret says nothing any more.
PackagesInOrder ==
  /\ \A i, j \in DOMAIN delivered : i < j => delivered[i] < delivered[j]
  /\ Handed \cap gone = {}
  /\ package # 0 => (package \notin gone /\ \A p \in Handed : p < package)
  /\ pc = "more" /\ link # "lost" => taken = Start[package] + got
  /\ pc = "put" => Start[package + 1] <= taken \/ (link = "lost" /\ package \in torn)

\* The thread calls recv again and again in the middle of a packet: the peer has closed,
\* or there is no room for the rest.
Spinning == pc = "more" /\ ((link = "fin" /\ taken = Start[sent + 1]) \/ got = BufferSize)

\* A terminal whose connection has ended begins to connect again, unless the peer closed
\* it in the middle of a packet or the packet is too long.  After a reset it does, be it
\* when ret has wrapped around.
DisconnectNoticed ==
  link \in {"fin", "lost"} ~> pc = "socket" \/ Spinning \/ event # "none"

\* A packet that the peer sent becomes a package (be it a torn one), unless it is given
\* up with the connection or swallowed with a packet before it.
PacketsArrive ==
  \A p \in Packets :
    sent >= p ~> \/ p \in Handed \cup gone
                \/ Spinning \/ event # "none"
                \/ (sockets = MaxConnects /\ pc = "socket")
=============================================================================
