----------------------------- MODULE IOCPServer -----------------------------
(***************************************************************************)
(* IOCPServer.cpp and the control of IOCPSession.cpp: the accept thread,   *)
(* the worker threads on the completion port and the reads and writes that *)
(* are outstanding on each connection.                                     *)
(*                                                                         *)
(* The session list is the table of SessionTable, whose actions are atomic *)
(* here: SessionManager is proved to implement it.  A connection is named  *)
(* by the id its session got; an id is never used twice, an address is.    *)
(* CloseSession frees the session, so that a live session is one in the    *)
(* table or the one the accept thread has not added yet.                   *)
(*                                                                         *)
(* Using a Session that was freed is undefined behaviour: `dangling'       *)
(* records where it first happens and the model stops there.               *)
(*                                                                         *)
(* The bytes of a packet are left out, and what becomes of a read buffer   *)
(* once it no longer holds a packet from its start (`garbled'): that is    *)
(* PacketReader's.  Whether a packet is one the analyzer knows is a        *)
(* choice.                                                                 *)
(***************************************************************************)
EXTENDS Integers, FiniteSets, Sequences

CONSTANTS
  Sessions,       \* the addresses a Session object can have
  Workers,        \* the threads that run IOCPServer::WorkerThread
  MaxConnection,  \* maxConnection_
  MaxClients,     \* bound: connections that are admitted
  MaxPackets,     \* bound: packets one client sends
  MaxReplies,     \* bound: calls of SendPacket on one connection
  MaxOutside,     \* bound: closes by other threads, over all connections
  NoSession, NoJob

Conns == 1 .. MaxClients

ASSUME ConstantsAssumption ==
  /\ NoSession \notin Sessions /\ IsFiniteSet(Workers)
  /\ {MaxConnection, MaxClients, MaxPackets, MaxReplies, MaxOutside} \subseteq Nat

VARIABLES
  members, ids, nextId,  \* the session table
  addr,       \* the address of the session a connection was given
  status,     \* status_
  apc, held,  \* the accept thread: its statement and its session
  peer,       \* what the client has done with the connection
  sent,       \* packets the client has sent
  taken,      \* packets of those that completed reads have taken
  half,       \* a part of the next packet was taken
  swallowed,  \* history: packets that came behind another one in its receive
  garbled,    \* history: the read buffer lost the start of a packet
  reads,      \* reads outstanding on the socket
  writes,     \* writes outstanding on the socket
  port,       \* the queue of the completion port
  wpc, job,   \* a worker: its statement and its completion
  contents,   \* packages in the hands of ContentsProcess
  delivered,  \* history: the packets of a connection passed to PutPackage
  replies,    \* replies on a connection that SetData took
  outside,    \* history: connections closed by another thread
  dangling    \* history: the first use of a freed session

tableVars  == <<members, ids, nextId>>
acceptVars == <<status, apc, held>>
clientVars == <<peer, sent>>
streamVars == <<taken, half, swallowed, garbled>>
netVars    == <<streamVars, writes, port>>
workerVars == <<wpc, job>>
packVars   == <<contents, delivered, replies, outside>>
vars == <<tableVars, addr, acceptVars, clientVars, netVars, reads, workerVars,
          packVars, dangling>>

Table == INSTANCE SessionTable

NoUse == [site |-> "none", conn |-> 0]

Init ==
  /\ Table!Init
  /\ addr = [c \in Conns |-> NoSession]
  /\ status = "initialize" /\ apc = "accept" /\ held = NoSession
  /\ peer = [c \in Conns |-> "none"]
  /\ sent = [c \in Conns |-> 0]
  /\ taken = [c \in Conns |-> 0]
  /\ half = [c \in Conns |-> FALSE]
  /\ swallowed = [c \in Conns |-> {}]
  /\ garbled = [c \in Conns |-> FALSE]
  /\ reads = [c \in Conns |-> 0]
  /\ writes = [c \in Conns |-> 0]
  /\ port = <<>>
  /\ wpc = [w \in Workers |-> "wait"]
  /\ job = [w \in Workers |-> NoJob]
  /\ contents = <<>>
  /\ delivered = [c \in Conns |-> <<>>]
  /\ replies = [c \in Conns |-> 0]
  /\ outside = {}
  /\ dangling = NoUse

\* The session object of the connection is the one that lives at its address.
Alive(c) == addr[c] \in members /\ ids[addr[c]] = c

Intact == dangling = NoUse /\ UNCHANGED dangling

UseOfFreed(site, c) ==
  /\ dangling = NoUse /\ ~Alive(c)
  /\ dangling' = [site |-> site, conn |-> c]

-----------------------------------------------------------------------------
(* Reads and writes.                                                       *)

\* WSARecv.  On a connection that was reset it may fail at once: CheckErrorIO
\* logs the error, and nothing is queued to the port.
PostRead(c) ==
  \/ reads' = [reads EXCEPT ![c] = @ + 1]
  \/ peer[c] = "lost" /\ UNCHANGED reads

Completion(c, kind, size) == [conn |-> c, kind |-> kind, size |-> size, n |-> taken[c] + 1]

\* The rest of a packet that no worker has looked at yet: on the port, or in hand.
IsRestOf(m, c) == m.conn = c /\ m.kind = "read" /\ m.size = "rest"
RestOnPort(c) == {i \in DOMAIN port : IsRestOf(port[i], c)}
RestInHand(c) == {w \in Workers : wpc[w] = "handle" /\ IsRestOf(job[w], c)}
RestUnread(c) == RestOnPort(c) # {} \/ RestInHand(c) # {}

\* A receive ends in the middle of a packet, or even of its header.  It takes the
\* start of the buffer, as every other read of RecvStandBy does.
ReceivePart(c) ==
  /\ ~half[c]
  /\ half' = [half EXCEPT ![c] = TRUE]
  /\ \E torn \in BOOLEAN :
       garbled' = [garbled EXCEPT ![c] = @ \/ torn \/ reads[c] > 1 \/ RestUnread(c)]
  /\ port' = Append(port, Completion(c, "read", "part"))
  /\ UNCHANGED <<taken, swallowed>>

\* A receive brings the end of a packet, and with it whatever of the stream is there:
\* the packets up to last, and perhaps a part of the next one.  The RecvStandBy of this
\* packet will clear them.  Only a read that IsRecving posted asks for no more than
\* the rest of its packet.
ReceiveRest(c) ==
  \E last \in taken[c] + 1 .. sent[c], more \in BOOLEAN :
    /\ more => last < sent[c]
    /\ half[c] /\ ~garbled[c] => last = taken[c] + 1 /\ ~more
    /\ taken' = [taken EXCEPT ![c] = last]
    /\ half' = [half EXCEPT ![c] = FALSE]
    /\ swallowed' = [swallowed EXCEPT ![c] = @ \cup taken[c] + 2 .. last]
    /\ garbled' = [garbled EXCEPT ![c] = @ \/ more \/ RestUnread(c)]
    /\ port' = Append(port, Completion(c, "read", "rest"))

\* The system finishes a read: with data, with nothing once the client has shut
\* its side down, or with an error when the connection or the socket is gone.
FinishRead(c) ==
  /\ reads[c] > 0
  /\ reads' = [reads EXCEPT ![c] = @ - 1]
  /\ \/ /\ Alive(c) /\ peer[c] # "lost" /\ taken[c] < sent[c]
        /\ ReceivePart(c) \/ ReceiveRest(c)
     \/ /\ Alive(c) /\ peer[c] = "fin" /\ taken[c] = sent[c]
        /\ port' = Append(port, Completion(c, "read", "zero"))
        /\ UNCHANGED streamVars
     \/ /\ ~Alive(c) \/ peer[c] = "lost"
        /\ port' = Append(port, Completion(c, "read", "error"))
        /\ UNCHANGED streamVars
  /\ UNCHANGED <<tableVars, addr, acceptVars, clientVars, writes, workerVars, packVars>> /\ Intact

FinishWrite(c) ==
  /\ writes[c] > 0
  /\ writes' = [writes EXCEPT ![c] = @ - 1]
  /\ \E size \in IF Alive(c) /\ peer[c] # "lost" THEN {"part", "rest"} ELSE {"error"} :
       port' = Append(port, Completion(c, "write", size))
  /\ UNCHANGED <<tableVars, addr, acceptVars, clientVars, streamVars, reads, workerVars, packVars>> /\ Intact

-----------------------------------------------------------------------------
(* The clients.                                                            *)

ClientSend(c) ==
  /\ peer[c] = "up" /\ sent[c] < MaxPackets
  /\ sent' = [sent EXCEPT ![c] = @ + 1]
  /\ UNCHANGED peer

ClientLeave(c, how) ==
  /\ peer[c] = "up"
  /\ peer' = [peer EXCEPT ![c] = how]
  /\ UNCHANGED sent

Client(c) ==
  /\ ClientSend(c) \/ ClientLeave(c, "fin") \/ ClientLeave(c, "lost")
  /\ UNCHANGED <<tableVars, addr, acceptVars, netVars, reads, workerVars, packVars>> /\ Intact

-----------------------------------------------------------------------------
(* The main thread and the accept thread.                                  *)

\* Run starts the threads first and sets status_ after them.
RunReady ==
  /\ status = "initialize"
  /\ status' = "ready"
  /\ UNCHANGED <<tableVars, addr, apc, held, clientVars, netVars, reads, workerVars, packVars>> /\ Intact

\* WSAAccept, new IOCPSession() and Session::OnAccept; when SetSocketOpt fails
\* the session is deleted.  A WSAAccept that fails ends the thread.
Accept(s) ==
  /\ apc = "accept"
  /\ nextId <= MaxClients
  /\ \/ apc' = "stopped" /\ UNCHANGED <<held, tableVars>>
     \/ /\ Table!Construct(s)
        /\ \/ apc' = "add" /\ held' = s
           \/ apc' = "check" /\ UNCHANGED held
  /\ UNCHANGED <<addr, status, clientVars, netVars, reads, workerVars, packVars>> /\ Intact

\* AddSession.  A session that is refused is deleted, and never had an id.
AddHeld ==
  /\ apc = "add"
  /\ Table!Admit(held)
  /\ addr' = [addr EXCEPT ![nextId] = held]
  /\ peer' = [peer EXCEPT ![nextId] = "up"]
  /\ apc' = "attach"
  /\ UNCHANGED <<status, held, sent, netVars, reads, workerVars, packVars>> /\ Intact

\* Mutant: the pointer to the deleted session is kept.
RefuseHeldKept ==
  /\ apc = "add"
  /\ Cardinality(members) > MaxConnection
  /\ apc' = "check"
  /\ UNCHANGED <<tableVars, addr, status, held, clientVars, netVars, reads, workerVars, packVars>> /\ Intact

RefuseHeld ==
  /\ apc = "add"
  /\ Cardinality(members) > MaxConnection
  /\ apc' = "check"
  /\ held' = NoSession
  /\ UNCHANGED <<tableVars, addr, status, clientVars, netVars, reads, workerVars, packVars>> /\ Intact

\* The connection of the session the accept thread has added.
HeldConn == nextId - 1

\* Clear on the read buffer, and CreateIoCompletionPort.  When it fails,
\* SAFE_DELETE runs ~Session, which closes and frees the session, and then frees
\* it again.
Attach ==
  /\ apc = "attach"
  /\ \/ Alive(HeldConn) /\ apc' = "standby" /\ Intact
     \/ Alive(HeldConn) /\ UNCHANGED apc
        /\ dangling = NoUse /\ dangling' = [site |-> "attach", conn |-> HeldConn]
     \/ UseOfFreed("accept", HeldConn) /\ UNCHANGED apc
  /\ UNCHANGED <<tableVars, addr, status, held, clientVars, netVars, reads, workerVars, packVars>>

\* The log line and RecvStandBy use the session.
StandBy ==
  /\ apc = "standby"
  /\ apc' = "check"
  /\ held' = NoSession
  /\ \/ Alive(HeldConn) /\ PostRead(HeldConn) /\ Intact
     \/ UseOfFreed("accept", HeldConn) /\ UNCHANGED reads
  /\ UNCHANGED <<tableVars, addr, status, clientVars, netVars, workerVars, packVars>>

\* The thread goes on only when Run has come as far as SERVER_READY.
CheckStatus ==
  /\ apc = "check"
  /\ apc' = IF status = "ready" THEN "accept" ELSE "stopped"
  /\ UNCHANGED <<tableVars, addr, status, held, clientVars, netVars, reads, workerVars, packVars>> /\ Intact

AcceptThread == AddHeld \/ RefuseHeld \/ Attach \/ StandBy \/ CheckStatus

-----------------------------------------------------------------------------
(* The worker threads.                                                     *)

\* GetQueuedCompletionStatus; a completion with an error is dropped.
Dequeue(w) ==
  /\ wpc[w] = "wait" /\ port # <<>>
  /\ port' = Tail(port)
  /\ IF Head(port).size = "error"
     THEN UNCHANGED workerVars
     ELSE /\ job' = [job EXCEPT ![w] = Head(port)]
          /\ wpc' = [wpc EXCEPT ![w] = "handle"]
  /\ UNCHANGED <<tableVars, addr, acceptVars, clientVars, streamVars, writes, reads, packVars>> /\ Intact

Handling(w, kind, size) ==
  /\ wpc[w] = "handle" /\ job[w].kind = kind /\ job[w].size = size

BackToWait(w) ==
  /\ wpc' = [wpc EXCEPT ![w] = "wait"]
  /\ job' = [job EXCEPT ![w] = NoJob]

\* The worker goes through the completion key to a session that was freed.
HandleFreed(w) ==
  /\ wpc[w] = "handle"
  /\ UseOfFreed("worker", job[w].conn)
  /\ BackToWait(w)
  /\ UNCHANGED <<tableVars, addr, acceptVars, clientVars, netVars, reads, packVars>>

\* CloseSession takes the session out of the table, closes its socket and frees
\* it.
CloseConn(c) == Alive(c) /\ Table!Evict(addr[c])

\* Mutant: the log line, and no CloseSession.
HandleZeroLogged(w) ==
  /\ wpc[w] = "handle" /\ job[w].size = "zero"
  /\ Alive(job[w].conn)
  /\ BackToWait(w)
  /\ UNCHANGED <<tableVars, addr, acceptVars, clientVars, netVars, reads, packVars>> /\ Intact

HandleZero(w) ==
  /\ wpc[w] = "handle" /\ job[w].size = "zero"
  /\ CloseConn(job[w].conn)
  /\ BackToWait(w)
  /\ UNCHANGED <<addr, acceptVars, clientVars, netVars, reads, packVars>> /\ Intact

\* OnSend: the rest of the packet is sent, or nothing is left to do.
HandleSent(w) ==
  /\ wpc[w] = "handle" /\ job[w].kind = "write" /\ job[w].size # "zero"
  /\ LET c == job[w].conn IN
       /\ Alive(c)
       /\ writes' = IF job[w].size = "part" THEN [writes EXCEPT ![c] = @ + 1] ELSE writes
  /\ BackToWait(w)
  /\ UNCHANGED <<tableVars, addr, acceptVars, clientVars, streamVars, port, reads, packVars>> /\ Intact

\* Mutants: OnRecv returns without reading on, and it goes on to RecvStandBy
\* after IsRecving has posted a read.
HandlePartForgotten(w) ==
  /\ Handling(w, "read", "part")
  /\ Alive(job[w].conn)
  /\ BackToWait(w)
  /\ UNCHANGED <<tableVars, addr, acceptVars, clientVars, netVars, reads, packVars>> /\ Intact

HandlePartTwice(w) ==
  /\ Handling(w, "read", "part")
  /\ Alive(job[w].conn)
  /\ reads' = [reads EXCEPT ![job[w].conn] = @ + 2]
  /\ BackToWait(w)
  /\ UNCHANGED <<tableVars, addr, acceptVars, clientVars, netVars, packVars>> /\ Intact

\* OnRecv with a packet that is not complete: IsRecving reads on.  WSARecv may refuse
\* the length it takes from a garbled buffer, and CheckErrorIO logs that.
HandlePart(w) ==
  /\ Handling(w, "read", "part")
  /\ Alive(job[w].conn)
  /\ \/ PostRead(job[w].conn)
     \/ garbled[job[w].conn] /\ UNCHANGED reads
  /\ BackToWait(w)
  /\ UNCHANGED <<tableVars, addr, acceptVars, clientVars, netVars, packVars>> /\ Intact

\* OnRecv with a packet the analyzer does not know: OnClose(true).
HandleBadPacket(w) ==
  /\ Handling(w, "read", "rest")
  /\ CloseConn(job[w].conn)
  /\ BackToWait(w)
  /\ UNCHANGED <<addr, acceptVars, clientVars, netVars, reads, packVars>> /\ Intact

\* OnRecv with a packet: the next read is posted before the package is passed on.
HandlePacket(w) ==
  /\ Handling(w, "read", "rest")
  /\ Alive(job[w].conn)
  /\ PostRead(job[w].conn)
  /\ wpc' = [wpc EXCEPT ![w] = "put"]
  /\ UNCHANGED <<tableVars, addr, acceptVars, clientVars, netVars, job, packVars>> /\ Intact

\* Mutant: a package is dropped while ContentsProcess is busy.
PutPackageIfIdle(w) ==
  /\ wpc[w] = "put"
  /\ LET c == job[w].conn IN
       IF contents = <<>>
       THEN /\ contents' = Append(contents, c)
            /\ delivered' = [delivered EXCEPT ![c] = Append(@, job[w].n)]
       ELSE UNCHANGED <<contents, delivered>>
  /\ BackToWait(w)
  /\ UNCHANGED <<tableVars, addr, acceptVars, clientVars, netVars, reads, replies, outside>> /\ Intact

PutPackage(w) ==
  /\ wpc[w] = "put"
  /\ LET c == job[w].conn IN
       /\ contents' = Append(contents, c)
       /\ delivered' = [delivered EXCEPT ![c] = Append(@, job[w].n)]
  /\ BackToWait(w)
  /\ UNCHANGED <<tableVars, addr, acceptVars, clientVars, netVars, reads, replies, outside>> /\ Intact

Handle(w) ==
  \/ HandleFreed(w) \/ HandleZero(w) \/ HandleSent(w) \/ HandlePart(w)
  \/ HandleBadPacket(w) \/ HandlePacket(w) \/ PutPackage(w)

-----------------------------------------------------------------------------
(* Other threads that use a session.                                       *)

\* ContentsProcess takes a package and is done with it.
ContentsDone ==
  /\ contents # <<>>
  /\ contents' = Tail(contents)
  /\ UNCHANGED <<tableVars, addr, acceptVars, clientVars, netVars, reads, workerVars, delivered, replies, outside>> /\ Intact

\* ContentsProcess answers through the Session pointer of the package.  SetData may
\* refuse the packet, and nothing comes of it; else SendPacket writes, and then posts
\* a read of its own, whose RecvStandBy clears what the read buffer holds.
ContentsReply ==
  /\ contents # <<>>
  /\ contents' = Tail(contents)
  /\ LET c == Head(contents) IN
       \/ Alive(c) /\ UNCHANGED <<replies, writes, reads, garbled>> /\ Intact
       \/ /\ replies[c] < MaxReplies
          /\ replies' = [replies EXCEPT ![c] = @ + 1]
          /\ \/ /\ Alive(c)
                /\ writes' = [writes EXCEPT ![c] = @ + 1]
                /\ garbled' = [garbled EXCEPT ![c] = @ \/ half[c] \/ RestUnread(c)]
                /\ PostRead(c)
                /\ Intact
             \/ UseOfFreed("contents", c) /\ UNCHANGED <<writes, reads, garbled>>
  /\ UNCHANGED <<tableVars, addr, acceptVars, clientVars, taken, half, swallowed, port, workerVars,
                 delivered, outside>>

\* A task thread (SessionMonitor) closes a session it found in the list.  When it
\* does is left open: its clock is not modelled.
OutsideClose(c) ==
  /\ Cardinality(outside) < MaxOutside
  /\ CloseConn(c)
  /\ outside' = outside \cup {c}
  /\ UNCHANGED <<addr, acceptVars, clientVars, netVars, reads, workerVars, contents, delivered, replies>> /\ Intact

-----------------------------------------------------------------------------
Next ==
  \/ RunReady \/ AcceptThread \/ \E s \in Sessions : Accept(s)
  \/ \E c \in Conns : Client(c) \/ FinishRead(c) \/ FinishWrite(c) \/ OutsideClose(c)
  \/ \E w \in Workers : Dequeue(w) \/ Handle(w)
  \/ ContentsDone \/ ContentsReply

Spec == Init /\ [][Next]_vars

\* The threads go on, and the system finishes what it can finish.  Nothing makes
\* a client leave, nothing makes WSAAccept return.
FairSpec ==
  /\ Spec
  /\ WF_vars(AcceptThread)
  /\ \A c \in Conns : WF_vars(FinishRead(c))
  /\ \A w \in Workers : /\ WF_vars(Dequeue(w))
                        /\ WF_vars(Handle(w))

-----------------------------------------------------------------------------
(* Properties.                                                             *)

Completions == [conn : Conns, kind : {"read", "write"}, size : {"part", "rest", "zero", "error"},
                n : 1 .. MaxPackets + 1]

\* Every variable keeps its type; the accept thread has a session in hand from
\* OnAccept until it is added and attached, or deleted.
TypeOK ==
  /\ members \subseteq Sessions
  /\ ids \in [Sessions -> 0 .. MaxClients]
  /\ nextId \in 1 .. MaxClients + 1
  /\ addr \in [Conns -> Sessions \cup {NoSession}]
  /\ status \in {"initialize", "ready"}
  /\ apc \in {"accept", "add", "attach", "standby", "check", "stopped"}
  /\ held \in Sessions \cup {NoSession}
  /\ held \in Sessions <=> apc \in {"add", "attach", "standby"}
  /\ peer \in [Conns -> {"none", "up", "fin", "lost"}]
  /\ sent \in [Conns -> 0 .. MaxPackets]
  /\ taken \in [Conns -> 0 .. MaxPackets] /\ \A c \in Conns : taken[c] <= sent[c]
  /\ half \in [Conns -> BOOLEAN] /\ garbled \in [Conns -> BOOLEAN]
  /\ swallowed \in [Conns -> SUBSET (1 .. MaxPackets)]
  /\ reads \in [Conns -> Nat]
  /\ writes \in [Conns -> Nat]
  /\ port \in Seq(Completions)
  /\ wpc \in [Workers -> {"wait", "handle", "put"}]
  /\ job \in [Workers -> Completions \cup {NoJob}]
  /\ \A w \in Workers : IF wpc[w] = "wait" THEN job[w] = NoJob ELSE job[w] \in Completions
  /\ contents \in Seq(Conns)
  /\ delivered \in [Conns -> Seq(1 .. MaxPackets)]
  /\ replies \in [Conns -> 0 .. MaxReplies]
  /\ outside \subseteq Conns
  /\ dangling = NoUse \/ dangling.conn \in Conns

\* The reads a connection still has coming: outstanding, queued on the port, in
\* the hands of a worker, or the first one, that the accept thread will post.
IsReadOf(m, c) == m.conn = c /\ m.kind = "read" /\ m.size # "error"
ReadsIn(queue, c) == {i \in DOMAIN queue : IsReadOf(queue[i], c)}
ReadsInHand(c) == {w \in Workers : wpc[w] = "handle" /\ job[w].kind = "read" /\ job[w].conn = c}
FirstComing(c) == apc \in {"attach", "standby"} /\ HeldConn = c

ReadsComing(c) ==
  reads[c] + Cardinality(ReadsIn(port, c)) + Cardinality(ReadsInHand(c))
    + IF FirstComing(c) THEN 1 ELSE 0

\* A connection that is not reset has one read coming, and one more for every
\* reply: OnRecv, IsRecving and RecvStandBy never forget to read on, and it is
\* the RecvStandBy at the end of SendPacket alone that posts a second read on
\* the one read buffer a session has.  With a garbled buffer IsRecving may ask for
\* a length no read can have.
OneReadPerReply ==
  \A c \in Conns :
    Alive(c) /\ peer[c] # "lost" /\ ~garbled[c] => ReadsComing(c) = 1 + replies[c]

\* With one read coming nobody else has the session: a worker or the accept
\* thread only meets a freed session when ContentsProcess answered on the
\* connection or another thread closed it.  A failed attach frees twice whatever
\* the others do.
OnlySharedSessionsDangle ==
  \/ dangling = NoUse
  \/ dangling.site = "attach"
  \/ replies[dangling.conn] > 0
  \/ dangling.conn \in outside

Passed(c) == {delivered[c][i] : i \in DOMAIN delivered[c]}

\* Workers can pass on the packages of one client in another order than it sent
\* them, because the next read is posted before PutPackage.  A package that was
\* overtaken is in the hands of a worker, so that fewer than workerThreadCount_
\* packages of a client are ever out of order; none comes twice, and none is lost
\* but what came in one receive behind another packet.
OvertakenPackageInHand ==
  \A c \in Conns :
    replies[c] = 0 /\ ~garbled[c] =>
      /\ Cardinality(Passed(c)) = Len(delivered[c])
      /\ \A m \in Passed(c) : \A n \in 1 .. m - 1 :
           n \notin Passed(c) \cup swallowed[c] =>
             \E w \in Workers : wpc[w] = "put" /\ job[w].conn = c /\ job[w].n = n

Stopped == dangling # NoUse

\* A client that shuts its side down is taken out of the session list, however
\* many packets it sent before, unless its read buffer was garbled: then no read may
\* be left that would tell.
FinishedClientRemoved ==
  \A c \in Conns : peer[c] = "fin" ~> ~Alive(c) \/ garbled[c] \/ Stopped

\* A packet that was sent on a connection that stays up reaches ContentsProcess, unless
\* a receive brought it, or a part of the one after it, behind the end of another
\* packet, or a receive tore a header, or two receives or a reply met in the read buffer.
PacketsReachContents ==
  \A c \in Conns : \A n \in 1 .. MaxPackets :
    sent[c] >= n ~>
      n \in Passed(c) \cup swallowed[c] \/ garbled[c] \/ peer[c] = "lost" \/ ~Alive(c) \/ Stopped
=============================================================================
