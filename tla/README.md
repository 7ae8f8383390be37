# iocpChatServer in TLA+

A model of the server core of iocpChatServer (`src/ServerCore/ServerCore`): a
Windows chat server that accepts clients on one thread, takes their packets off
an I/O completion port on several, and hands them to a contents process. The
repository holds the library; the contents process, the packets and their
analyzer (`ContentsProcess`, `Packet`, `Package`, `Stream`, `PacketAnalyzer`,
`PacketObfuscation`) are used by it and are not in it. Some identifiers differ
from their uses in the case of a letter only (`SessionList` and `GetSessionList`,
`clientAddress` and `ClientAddress`); they are read as one.

## The system

| part | state | operations | interacts with |
|---|---|---|---|
| SessionManager | `sessionList_`, `sessionCount_`, `sessionSeed_`, a recursive `lock_` | AddSession, GetSession, GetSessionList, CloseSession, ForceCloseSession | called by the accept thread, the workers, the task and terminal threads, and by `~Session` from inside its own `delete` |
| Session, IOCPSession | socket, id, heart beat, one read and one write `IoData` | OnAccept, OnClose, OnRecv, RecvStandBy, OnSend, SendPacket | the completion port; deleted by SessionManager |
| IOCPServer, Server | `status_`, listening socket, port, threads | Run, AcceptThread, OnAccept, WorkerThread, PutPackage | sessions through raw pointers that travel as completion keys |
| ThreadJobQueue | two `std::queue`s, `mLock` | Push, Pop, Swap, Size, IsEmpty | the consumers of packages (outside the repository) |
| Lock, LockManager, Thread, ThreadManager | who holds which lock, which lock a thread is at | SAFE_LOCK, CheckDeadLock, Put, At | everything that locks |
| Task, TaskManager, SessionMonitor | task lists, next ticks | Add, Process, Tick | SessionMonitor closes sessions from a task thread |
| Terminal, TerminalSession, TerminalManager | connection status, one socket | ConnectProcess, OnRecv, SendPacket | PutPackage |
| tinyxml | a tree of nodes by pointers, attributes, the parser's place and error | Parse, LoadFile, SaveFile, Insert*, RemoveChild, Clone, SetAttribute | the configuration (`LoadConfig`) that Server, TaskManager, TerminalManager and Logger read |
| Logger, Clock, Config, Util, diagnostics | — | formatting, time, files | everybody; Logger looks its thread up in ThreadManager |

What is hard in it:

- **Interleaving.** One session is reachable from every thread by a raw pointer;
  two of them may close it at once, and the accept thread may give its address
  to the next client in between.
- **Re-entrance.** `delete session` calls `~Session`, `OnClose`, `CloseSession`
  on the session that is being deleted, under the lock its thread holds.
- **Ownership by protocol.** Nothing but the discipline of "one read outstanding
  per connection" keeps two workers from one session. SendPacket breaks it: it
  posts a read of its own.
- **Failure.** An attach, a socket option, a WSARecv, a WSAAccept or a whole
  connection can fail at any step of OnAccept and OnRecv.
- **Order.** Workers take completions in order and pass packages on in any. Threads
  run before they are in the map of threads and before the server is ready.
- **Lists without a lock.** The session list is copied, a task list is gone through and
  the map of threads is searched while other threads change them.
- **Pointers kept by hand.** A document's nodes have five links each, which a parser that
  can fail anywhere, and every edit, must keep in step.

What makes each part correct: the list, the count, the lock and the objects of
SessionManager agree, a listed session can be used, a session is freed once; a
connection always has a read coming, its packets reach the contents process once
and nearly in order, a client that leaves is forgotten; a job queue is a queue; works are
ticked for ever and not too often; clients that come are accepted; a document is a tree
and what it is saved as is what is loaded.
`PROJECT.json` lists the hazards line by line with the properties that cover them.

## Modules

| module | models | how |
|---|---|---|
| `SessionTable` | what the session list promises | abstract: members, ids, next id; Construct, Admit, Evict |
| `SessionManager` | `SessionManager.cpp`, `Session::OnAccept`, `OnClose`, `~Session`, the failure paths of `IOCPServer::OnAccept` | one action per statement that touches the list, the count, the lock or an object |
| `SessionManager_proofs` | | the invariants and the refinement of SessionTable, proved |
| `MCSessionManager` | | small instances |
| `IOCPServer` | `IOCPServer.cpp` and the control of `IOCPSession.cpp` | one action per handler; the session list is the SessionTable, whose actions it takes |
| `IOCPServer_proofs` | | the reads, the shared sessions and the order of packages, proved |
| `MCIOCPServer` | | small instances |
| `IoData` | class `IoData` of `IOCPSession.cpp` | the buffer and its two counters as a record, its methods as operators |
| `PacketReader` | `IOCPSession::OnRecv`, `IsRecving`, `RecvStandBy` with the bytes | one connection's incoming stream, cut into receives in every way |
| `PacketWriter` | `IOCPSession::SendPacket`, `IoData::SetData`, `OnSend` with the bytes | one connection's outgoing stream, written in parts |
| `PacketReader_proofs` | | OnRecv makes of the stream the packets that were sent, proved |
| `PacketWriter_proofs` | | the client's bytes in order for every size, proved |
| `MCPacketReader`, `MCPacketWriter` | | small instances |
| `SessionMonitor` | `SessionMonitor.cpp` on its task thread (`Task.cpp`), with the clock | one action per step of Tick |
| `MCSessionMonitor` | | a small instance |
| `Terminal` | `Terminal.cpp`, `TerminalSession.cpp`, `TerminalManager.cpp` | one action per step of ConnectProcess, with the peer and the senders |
| `Terminal_proofs` | | packages in order through any number of connections, and the introduction, proved |
| `MCTerminal` | | a small instance |
| `FifoQueue` | what a job queue promises | abstract: one sequence and what was taken from it |
| `ThreadJobQueue` | `ThreadJobQueue.h` | one action per statement of Push and Pop |
| `ThreadJobQueue_proofs` | | no read of an empty queue, and the refinement of FifoQueue, proved |
| `MCThreadJobQueue` | | a small instance |
| `ServerThreads` | `IOCPServer::Run` and what its threads share: `Thread.cpp`, `Lock.cpp`, the look-up in `Logger.cpp` | one action per step of the start, per statement of FileLock and FileUnlock |
| `ServerThreads_proofs` | | the lock's place and the map of threads, proved; also how far apart the ticks of a work are, and that the monitor closes only old sessions |
| `MCServerThreads` | | a small instance |
| `Task` | `Task.cpp`: TaskManager, Task, TaskNode | one action per step of Add and Process, push_back in two |
| `MCTask` | | a small instance |
| `XmlForest` | what the nodes of a document promise | abstract: ordered lists of children, no pointers |
| `XmlHeap` | the links of `TiXmlNode` and the attributes of `TiXmlElement` | operators from heaps to heaps |
| `XmlDocument` | `tinyxmlparser.cpp` and the changes, Print, SaveFile, LoadFile of `tinyxml.cpp` | one action per choice of the parser and per operation; a file is a sequence of tokens |
| `XmlDocument_proofs` | | the links agree at every step of a load and after every change, they implement the forest, and walks meet all children, proved |
| `XmlText` | EncodeString, GetEntity, ReadText, Stamp, LoadFile's line ends | functions on sequences of bytes |
| `MCXmlDocument` | | a small instance of both |

### SessionManager

A thread is a `pc` (the statement it executes next), the `call` it is in, and the
pointer `arg` it works with. Addresses (`Sessions`) are not objects: `heap`,
`sock` and `id` say what is at an address, so that a stale pointer can meet the
next object at the same place. `nested` is true while the thread is in the
CloseSession that `~Session` calls; that call goes through the same actions as
the outer one. `owner` and `depth` are the `std::recursive_mutex` of `lock_`.

`AcceptSession` is `new IOCPSession()` and `Session::OnAccept` (with its failure),
`AddSessionLock` to `AddSessionUnlock` are AddSession and the test of its result,
`Attach` is CreateIoCompletionPort (with its failure), `CloseSessionLock` to
`CloseSessionUnlock` are CloseSession, `DeleteFree` is the end of OnAccept's
SAFE_DELETE. Closers come by a pointer with `TakePointer` (a completion key, or
the unlocked list of GetSessionList) or with `GetSession*`.

The heap frees what it is told to; a second free is recorded in `doubleFreed`
and has no other effect. `leaked` records the ids of sessions freed with their
socket open. `meant` is the id the pointer's session had when the thread got it.
These three are history variables: no guard reads them.

`sessionList_` is a set: `find` and `remove` look at elements, and nothing depends
on their order. The deadlock detector that SAFE_LOCK asks first is in ServerThreads.

### IOCPServer

A connection is named by the id its session got. `addr` is the address of its
session, and a completion carries the connection's name where the program
carries the pointer; `Alive(c)` says whether the pointer still leads to the
session it was taken from. The first use of a freed session is recorded in
`dangling` and the model stops there: what the program does afterwards is
undefined. (So do the bounds stop it; deadlock is not checked in these runs, and
a real server waits for clients for ever.)

`reads` and `writes` count the overlapped operations outstanding on a socket;
`port` is the completion port's queue. `FinishRead` and `FinishWrite` are the
system: data, nothing after the client has shut down its side, an error when the
connection or the socket is gone. A receive that is not the rest of a packet that
IsRecving asked for takes what is there: with the end of a packet it may bring whole
packets and a part of one (`ReceiveRest`), which the RecvStandBy of the first clears.
They are `swallowed`. When a part is lost so, when a header is torn, or when a receive or
a reply's RecvStandBy comes into a buffer that still holds a packet, the buffer is
`garbled`: from then on OnRecv takes lengths from the middle of the stream, and WSARecv
may be asked for a length it refuses, after which nothing is coming. The properties
except both, by name, and PacketReader has them byte by byte. WSARecv on a
connection that was reset may also fail at once (`PostRead`), and nothing is
queued then. A worker is `Dequeue` and one `Handle*` per path through
WorkerThread and OnRecv, with `PutPackage` apart, because RecvStandBy comes before
it and lets another worker overtake. `ContentsReply` is SendPacket called through a
Package, which SetData may refuse: then it neither writes nor reads, and is no reply; `OutsideClose` is SessionMonitor's close. The external contents process
takes packages in order.

Taking SessionTable's atomic actions for AddSession and CloseSession is what the
refinement of SessionManager justifies. A session is freed inside CloseSession,
so being in the table and being alive are the same thing, except for the session
the accept thread has not added yet (`held`).

### IoData, PacketReader, PacketWriter

IOCPServer counts reads and writes; these modules have their bytes. A byte is its
position in the connection's stream, so that a buffer shows what is in it, and a
packet is a range of positions, its header the first `HeaderSize` of them.
Obfuscation turns back what it encoded and is left out.

PacketReader: a receive (`FinishRead`) brings any part of what the client has
sent. `HandlePart` and `HandleWhole` are OnRecv (SetupTotalBytes, NeedMoreIO, the
Analyzer), `StandBy` is RecvStandBy, `PutPackage` comes after it, and `Reply` is the
RecvStandBy at the end of SendPacket. `BadLength` is OnRecv with a header that says
anything but the length of a packet that fits: nothing looks into it, and what is asked
for next begins in buffer_ and ends behind it; a negative length is a huge one, since it
is kept as a size_t (`Unsigned`). Some things this code does not survive, and nothing in it
prevents them; the variable `event` names the first, and the model stops there:

| event | what happened |
|---|---|
| coalesced | a receive brought the end of a packet and the start of the next: RecvStandBy clears the start |
| header split | a receive brought less than a header: SetupTotalBytes decodes it all the same |
| overwritten | a receive came into a buffer with bytes that are not dealt with, because two reads are outstanding |
| parts to two reads | the parts of a packet went to two reads |
| wiped | SendPacket's RecvStandBy cleared a buffer with bytes in it |
| bad length | a header says a length that no packet of the buffer has: too long, negative, or without data |

SendPacket sends its reply before it clears the buffer, so that even a client that
waits for the reply before it sends again can meet "wiped". The properties say
that there is no seventh way: without these events every packet comes out whole and
once, no byte is lost, and no read goes past the buffer. A client that sends what packets
are, of lengths that fit, meets the first five; the sixth is any other client. The
model takes the packet's bytes for what it is and a header for its length, and what decodes
from anything else for any length.

PacketWriter: `SetData` and `Send` are the two halves of SendPacket (buffer, then
WSASend of as many bytes as the *stream* has), `OnSend` sends the rest. `overwritten`
is a SendPacket while the packet before is still going out, `overrun` a packet that
is accepted and does not fit.

### SessionMonitor

The clock is not a variable: `age`, `silence` and `wait` are the differences the code
computes, capped where they stop to matter. The task list holds one node, with no
duration (`TICK_INFINITY`), which is all the repository adds. `todo` is the
copied list, `seen` the ages at the `now` of the tick. A session that is freed while it
is in the copy makes `dangling` true, and the model stops there.

### Terminal

`pc` is the thread of one terminal; `manager` is how far TerminalManager has come
with it, which decides whether the contents process can find it. `link` is the
newest socket's connection: `fin` when the peer has closed (what it sent can be
received), `lost` when it was reset. `status` starts as anything, since the
constructor does not set it, and stays `ready` through a disconnect, as in the code.
A recv makes one package; whole packets behind it are `gone`, and a recv that ends
inside a packet or has less than a header is an `event` that stops the model. `got` is
`ret`, with what the code adds to it: a recv that fails adds SOCKET_ERROR, which is -1
(`RecvError`). After a reset in the middle of a packet ret therefore counts down, through
`-IntLimit`, the least int, to the greatest; the loop ends there, as if all had come, and
OnRecv goes on with the part it has (`torn`). DecodingData then runs over the whole length: of
a packet that is longer than rowData, over what is behind it ("past rowData", where the model
stops). A packet that long is received up to the end of rowData, and recv is called for
the 0 bytes of room that are left, again and again (`Spinning`), unless a reset ends it.

### ThreadJobQueue

`mQueue[0]` and `mQueue[1]`, `writeAt` for the pointer `mWriteQueue` (the other one
is `mReadqueue`), and one `pc` per thread. The nested scopes of Size and Swap on the
recursive lock change nothing. The comments ask for one consumer; nothing needs it
and the model has any number.

### ServerThreads

IOCPServer takes the server as it is once it runs; this module has how it comes to
run. `main` is Run: the limit of workers and the listening socket, `new thread_t` for the
accept thread and each worker, `ThreadManager::Put` after each, SERVER_READY at the end.
A std::thread runs from its construction on, so the accept thread can be at its test of
`status_` while the others are still to be made (`early`), and any thread can look
itself up in the map while Put inserts (`Found`): it finds itself or not, or the process
goes `down`. `Thread::lock_` is never initialised, and `SearchLockCycle` follows it: it is
null, and the answer is "no deadlock", or it leads nowhere, and the process is down too.
What the detector can *not* do is find a deadlock, since nothing calls SetLock; the
model has no such outcome.

`lock_t` is a recursive mutex with the place that took it. `LockMutex`, `SetPlace`, `Unlock`
and `ClearPlace` are the statements of FileLock and FileUnlock; the last comes after the
mutex was let go, so that it can clear the place of the next holder. The lock is
SessionManager's; each use is a scope of the accept thread (AddSession, and again from
the destructor of a session that was refused, or could not be attached to the port) or of a
worker (CloseSession, and again from
the destructor of the one it closes). A client is only what the accept loop does with it.

### Task

`list[i]` is what can be reached from the first node of thread i's std::list and `end[i]`
where push_back would link. Both std::list and TaskManager are without a lock, so
push_back is two steps (`AddFindEnd`, `AddLink`), and a removal or another push_back in
between loses nodes: `raced` says on which list that has happened. NOW_TICK is seconds
since 1970; as in SessionMonitor the differences stand in its place. `Expired` compares a
node's *duration* with the *time of day*: every node with a duration is expired, and is
unlinked before its first tick. Removed nodes are never freed. `AddDropped` is Add when
the configuration has no task section and the number of threads is still zero.

### XmlHeap, XmlForest, XmlDocument

A heap is a record of functions from addresses to kinds, names, attributes and the five
pointers; `LinkEndChild`, `Insert*Child`, `ReplaceChild`, `RemoveChild`, `Clear`, `Clone`, `SetAttribute`
are operators on heaps, with the code's assignments. A node's address is free again after
its delete, so that a pointer kept too long would meet the next node.

A file is cut into tokens where the parser makes a choice; the next one is chosen as it
is read, so a run goes through every file at once, each broken off everywhere. `open` is
the stack of Parse calls that have not returned, `lost` a null pointer as the place in the
file, which every Parse passes on after it has linked its node. Then the application keeps
the document, changes it, saves and loads it: `Printed` is Print in tokens. `XmlForest` is
the same with ordered lists in the place of pointers, each node with a label (`Labels`: kind
and name), and every step of XmlDocument is one of its steps. A text is one token or
several, each with a visible character (`Text`) or of blanks by reference (`BlankText`, as of
`&#32;`); `blank` says that the text on top has none of the first. Parse deletes such a text
instead of linking it. An application's text without a name is one of spaces, or empty:
printed, it is white space to the parser. A reference that ReadText cannot go on from
(`&#x` without its semicolon) is not among the tokens.

NothingLost says two things of a load without an error: the document is what was read
(but for texts of blanks), and all of the file was read, unless the parser stopped at a text or a
cut leaf at document level, which it reports to nobody.

SavedIsLoaded has a condition, `Readable`, that names what Print writes and Parse does
not read again: two texts side by side, text outside all elements or of nothing but blanks, an end tag inside one
(read as an Unknown at document level), attributes without a name, an empty document.

### XmlText

The bytes that the tokens of XmlDocument leave out, as functions on sequences of bytes
(no state): a value goes through EncodeString, in a file, and comes back through ReadText
and GetEntity; LoadFile turns line ends into LF; Stamp counts rows and columns over tabs,
line ends and the bytes of UTF-8. The references are an editor's idea of a row and a
column, and the identity. The encoding is UTF-8, as after a declaration or a byte order
mark, and characters are whole: Stamp would stay for ever on the lead byte 0xEF with fewer
than two bytes behind it.

## Runs

| run | question | instance |
|---|---|---|
| session_safety | do the lock, count, list, ids and objects agree in every interleaving, is the right client gone after a close, is the proofs' invariant one? | 2 addresses, accept thread and 2 closers, 3 ids, `MaxConnection = 1`: room for two |
| session_table | does SessionManager implement SessionTable, stay within its capacity and always release its lock? | 2 addresses, accept thread and 1 closer, 3 ids, `MaxConnection = 0`: room for one, the next is refused |
| server_shared | who meets a freed session? is a read ever forgotten or doubled? | 2 clients, 2 addresses, room for one, 2 workers, 1 packet and 1 reply each, 1 close from outside |
| server_delivery | how far can packages get out of order? is a client that leaves forgotten, does every packet arrive? | 1 client, 2 workers, 3 packets, 1 reply |
| read_packets | do packets come out as they went in? | 4 packets of 3 to 5 bytes, a header of 2, a buffer of 7, 2 workers, 3 replies; bad lengths 0, 2 (a header), 8 and -1 |
| write_packets | does the client get the replies' bytes, in order and once? | 3 packets with streams of 1, 4, 5 or 6 bytes, a header of 2, a buffer of 6, 2 workers |
| monitor | are the silent clients closed, and nobody too soon? | 2 clients, a limit of 3 ticks, a tick after every second |
| terminal | does a terminal introduce itself, receive in order, and come back? | 3 packets of 3, 4 and 9 bytes, a buffer of 8, ints from -10 to 9, 3 connections, 2 packets of the contents process |
| job_queue | is it a queue? | 3 threads, 2 jobs, 4 pushes |
| threads | does a lock name its holder, is the map of threads at rest once the server is ready, are clients accepted for ever? | the accept thread and 2 workers, 2 clients, `MaxThreads = 2` |
| tasks | is every work ticked again and again, does one with a duration leave? | 3 works, one of them with a duration, 2 adders, 0, 1 or 2 task threads, a tick after every second |
| xml | do the links agree through every load, failure and change, is what is saved what is loaded, are rows and columns right? | 4 nodes, files of up to 5 tokens, documents of up to 4 nodes and attributes; texts of up to 4 of 9 bytes, files of up to 4 of 6 characters |

The bounds: two addresses, one to be reused while a thread holds it; two closers
and the accept thread, the smallest number at which two wait for a third; three
ids, so that an address is used a second time while another session is there.
`MaxConnection = 1` lets two sessions be listed at once, which ids that repeat and
counts that drift need; `MaxConnection = 0` makes the table full with one session,
so that the next is refused. session_table has one closer because its liveness is
checked without symmetry; the refinement is proved for any number. Two workers are
needed to meet on a session, and for the second packet to overtake the first; three packets
are what one receive can bring as the end of one, a whole one and the start of the next.
The reader's buffer holds one packet and the start
of the next, its packets differ in length, and four of them let a reply meet a
packet at each stage; its bad lengths are one without data, one below a header, one
longer than the buffer and a negative one. The writer's streams are one that goes out in two writes, one
that just fits with its header, one that is accepted and does not fit, and one that
is refused. A terminal's second and
third connection are what reconnecting means; its last packet is longer than the buffer, and
`IntLimit` the smallest above it, since ret counts down to its negative. Four pushes fill both queues and
exchange them twice. Two clients wait for one accept thread, two workers are the most
that `MaxThreads` allows, and both close. Three works on up to two threads put two works on one
list, one of which is removed while the other is added, by two threads that can meet in
push_back. Four nodes are an element with a child between two siblings; five tokens
are an element with an attribute, a text and its end tag, or two levels; the nine
bytes are those that EncodeString, GetEntity and the blanks treat apart, and one that is
like all others; four of them are a reference. `SeedLimit`, `MaxClients`, `MaxPackets`, `MaxReplies`,
`MaxOutside`, `MaxPushes`, `MaxConnects`, `MaxSends`, `MaxTokens`, `MaxSize`,
`MaxText`, `MaxFile` and the length of `PacketLengths` are bounds on what is unbounded and stand in the guards of the actions they limit.

Each property is checked to be one that a bug can break: the modules hold
mutants (`HasRoomOffByOne`, `LockNothing`, `HandlePartForgotten`, ...), each a wrong
version of one definition, and `PROJECT.json` says which property refutes which.

### Fairness

`SessionManager!FairSpec`: a thread that is inside a call goes on (weak fairness of
`Running(t)`). A thread that waits for the mutex is not promised it, since
`std::recursive_mutex` promises nothing; LockAlwaysFreed needs no such promise.
`IOCPServer!FairSpec`: the accept thread, once it has a client, and the workers go
on, and the system finishes an operation it can finish. No client has to send or
leave, WSAAccept does not have to return, the contents process and the task
threads do not have to do anything. PacketReader and PacketWriter: the system
finishes what it can finish, a SendPacket that has begun and the workers go on.
SessionMonitor: time passes, and the task thread, which waits for nothing but time,
goes on. Terminal: the terminal's thread goes on; connect may fail for ever.
ServerThreads: Run and every thread go on, and a thread that waits for the mutex gets it
if it is let go again and again (strong fairness of `LockMutex`; ClientsServed needs the
accept thread to come in between two workers, and whether Windows promises that is
the one assumption here that the code does not settle). WSAAccept returns when a client
waits, unless it has failed; no client has to come. Task: time passes, and all threads
and all calls of Add go on. Nobody has to add anything. XmlDocument has no fairness and
no liveness property.

### What the code does differently from its comments

- **The keepalive ends nothing** (`IOCPServer.cpp:150`): the error it produces is dropped
  by the worker. Where task threads are configured, SessionMonitor closes the session
  30 * 1000 seconds after it was created, as it does every session.
- **A packet that is too big is accepted** (`IOCPSession.cpp:69`): SetData compares the
  stream with the buffer and forgets the header. `overrun` in PacketWriter, met in
  write_packets with the stream of 5.
- **The monitor closes clients that react** (`SessionMonitor.cpp:28`): nothing calls
  UpdateHeartBeat, and the limit of 30 * 1000 is in seconds.

The models do what the code does in all three, and the properties are stated so that they
hold with them.

What three of the safety properties allow, and a reader might not expect:
WithinCapacity has a "+ 1", because `sessionCount_ > maxConnection_` admits
`SESSION_CAPACITY + 1` sessions (`SessionManager.cpp:41`). FreedOnceByClosers excepts the
accept thread, because deleting a session that is in the list already, as OnAccept
does when CreateIoCompletionPort fails, deletes it twice (`IOCPServer.cpp:108`).
ClosedTargetGone says that the client a close was called for is gone, not that no
other one is: the session is looked up by the pointer's value, and when it was freed
and its address given to the next client, that client is closed
(`SessionManager.cpp:59`).

Nothing in the repository says otherwise, but visible in the models:

- the accept thread ends for good when a client comes before SERVER_READY (`early`), or
  when one WSAAccept fails (`failed`: `!status == SERVER_STOP` compares a truth value); a refused
  client's socket is never closed;
- a terminal leaves a socket open on every reconnect, sends to the next connection before it
  has introduced itself if its status is still ready, and calls recv for ever when its
  peer closes in the middle of a packet, or sends one that is longer than rowData
  (`Spinning`); after a reset there it takes what it has for the packet, after as many
  failing calls as there are negative ints (`RecvError`);
- a work with a duration is never ticked, and a work that is added without task threads
  is dropped (`Expired`, `AddDropped`);
- the static SessionMonitor makes TaskManager, and with it the task threads, during
  static initialisation;
- a packet that comes in one receive behind the end of another is cleared by the
  RecvStandBy of the first (`ReceiveRest`), and nothing looks at the length a header says
  (`BadLength`);
- a lock's place can be missing while the lock is held (`ClearPlace`); the release build's
  branch of `Lock.cpp` names `lock_->mutex()`, which does not exist;
- a text of nothing but blanks is deleted by Parse, also one that a reference spells
  ("&#32;"), so that what an application sets so is gone after it was saved and loaded
  (`EndText`, `PrintedText`);
- a declaration with a broken attribute, or a comment that is not ended, ends the load
  without an error, and the rest of the file is silently not read (`CutLeaf`); text and
  end tags outside all elements are no errors either;
- an attribute with neither name nor value is taken for the end of the list by Next, so
  that Clone and Print lose it and those behind it (`Iterated` in XmlHeap);
- EncodeString passes what begins like a hexadecimal reference, and GetEntity reads from the
  semicolon back to the last 'x' or '#': "&#x41;" in a text is read back as "A". TextReadBack
  excepts such values.

## Proofs

`SessionManager_proofs` proves, from `ConstantsAssumption` alone (the threads are
distinct, the limits are natural numbers), for any number of threads and
addresses:

- `Invariance`: `IInv` holds in every state;
- `TypeCorrect`, `LockDiscipline`, `CountCorrect`, `CapacityBound`, `ListedUsable`,
  `IdsDistinct`, `FreedOnce`, `SocketsClosed`: the safety properties of session_safety
  and session_table;
- `TargetGone`: ClosedTargetGone, from a second invariant, `TargetInv`, that stands on
  `IInv`: a target that is still listed is at the address the closer holds, because
  ids are handed out once, and nobody is there when the call returns;
- `Refinement`: `Spec => ImplementsSessionTable`.

`SeedLimit` is a bound for TLC; as the theorems hold for every value of it they
hold for a seed that is never used up (the 64-bit `oid_t` is an integer here).

None of the properties is inductive: that the count is right after a `remove`
needs to know that the thread is between the remove and the decrement and that
no other thread is; that a `free` is the only one needs to know who else holds the
pointer. `IInv` adds five parts. *CallsInv*: which call a thread can be in at which
statement. *LockInv*: `depth` is the number of scopes the owner has open, and
nobody else has one. *ListInv*: whether the thread's session is in the list, statement
by statement; in particular not while it is being evicted, which is why the nested
CloseSession finds nothing. *CountInv*: how far the count is from the list's length.
*ObjectInv*: what is at the address of a session on its way in or out; a live
object that had an id and is not in the list is being evicted by somebody, so that
the accept thread, holding the lock, knows that a session with an id that it does
not find is freed already. One lemma per action shows that the action preserves
each part; the refinement then needs three steps (a new object, `push_back`,
`remove`), and the others leave the table alone.

`ThreadJobQueue_proofs` proves that front() never meets an empty queue and that the
read queue followed by the write queue is a FifoQueue: an exchange happens only
when the read queue is empty, when exchanging does not change their concatenation.
It assumes `ConstantsAssumption`.

`ServerThreads_proofs` has two invariants, because the lock and the registry have nothing to
do with each other. `LockInv`: *ScopesCounted*, the mutex counts its owner's scopes and
nobody else has any; *InsideHasScope*, a thread between the two halves of FileLock or
FileUnlock has a scope. PlaceIsHolders needs both: the place a thread clears, after it let go,
may be another's, but a place is set only inside. `RegistryInv` follows `main`: what is
started and not being inserted is in the map. From `ThreadsAssumption`, for any number of
threads and clients.

The module also has two theorems about what these threads run. `ClosesOnlyOld` is
OnlyOldClosed of SessionMonitor, the instance `Monitor`, for any limit and any number of
connections (its hypothesis is `Monitor!MonitorAssumption`). A close is decided by an age that was read when the tick began.
*SeenNotAhead*: who is still to be looked at is at least as old by now; *TodoNotNew*: nobody is
accepted into the copy, so that an old age cannot meet a new session.

`TicksFarApart` is about Task, the threads that run the works, as the instance
`Tasks`: more than `FreqSec` seconds pass between the return of a work's Tick and its next
one, for any number of works, threads and adders, and also after a push_back that lost
nodes. The invariant, *TimesAddUp*, is that what has passed and what is left to wait add
up to at least a period. What Task assumes of its constants, `Tasks!TaskAssumption`, is the
theorem's hypothesis.

`PacketWriter_proofs` proves, from `IoDataAssumption` and `WriterAssumption`, for every
size of header, buffer and stream and any number of workers, that the client receives
the bytes in order and once each (`RepliesStayIntact`) and that there is one write at a
time, inside the packet (`OneWrite`; `TypeCorrect` has the types alone). RepliesIntact alone is not
inductive: the bytes that a write takes are the right ones only if the buffer still
holds the packet and the write begins where the client's bytes end. `WriterInv` adds
both: *Holds*, the buffer is the packet that follows the first `base` bytes, and *Phase*,
the packet's one write is in one of five places (nowhere, in SendPacket, on the socket,
in the port, with a worker) and what the client has is `base + currentBytes_`, plus the
completion that OnSend has not counted yet. SendPacket breaks Phase when it comes
before the packet went; that is `event`, and WriterInv claims nothing about the buffer
from then on.

`IOCPServer_proofs` has a chain of invariants, from `ConstantsAssumption` (natural bounds, and
finitely many workers, without which reads could not be counted) and for any number of
connections, addresses, workers and packets. *ServerInv* is the types and the table: a member's
id was handed out and leads to its address. *FreshInv*: nobody has touched a connection
before the accept thread's first RecvStandBy on it. *ReadInv* counts the reads: one and one more
for each reply while the connection is up and its read buffer not garbled (OneReadPerReply, the
theorem `OneRead`), and on a connection without replies never two, and none once the session
is gone. From it follows
`OnlySharedDangle`: who has the completion of the one read finds the session alive, unless
a reply or a close from outside has been there. *OrderInv* follows a packet from its last part
in the port over the worker that handles it to PutPackage: every packet that was taken
has been passed on, was swallowed or is with a worker that passes it on, but for the newest,
which can still be in the port or with a worker in OnRecv (`PackagesNearlyInOrder`).

`Terminal_proofs` starts with lemmas about a stream of packets: where the packets of
`PacketLengths` begin (`Starts`), that they do not overlap (`PacketUnique`), which one a byte
is in (`PacketAtBoundary`). The recursion over the lengths is an induction over data; it is done
without an induction theorem, by the least number for which the claim fails (`LeastNumber`),
as later for the walks of XmlDocument. From `TerminalAssumption`: *StreamInv* ties the place in the
stream to the packages and what is gone, whichever connection they came through, and `got` to
the place until the connection is reset; *IntroInv*
ties what the peer has got to where ConnectProcess is. Hence `InOrder` (PackagesInOrder) and
`Introduced` (IntroducesItself).

`PacketReader_proofs` takes those lemmas from an instance of Terminal_proofs with the same
header and packets, and stands on `IoDataAssumption` and `ReaderAssumption`. *StreamInv* says
for some k that the packets up to k are out and that the connection is in one of three
places: *Between* two packets, with a packet *PartRead*, its header decoded and its rest
asked for, or with bytes *Received* that one worker, or the port, has the count of. The buffer
holds what packet k + 1 begins with. Each of the six events is what would leave these three
places, and the proof is that nothing else does. The lengths that headers may say are any
(`BadLengths` is a parameter): the event is the first header that says a bad one, and until
then no read goes past the buffer, whatever the receives and replies were. Hence `PacketsStayIntact` (PacketsIntact) and
`ReaderCorrect` (ReaderInv: no byte lost, no read past the buffer).

`XmlDocument_proofs` proves TreeLinked from `HeapAssumption` and `DocumentAssumption`, for any
number of nodes, files of any length and edits in any number. Each operator of XmlHeap is
first described by what it makes of the pointers of every node (`Spliced`, `Freed`, `Bypassed`,
`Made`, `Cloned`), and then shown to keep the links agreed (`SpliceKeeps`, `FreeKeeps`,
`RemoveKeeps`, `NewKeeps`, `CloneKeeps`, ...). That there is no ring is part of the invariant
because the others need it: a node that is removed takes its subtree along, and only
because its parent is not in that subtree is nobody left who points into it; a node that is
inserted must not be above the place where it goes, which holds because it is new, or a copy
all of whose nodes are new, also when a node is copied into itself. `DocInv` adds the stack: the
open nodes are made, are there once each, have a parent and are in no list (the set U of
`LinksConsistent`), so that the caller that links one of them, after whatever failure,
links a node that is loose; and only an element is open while a tag is read. `NoRing` says
that every set of nodes has one whose pointer leads out of it, and a subtree is the
smallest closed set, so that no induction is needed.

`DocumentImplementsForest` is the refinement: with the list of children that the pointers make
(`Children`) for its list and kind and name for its label, every step of XmlDocument is a step of
`XmlForest` or none. The bridge is `ListsAre`: the recursion along `next` has one result (`PathExists`,
`PathUnique`, both by NoRing, in the place of an induction), and if the links agree, it is the list
whose ends are first and last, whose neighbours are next and prev, and whose members are
the nodes with this parent. Then one lemma for each operator says what it makes of the
lists (`SpliceList`, `RemoveList`, `CloneList`...), and one for each kind of step that this is
Attach, InsertCopy, Delete or a stutter. That every node has a label of the forest is a
further invariant (`Named`).

`WalksMeetAllChildren` (WalksMeetAll) stands on the same list: `BackList` says that prev leads through it
backwards, `ForwardIn` that NextSibling comes from one child to the first behind it
that fits, and `WalkIs` that after i steps a walk is at the child with i fitting ones before
it, by the least number of steps for which it would not be.

`WhatWasReadIsThere` (NothingLost) follows a load: `Loading` says that what is printed of the heap so
far, with the end tags of the open elements behind it, is what was read, put as Print would write it
(`Tells` and `Reads`, relations between heaps and sequences of tokens in the place of the recursion of
Print). A text that has nothing but blanks so far is in the heap and not yet in the file
(`Heard`); that one is always the innermost node with nothing below it (*TextInv*), so that EndText can
free it alone. *LostInv* has the other half: without an error the parser lets go of the file
only at its end, at a cut leaf or at text, and the last two only outside all elements.

Not all proved invariants are listed by a run: LockMatchesScopes, ListedIdsDistinct, WriterInv,
those of IOCPServer, DocInv, TextInv, LoadedInv, Terminal's and PacketReader's `StreamInv` are proved only; the type invariants
of SessionManager and PacketReader are parts of `IInv` and `ReaderInv`, those of the other
modules with proofs are proved.

Only model-checked: SavedIsLoaded, which would need the file that Print wrote followed
through the document that was saved, gone by then, while another is made of it; all of
XmlText, which compares what recursion over texts computes; and all liveness (the
provers have neither fairness nor ENABLED).

## Not modelled, and why

The start-up from the configuration (`Server::Initialize`). Of tinyxml: attributes
as numbers (sscanf), the visitor and TiXmlPrinter, the strings of tinystr; the stream operators
are not compiled. Logger's formatting, Config, Clock's formatting, Util, diagnostics, the two
programs: no state that a property could be about. Shutdown: `_shutdown` is never set. RunCommand
and the console: the command table is filled in an `#if 0`. `~SessionManager`: runs
when the process ends, which it does not. The torn copy of a `std::list` that another
thread changes, and the contents of freed memory: undefined, the models stop at the
first use.

## Plan

In this order:

1. **IOCPSession**: PacketReader and PacketWriter composed into one connection, with
   the whole SendPacket as one operation and a client that may or may not wait for its
   reply; abstract specification: a sequence of packets each way. It takes the place of
   the two separate runs.
2. **ServerStartup** (`Server::Initialize`, `TerminalManager::Run`): which thread runs before which
   field is set, composed with Terminal.
3. A split of IOCPServer's HandleZero between the log line and CloseSession.
