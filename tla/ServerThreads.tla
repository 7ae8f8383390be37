---------------------------- MODULE ServerThreads ----------------------------
(***************************************************************************)
(* The threads of IOCPServer and what they share: IOCPServer::Run starts   *)
(* the accept thread and the workers (MAKE_THREAD, Thread.cpp) and makes   *)
(* the server ready; every thread looks itself up in ThreadManager's map   *)
(* when it takes a lock (SAFE_LOCK, Lock.cpp) or logs (Logger.cpp).        *)
(*                                                                         *)
(* A std::thread runs before its Thread object is put into the map, and    *)
(* nothing locks the map.  A look-up during an insertion finds the thread  *)
(* or does not, or goes down.  lock_ of a Thread is not initialised and    *)
(* SetLock is never called: it is null or a pointer to nowhere, which the  *)
(* deadlock detector follows.  ExitProcess and a crash are "down".         *)
(*                                                                         *)
(* The one lock here is SessionManager's, a recursive mutex, with the      *)
(* place where it was taken; a place is named by its thread.               *)
(***************************************************************************)
EXTENDS Integers, Sequences, FiniteSets

CONSTANTS
  Accept,     \* the accept thread
  Workers,    \* the workers that the configuration asks for
  Clients,    \* connections
  NoThread, NoClient,
  MaxThreads  \* MAX_IOCP_THREAD

Threads == Workers \cup {Accept}

ASSUME ThreadsAssumption ==
  /\ Accept \notin Workers /\ NoThread \notin Threads /\ NoClient \notin Clients
  /\ MaxThreads \in Nat

VARIABLES
  status,     \* status_ of the server
  main,       \* what Run does next
  toStart,    \* the threads it has still to make
  started,    \* threads whose std::thread runs
  inserting,  \* the thread whose Thread object is being inserted
  threadPool, \* threads in ThreadManager's map
  pc,         \* per thread: its statement
  nest,       \* per thread: its LockSafeScopes
  owner,      \* the mutex
  depth,
  place,      \* lockingFile_ and lockingLine_
  clients,    \* per connection: "none", "waiting", "accepted", "listed",
              \* "closed", "refused"
  held,       \* per thread: the connection it is at work on
  early,      \* history: the accept thread came to its test before SERVER_READY
  failed,     \* history: WSAAccept failed
  down

mainVars == <<status, main, toStart>>
poolVars == <<inserting, threadPool>>
lockVars == <<owner, depth, place>>
serveVars == <<clients, held>>
vars == <<mainVars, started, poolVars, pc, nest, lockVars, serveVars, early, failed, down>>

Init ==
  /\ status = "initialize" /\ main = "limit" /\ toStart = Threads
  /\ started = {} /\ inserting = NoThread /\ threadPool = {}
  /\ pc = [t \in Threads |-> "idle"] /\ nest = [t \in Threads |-> 0]
  /\ owner = NoThread /\ depth = 0 /\ place = NoThread
  /\ clients = [c \in Clients |-> "none"] /\ held = [t \in Threads |-> NoClient]
  /\ early = FALSE /\ failed = FALSE /\ down = FALSE

Goto(t, label) == pc' = [pc EXCEPT ![t] = label]
At(t, label) == ~down /\ t \in started /\ pc[t] = label

-----------------------------------------------------------------------------
(* IOCPServer::Run.                                                        *)

RunVars == <<pc, nest, lockVars, serveVars, early, failed>>

\* The worker limit, the completion port and CreateListenSocket.
Listen ==
  /\ main = "limit" /\ ~down
  /\ \/ Cardinality(Workers) <= MaxThreads /\ main' = "start" /\ UNCHANGED down
     \/ down' = TRUE /\ UNCHANGED main
  /\ UNCHANGED <<status, toStart, started, poolVars, RunVars>>

\* new thread_t: the accept thread first.
StartThread(t) ==
  /\ main = "start" /\ ~down /\ t \in toStart
  /\ Accept \in toStart => t = Accept
  /\ started' = started \cup {t} /\ toStart' = toStart \ {t}
  /\ main' = "put" /\ inserting' = t
  /\ UNCHANGED <<status, threadPool, down, RunVars>>

\* ThreadManager::Put.
Put ==
  /\ main = "put" /\ ~down
  /\ threadPool' = threadPool \cup {inserting} /\ inserting' = NoThread
  /\ main' = IF toStart = {} THEN "ready" ELSE "start"
  /\ UNCHANGED <<status, toStart, started, down, RunVars>>

\* Mutant: ready before the threads are made.
ReadyAtOnce ==
  /\ main \in {"start", "ready"} /\ status # "ready" /\ ~down
  /\ status' = "ready"
  /\ main' = IF main = "ready" THEN "console" ELSE main
  /\ UNCHANGED <<toStart, started, poolVars, down, RunVars>>

Ready ==
  /\ main = "ready" /\ ~down
  /\ status' = "ready" /\ main' = "console"
  /\ UNCHANGED <<toStart, started, poolVars, down, RunVars>>

-----------------------------------------------------------------------------
(* ThreadManager::At and LockSafeScope.                                    *)

Found(t) == IF inserting = NoThread THEN {(t \in threadPool)} ELSE BOOLEAN

\* A look-up that ends in a crash.
LookUpRaced(t) ==
  /\ At(t, "search") \/ At(t, "log")
  /\ inserting # NoThread
  /\ down' = TRUE
  /\ UNCHANGED <<mainVars, started, poolVars, pc, nest, lockVars, serveVars, early, failed>>

\* LogWriter::Log, for the prefix.
Log(t) ==
  /\ At(t, "log")
  /\ Goto(t, "logged")
  /\ UNCHANGED <<mainVars, started, poolVars, nest, lockVars, serveVars, early, failed, down>>

\* SearchLockCycle goes from the thread to the lock it waits for, and never gets further:
\* lock_ is null, or leads nowhere.
SearchLockCycle(t) ==
  /\ At(t, "search")
  /\ \/ Goto(t, "lock") /\ UNCHANGED down
     \/ TRUE \in Found(t) /\ down' = TRUE /\ UNCHANGED pc
  /\ UNCHANGED <<mainVars, started, poolVars, nest, lockVars, serveVars, early, failed>>

LockUnchanged ==
  UNCHANGED <<mainVars, started, poolVars, serveVars, early, failed, down>>

\* Mutant: the place is set before the mutex is there.
LockMutexPlaceFirst(t) ==
  /\ At(t, "lock")
  /\ place' = t
  /\ IF owner \in {NoThread, t}
     THEN /\ owner' = t /\ depth' = depth + 1
          /\ nest' = [nest EXCEPT ![t] = @ + 1] /\ Goto(t, "place")
     ELSE UNCHANGED <<owner, depth, nest, pc>>
  /\ LockUnchanged

\* FileLock: mutex_.lock().
LockMutex(t) ==
  /\ At(t, "lock")
  /\ owner \in {NoThread, t}
  /\ owner' = t /\ depth' = depth + 1
  /\ nest' = [nest EXCEPT ![t] = @ + 1]
  /\ Goto(t, "place") /\ UNCHANGED place /\ LockUnchanged

\* ... and the place and the thread.
SetPlace(t) ==
  /\ At(t, "place")
  /\ place' = t
  /\ Goto(t, "in") /\ UNCHANGED <<owner, depth, nest>> /\ LockUnchanged

\* FileUnlock: mutex_.unlock().
Unlock(t) ==
  /\ At(t, "unlock")
  /\ depth' = depth - 1 /\ owner' = IF depth = 1 THEN NoThread ELSE owner
  /\ nest' = [nest EXCEPT ![t] = @ - 1]
  /\ Goto(t, "clear") /\ UNCHANGED place /\ LockUnchanged

\* ... and only then lockingFile_.clear(), which the scope around this one goes on after.
ClearPlace(t) ==
  /\ At(t, "clear")
  /\ place' = NoThread
  /\ Goto(t, IF nest[t] > 0 THEN "unlock" ELSE "left")
  /\ UNCHANGED <<owner, depth, nest>> /\ LockUnchanged

-----------------------------------------------------------------------------
(* AcceptThread, WorkerThread and the clients.                             *)

LoopUnchanged ==
  UNCHANGED <<mainVars, started, poolVars, nest, lockVars, down>>

\* The backlog of the listening socket.
Connect(c) ==
  /\ main # "limit" /\ ~down /\ clients[c] = "none"
  /\ clients' = [clients EXCEPT ![c] = "waiting"]
  /\ UNCHANGED <<held, pc, early, failed>> /\ LoopUnchanged

\* WSAAccept and OnAccept, up to AddSession; SetSocketOpt may have failed before it.
AcceptClient(c) ==
  /\ At(Accept, "idle") /\ clients[c] = "waiting"
  /\ \/ clients' = [clients EXCEPT ![c] = "accepted"] /\ held' = [held EXCEPT ![Accept] = c]
     \/ clients' = [clients EXCEPT ![c] = "refused"] /\ UNCHANGED held
  /\ Goto(Accept, "search")
  /\ UNCHANGED <<early, failed>> /\ LoopUnchanged

AcceptFails ==
  /\ At(Accept, "idle")
  /\ failed' = TRUE /\ Goto(Accept, "ended")
  /\ UNCHANGED <<serveVars, early>> /\ LoopUnchanged

\* In AddSession.
AddSession ==
  /\ At(Accept, "in") /\ held[Accept] # NoClient /\ clients[held[Accept]] = "accepted"
  /\ \E answer \in {"listed", "refused"} :
       clients' = [clients EXCEPT ![held[Accept]] = answer]
  /\ Goto(Accept, "unlock")
  /\ UNCHANGED <<held, early, failed>> /\ LoopUnchanged

\* A session that is refused is deleted, and its destructor takes the lock.  So does that
\* of one that was listed, when CreateIoCompletionPort fails: it is closed as by a worker.
AddSessionLeft ==
  /\ At(Accept, "left") /\ held[Accept] # NoClient
  /\ \/ clients[held[Accept]] = "refused" /\ Goto(Accept, "search")
        /\ held' = [held EXCEPT ![Accept] = NoClient]
     \/ clients[held[Accept]] = "listed" /\ Goto(Accept, "log")
        /\ held' = [held EXCEPT ![Accept] = NoClient]
     \/ clients[held[Accept]] = "listed" /\ Goto(Accept, "search")
        /\ UNCHANGED held
  /\ UNCHANGED <<clients, early, failed>> /\ LoopUnchanged

\* Mutant: the accept thread serves one client.
CheckOnce ==
  /\ At(Accept, "logged") \/ (At(Accept, "left") /\ held[Accept] = NoClient)
  /\ Goto(Accept, "ended") /\ early' = (early \/ status # "ready")
  /\ UNCHANGED <<serveVars, failed>> /\ LoopUnchanged

\* The end of the loop's body.
Check ==
  /\ At(Accept, "logged") \/ (At(Accept, "left") /\ held[Accept] = NoClient)
  /\ IF status = "ready"
     THEN Goto(Accept, "idle") /\ UNCHANGED early
     ELSE Goto(Accept, "ended") /\ early' = TRUE
  /\ UNCHANGED <<serveVars, failed>> /\ LoopUnchanged

\* A completion with no data, on a session that is attached to the port: the client is
\* gone, which is logged.
ClientGone(w, c) ==
  /\ At(w, "idle") /\ w \in Workers /\ clients[c] = "listed" /\ held[Accept] # c
  /\ held' = [held EXCEPT ![w] = c]
  /\ Goto(w, "log")
  /\ UNCHANGED <<clients, early, failed>> /\ LoopUnchanged

CallCloseSession(w) ==
  /\ At(w, "logged") /\ w \in Workers
  /\ Goto(w, "search")
  /\ UNCHANGED <<serveVars, early, failed>> /\ LoopUnchanged

\* CloseSession finds the session; to delete it calls CloseSession again.  When it was
\* called by the destructor, in the accept thread, the session is freed twice, and the
\* process may go down.
CloseListed(t) ==
  /\ At(t, "in") /\ held[t] # NoClient /\ clients[held[t]] = "listed"
  /\ clients' = [clients EXCEPT ![held[t]] = "closed"]
  /\ held' = [held EXCEPT ![t] = NoClient]
  /\ Goto(t, "search")
  /\ down' \in {FALSE, t = Accept}
  /\ UNCHANGED <<mainVars, started, poolVars, nest, lockVars, early, failed>>

CloseNothing(t) ==
  /\ At(t, "in")
  /\ IF held[t] = NoClient THEN TRUE ELSE t \in Workers /\ clients[held[t]] # "listed"
  /\ Goto(t, "unlock")
  /\ UNCHANGED <<serveVars, early, failed>> /\ LoopUnchanged

WorkerDone(w) ==
  /\ At(w, "left") /\ w \in Workers
  /\ Goto(w, "idle") /\ held' = [held EXCEPT ![w] = NoClient]
  /\ UNCHANGED <<clients, early, failed>> /\ LoopUnchanged

Run == Listen \/ (\E t \in Threads : StartThread(t)) \/ Put \/ Ready

Scope(t) ==
  Log(t) \/ SearchLockCycle(t) \/ LockMutex(t) \/ SetPlace(t) \/ Unlock(t) \/ ClearPlace(t)

Serve(t) ==
  \/ t = Accept /\ ((\E c \in Clients : AcceptClient(c)) \/ AddSession \/ AddSessionLeft \/ Check)
  \/ CallCloseSession(t) \/ CloseListed(t) \/ CloseNothing(t) \/ WorkerDone(t)

Next ==
  \/ Listen
  \/ \E t \in Threads : StartThread(t)
  \/ Put
  \/ Ready
  \/ \E t \in Threads : LookUpRaced(t)
  \/ \E t \in Threads : Log(t)
  \/ \E t \in Threads : SearchLockCycle(t)
  \/ \E t \in Threads : LockMutex(t)
  \/ \E t \in Threads : SetPlace(t)
  \/ \E t \in Threads : Unlock(t)
  \/ \E t \in Threads : ClearPlace(t)
  \/ \E c \in Clients : Connect(c)
  \/ \E c \in Clients : AcceptClient(c)
  \/ AcceptFails
  \/ AddSession
  \/ AddSessionLeft
  \/ Check
  \/ \E w \in Workers, c \in Clients : ClientGone(w, c)
  \/ \E w \in Workers : CallCloseSession(w)
  \/ \E t \in Threads : CloseListed(t)
  \/ \E t \in Threads : CloseNothing(t)
  \/ \E w \in Workers : WorkerDone(w)

Spec == Init /\ [][Next]_vars

\* Every thread goes on, and a mutex that is let go again and again is got in the end.
FairSpec ==
  /\ Spec /\ WF_vars(Run)
  /\ \A t \in Threads : WF_vars(Scope(t) \/ Serve(t)) /\ SF_vars(LockMutex(t))

-----------------------------------------------------------------------------
(* Properties.                                                             *)

Holding(t) == nest[t] > 0 /\ pc[t] \notin {"place", "clear"}

\* The place that a held lock names is its holder's, or none: a thread that clears the
\* place after it let go of the lock takes away the next one's, but never leaves its own.
PlaceIsHolders ==
  \A t \in Threads : Holding(t) => owner = t /\ place \in {t, NoThread}

\* Once the server is ready, every thread finds itself in the map, and no look-up meets
\* an insertion: the races over the map are those of the start.
RegistrySettledWhenReady == status = "ready" => \A t \in Threads : Found(t) = {TRUE}

\* Clients are served for ever, unless the process is down or the accept thread has ended:
\* because a client came before the server was ready, or because WSAAccept failed once.
ClientsServed ==
  \A c \in Clients : clients[c] = "waiting" ~> clients[c] # "waiting" \/ early \/ failed \/ down
=============================================================================
