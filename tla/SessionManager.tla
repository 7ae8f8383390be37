--------------------------- MODULE SessionManager ---------------------------
(***************************************************************************)
(* SessionManager.cpp: the list of client sessions, its count and its      *)
(* recursive lock, together with the life of the Session objects it        *)
(* deletes.  The accept thread runs IOCPServer::OnAccept; every other      *)
(* thread (IO worker, task thread, terminal thread) gets hold of a raw     *)
(* Session pointer and calls CloseSession or ForceCloseSession with it.    *)
(*                                                                         *)
(* Each statement that reads or writes the list, the count, the lock or a  *)
(* Session object is a step.  "delete session" runs ~Session, which calls  *)
(* CloseSession on the session again: that nested call is taken by the     *)
(* same actions as the outer one, and `nested' tells them apart.           *)
(*                                                                         *)
(* sessionList_ is a set: list::remove erases every equal element, find    *)
(* asks for membership, and nothing depends on the order.  A duplicate     *)
(* push_back would show as sessionCount # Cardinality(sessionList).        *)
(***************************************************************************)
EXTENDS Integers, FiniteSets

CONSTANTS
  Sessions,       \* the addresses the allocator gives to Session objects
  Closers,        \* the threads that call CloseSession or ForceCloseSession
  AcceptThread,   \* the thread that runs IOCPServer::AcceptThread
  MaxConnection,  \* maxConnection_
  SeedLimit,      \* bound: the last session id that is handed out
  NoThread, NullSession

Threads == Closers \cup {AcceptThread}

ASSUME ConstantsAssumption ==
  /\ AcceptThread \notin Closers
  /\ NoThread \notin Threads
  /\ NullSession \notin Sessions
  /\ MaxConnection \in Nat
  /\ SeedLimit \in Nat

VARIABLES
  sessionList,   \* sessionList_
  sessionCount,  \* sessionCount_
  sessionSeed,   \* sessionSeed_
  owner, depth,  \* lock_: the thread that holds it and how many times
  heap,          \* whether the memory at an address is a live Session
  sock,          \* socketData_.socket_ of the Session at an address
  id,            \* id_ of the Session at an address, 0 before SetId
  pc,            \* the statement a thread executes next
  call,          \* the outermost call a thread is in
  arg,           \* the Session pointer a thread works with
  nested,        \* the thread is in ~Session of the session it is closing
  meant,         \* history: the id arg had when the thread got hold of it
  doubleFreed,   \* history: frees of memory that was free already
  leaked         \* history: ids of sessions freed with their socket open

lockVars    == <<owner, depth>>
listVars    == <<sessionList, sessionCount, sessionSeed>>
objectVars  == <<heap, sock, id>>
threadVars  == <<pc, call, arg, nested, meant>>
historyVars == <<doubleFreed, leaked>>
vars == <<lockVars, listVars, objectVars, threadVars, historyVars>>

Init ==
  /\ sessionList = {} /\ sessionCount = 0 /\ sessionSeed = 1
  /\ owner = NoThread /\ depth = 0
  /\ heap = [s \in Sessions |-> "free"]
  /\ sock = [s \in Sessions |-> "none"]
  /\ id   = [s \in Sessions |-> 0]
  /\ pc   = [t \in Threads |-> "idle"]
  /\ call = [t \in Threads |-> "none"]
  /\ arg  = [t \in Threads |-> NullSession]
  /\ nested = [t \in Threads |-> FALSE]
  /\ meant  = [t \in Threads |-> 0]
  /\ doubleFreed = {} /\ leaked = {}

-----------------------------------------------------------------------------
(* SAFE_LOCK(lock_) and the end of its scope, on a recursive mutex.        *)

Goto(t, label) == pc' = [pc EXCEPT ![t] = label]

\* Mutants: no lock at all, and a mutex that its holder cannot take again.
LockNothing(t) ==
  /\ owner' = t
  /\ depth' = depth + 1

LockNonRecursive(t) ==
  /\ owner = NoThread
  /\ owner' = t
  /\ depth' = depth + 1

Lock(t) ==
  /\ owner \in {NoThread, t}
  /\ owner' = t
  /\ depth' = depth + 1

Unlock(t) ==
  /\ depth' = depth - 1
  /\ owner' = IF depth = 1 THEN NoThread ELSE owner

LockAndGoto(t, from, to) ==
  /\ pc[t] = from
  /\ Lock(t)
  /\ Goto(t, to)
  /\ UNCHANGED <<listVars, objectVars, call, arg, nested, meant, historyVars>>

-----------------------------------------------------------------------------
(* IOCPServer::OnAccept, on the accept thread.                             *)

\* Mutant: ~Session does not take the session out of the list.
BeginDeleteNoClose(t) ==
  /\ call' = [call EXCEPT ![t] = "delete"]
  /\ Goto(t, "delete_free")

\* SAFE_DELETE(session) by the accept thread: ~Session, then the memory.
BeginDelete(t) ==
  /\ call' = [call EXCEPT ![t] = "delete"]
  /\ Goto(t, "close_lock")

\* new IOCPSession() and Session::OnAccept, which stores the accepted socket
\* and fails when SetSocketOpt does.
AcceptSession(t, s) ==
  /\ pc[t] = "idle" /\ t = AcceptThread
  /\ heap[s] = "free"
  /\ sessionSeed <= SeedLimit
  /\ heap' = [heap EXCEPT ![s] = "live"]
  /\ sock' = [sock EXCEPT ![s] = "open"]
  /\ id'   = [id EXCEPT ![s] = 0]
  /\ arg'  = [arg EXCEPT ![t] = s]
  /\ \/ Goto(t, "add_lock") /\ call' = [call EXCEPT ![t] = "add"]
     \/ BeginDelete(t)
  /\ UNCHANGED <<lockVars, listVars, nested, meant, historyVars>>

AddSessionLock(t) == LockAndGoto(t, "add_lock", "add_check")

\* Mutant: one session too many.
HasRoomOffByOne == ~(sessionCount > MaxConnection + 1)

HasRoom == ~(sessionCount > MaxConnection)

AddSessionCheck(t) ==
  /\ pc[t] = "add_check"
  /\ IF arg[t] \notin sessionList /\ HasRoom
     THEN Goto(t, "add_push") /\ UNCHANGED call
     ELSE Goto(t, "add_unlock") /\ call' = [call EXCEPT ![t] = "refused"]
  /\ UNCHANGED <<lockVars, listVars, objectVars, arg, nested, meant, historyVars>>

\* Mutant: the id is taken from the count, which goes down again.
AddSessionPushCountAsId(t) ==
  /\ pc[t] = "add_push"
  /\ id' = [id EXCEPT ![arg[t]] = sessionCount + 1]
  /\ sessionSeed' = sessionSeed + 1
  /\ sessionList' = sessionList \cup {arg[t]}
  /\ Goto(t, "add_count")
  /\ UNCHANGED <<lockVars, sessionCount, heap, sock, call, arg, nested, meant, historyVars>>

\* SetId(CreateSessionId()) and push_back.
AddSessionPush(t) ==
  /\ pc[t] = "add_push"
  /\ id' = [id EXCEPT ![arg[t]] = sessionSeed]
  /\ sessionSeed' = sessionSeed + 1
  /\ sessionList' = sessionList \cup {arg[t]}
  /\ Goto(t, "add_count")
  /\ UNCHANGED <<lockVars, sessionCount, heap, sock, call, arg, nested, meant, historyVars>>

AddSessionCount(t) ==
  /\ pc[t] = "add_count"
  /\ sessionCount' = sessionCount + 1
  /\ Goto(t, "add_unlock")
  /\ UNCHANGED <<lockVars, sessionList, sessionSeed, objectVars, call, arg, nested, meant, historyVars>>

\* OnAccept deletes the session when AddSession returned false.
AddSessionUnlock(t) ==
  /\ pc[t] = "add_unlock"
  /\ Unlock(t)
  /\ IF call[t] = "refused" THEN BeginDelete(t)
                            ELSE Goto(t, "attach") /\ UNCHANGED call
  /\ UNCHANGED <<listVars, objectVars, arg, nested, meant, historyVars>>

\* CreateIoCompletionPort for the new socket; when it fails the session, which
\* is in the list by now, is deleted.
Attach(t) ==
  /\ pc[t] = "attach"
  /\ \/ Goto(t, "idle") /\ call' = [call EXCEPT ![t] = "none"]
     \/ BeginDelete(t)
  /\ UNCHANGED <<lockVars, listVars, objectVars, arg, nested, meant, historyVars>>

-----------------------------------------------------------------------------
(* How the other threads come by a Session pointer.                        *)

\* An unlocked read of the list (GetSessionList) or the completion key of a
\* session in the list: the thread keeps the pointer across other steps.
TakePointer(t, s) ==
  /\ pc[t] = "idle" /\ t \in Closers
  /\ s \in sessionList
  /\ arg' = [arg EXCEPT ![t] = s]
  /\ meant' = [meant EXCEPT ![t] = id[s]]
  /\ Goto(t, "holding")
  /\ UNCHANGED <<lockVars, listVars, objectVars, call, nested, historyVars>>

GetSessionLock(t) == t \in Closers /\ LockAndGoto(t, "idle", "get_search")

\* GetSession(key): the pointer of the listed session with that id, or null.
GetSessionSearch(t, key) ==
  /\ pc[t] = "get_search"
  /\ \/ \E s \in sessionList :
          /\ id[s] = key
          /\ arg' = [arg EXCEPT ![t] = s]
          /\ meant' = [meant EXCEPT ![t] = key]
     \/ /\ \A s \in sessionList : id[s] # key
        /\ arg' = [arg EXCEPT ![t] = NullSession]
        /\ meant' = [meant EXCEPT ![t] = 0]
  /\ Goto(t, "get_unlock")
  /\ UNCHANGED <<lockVars, listVars, objectVars, call, nested, historyVars>>

GetSessionUnlock(t) ==
  /\ pc[t] = "get_unlock"
  /\ Unlock(t)
  /\ Goto(t, "holding")
  /\ UNCHANGED <<listVars, objectVars, call, arg, nested, meant, historyVars>>

-----------------------------------------------------------------------------
(* CloseSession, ForceCloseSession and ~Session, on any thread.            *)

\* The call, from Session::OnClose(false) or a worker's zero-byte completion.
CallCloseSession(t) ==
  /\ pc[t] = "holding"
  /\ call' = [call EXCEPT ![t] = "close"]
  /\ Goto(t, "close_lock")
  /\ UNCHANGED <<lockVars, listVars, objectVars, arg, nested, meant, historyVars>>

\* The call, from Session::OnClose(true).
CallForceCloseSession(t) ==
  /\ pc[t] = "holding"
  /\ call' = [call EXCEPT ![t] = "force"]
  /\ Goto(t, "force_lock")
  /\ UNCHANGED <<lockVars, listVars, objectVars, arg, nested, meant, historyVars>>

ForceCloseLock(t) == LockAndGoto(t, "force_lock", "force_linger")

\* Mutants: the early return forgets the lock, and the session is taken out of
\* the list before CloseSession looks for it.
ForceCloseLingerKeepsLock(t) ==
  /\ pc[t] = "force_linger"
  /\ Goto(t, IF arg[t] = NullSession THEN "idle" ELSE "close_lock")
  /\ call' = [call EXCEPT ![t] = IF arg[t] = NullSession THEN "none" ELSE @]
  /\ UNCHANGED <<lockVars, listVars, objectVars, arg, nested, meant, historyVars>>

ForceCloseLingerRemoves(t) ==
  /\ pc[t] = "force_linger"
  /\ sessionList' = sessionList \ {arg[t]}
  /\ Goto(t, IF arg[t] = NullSession THEN "force_unlock" ELSE "close_lock")
  /\ UNCHANGED <<lockVars, sessionCount, sessionSeed, objectVars, call, arg, nested, meant, historyVars>>

\* Mutant: the test for null the wrong way round.
ForceCloseLingerInverted(t) ==
  /\ pc[t] = "force_linger"
  /\ Goto(t, IF arg[t] # NullSession THEN "force_unlock" ELSE "close_lock")
  /\ UNCHANGED <<lockVars, listVars, objectVars, call, arg, nested, meant, historyVars>>

\* A null session returns at once; any other gets SO_LINGER and CloseSession.
ForceCloseLinger(t) ==
  /\ pc[t] = "force_linger"
  /\ Goto(t, IF arg[t] = NullSession THEN "force_unlock" ELSE "close_lock")
  /\ UNCHANGED <<lockVars, listVars, objectVars, call, arg, nested, meant, historyVars>>

ForceCloseUnlock(t) ==
  /\ pc[t] = "force_unlock"
  /\ Unlock(t)
  /\ Goto(t, "idle")
  /\ call' = [call EXCEPT ![t] = "none"]
  /\ UNCHANGED <<listVars, objectVars, arg, nested, meant, historyVars>>

CloseSessionLock(t) == LockAndGoto(t, "close_lock", "close_find")

\* Mutant: the result of find is not looked at.
CloseSessionFindUnchecked(t) ==
  /\ pc[t] = "close_find"
  /\ Goto(t, IF arg[t] # NullSession THEN "close_socket" ELSE "close_unlock")
  /\ UNCHANGED <<lockVars, listVars, objectVars, call, arg, nested, meant, historyVars>>

\* A null pointer and one that is not in the list leave by the same exit.
CloseSessionFind(t) ==
  /\ pc[t] = "close_find"
  /\ Goto(t, IF arg[t] \in sessionList THEN "close_socket" ELSE "close_unlock")
  /\ UNCHANGED <<lockVars, listVars, objectVars, call, arg, nested, meant, historyVars>>

CloseSessionSocket(t) ==
  /\ pc[t] = "close_socket"
  /\ sock' = [sock EXCEPT ![arg[t]] = "closed"]
  /\ Goto(t, "close_remove")
  /\ UNCHANGED <<lockVars, listVars, heap, id, call, arg, nested, meant, historyVars>>

CloseSessionRemove(t) ==
  /\ pc[t] = "close_remove"
  /\ sessionList' = sessionList \ {arg[t]}
  /\ Goto(t, "close_count")
  /\ UNCHANGED <<lockVars, sessionCount, sessionSeed, objectVars, call, arg, nested, meant, historyVars>>

CloseSessionCount(t) ==
  /\ pc[t] = "close_count"
  /\ sessionCount' = sessionCount - 1
  /\ Goto(t, "close_delete")
  /\ UNCHANGED <<lockVars, sessionList, sessionSeed, objectVars, call, arg, nested, meant, historyVars>>

\* SAFE_DELETE(delSession): ~Session -> OnClose(false) -> CloseSession(this).
CloseSessionDelete(t) ==
  /\ pc[t] = "close_delete"
  /\ nested' = [nested EXCEPT ![t] = TRUE]
  /\ Goto(t, "close_lock")
  /\ UNCHANGED <<lockVars, listVars, objectVars, call, arg, meant, historyVars>>

\* Where control goes when a CloseSession returns.
AfterClose(t) ==
  IF nested[t] THEN "close_free"
  ELSE CASE call[t] = "force"  -> "force_unlock"
         [] call[t] = "delete" -> "delete_free"
         [] OTHER              -> "idle"

CloseSessionUnlock(t) ==
  /\ pc[t] = "close_unlock"
  /\ Unlock(t)
  /\ Goto(t, AfterClose(t))
  /\ nested' = [nested EXCEPT ![t] = FALSE]
  /\ call' = [call EXCEPT ![t] = IF AfterClose(t) = "idle" THEN "none" ELSE @]
  /\ UNCHANGED <<listVars, objectVars, arg, meant, historyVars>>

\* operator delete on the memory at s: nothing in the code checks that it is
\* still allocated.
Free(t, s) ==
  /\ heap' = [heap EXCEPT ![s] = "free"]
  /\ doubleFreed' = IF heap[s] = "free"
                    THEN doubleFreed \cup {[by |-> t, id |-> id[s]]}
                    ELSE doubleFreed
  /\ leaked' = IF heap[s] = "live" /\ sock[s] = "open"
               THEN leaked \cup {id[s]} ELSE leaked
  /\ UNCHANGED <<sock, id>>

\* The end of SAFE_DELETE(delSession) inside CloseSession.
CloseSessionFree(t) ==
  /\ pc[t] = "close_free"
  /\ Free(t, arg[t])
  /\ Goto(t, "close_unlock")
  /\ UNCHANGED <<lockVars, listVars, call, arg, nested, meant>>

\* The end of SAFE_DELETE(session) in OnAccept.
DeleteFree(t) ==
  /\ pc[t] = "delete_free"
  /\ Free(t, arg[t])
  /\ Goto(t, "idle")
  /\ call' = [call EXCEPT ![t] = "none"]
  /\ UNCHANGED <<lockVars, listVars, arg, nested, meant>>

-----------------------------------------------------------------------------
AddSession(t) ==
  \/ AddSessionLock(t) \/ AddSessionCheck(t) \/ AddSessionPush(t)
  \/ AddSessionCount(t) \/ AddSessionUnlock(t)

CloseSession(t) ==
  \/ CloseSessionLock(t) \/ CloseSessionFind(t) \/ CloseSessionSocket(t)
  \/ CloseSessionRemove(t) \/ CloseSessionCount(t) \/ CloseSessionDelete(t)
  \/ CloseSessionFree(t) \/ CloseSessionUnlock(t)

ForceCloseSession(t) ==
  ForceCloseLock(t) \/ ForceCloseLinger(t) \/ ForceCloseUnlock(t)

GetSession(t) ==
  (\E key \in 1..SeedLimit : GetSessionSearch(t, key)) \/ GetSessionUnlock(t)

\* A thread inside a call: the steps it cannot but take.
Running(t) ==
  AddSession(t) \/ Attach(t) \/ DeleteFree(t) \/ CloseSession(t)
  \/ ForceCloseSession(t) \/ GetSession(t)

\* A thread enters a call, or comes by a pointer.
Calling(t) ==
  \/ \E s \in Sessions : AcceptSession(t, s) \/ TakePointer(t, s)
  \/ GetSessionLock(t) \/ CallCloseSession(t) \/ CallForceCloseSession(t)

Next == \E t \in Threads : Running(t) \/ Calling(t)

Spec == Init /\ [][Next]_vars

\* A thread that is inside a call is scheduled again and again.  No fairness is
\* assumed of who gets the mutex: std::recursive_mutex promises none.
FairSpec == Spec /\ \A t \in Threads : WF_vars(Running(t))

-----------------------------------------------------------------------------
(* Properties.                                                             *)

AddLabels   == {"add_check", "add_push", "add_count", "add_unlock"}
GetLabels   == {"get_search", "get_unlock"}
ForceLabels == {"force_linger", "force_unlock"}
CloseLabels == {"close_find", "close_socket", "close_remove", "close_count",
                "close_delete", "close_free", "close_unlock"}
FreeLabels  == {"idle", "add_lock", "attach", "holding", "force_lock",
                "close_lock", "delete_free"}
LockedLabels == AddLabels \cup GetLabels \cup ForceLabels \cup CloseLabels
Labels       == LockedLabels \cup FreeLabels

Calls == {"none", "add", "refused", "close", "force", "delete"}

\* Every variable keeps its type; sessionCount_ in particular never goes
\* negative, whatever calls of CloseSession meet the same pointer.
TypeOK ==
  /\ sessionList \subseteq Sessions
  /\ sessionCount \in Nat
  /\ sessionSeed \in Nat \ {0}
  /\ owner \in Threads \cup {NoThread}
  /\ depth \in Nat
  /\ heap \in [Sessions -> {"free", "live"}]
  /\ sock \in [Sessions -> {"none", "open", "closed"}]
  /\ id \in [Sessions -> Nat]
  /\ pc \in [Threads -> Labels]
  /\ call \in [Threads -> Calls]
  /\ arg \in [Threads -> Sessions \cup {NullSession}]
  /\ nested \in [Threads -> BOOLEAN]
  /\ meant \in [Threads -> Nat]
  /\ doubleFreed \subseteq [by : Threads, id : Nat]
  /\ leaked \subseteq Nat

\* The lock scopes a thread has open: the one of the function it is in, the one
\* of the CloseSession whose "delete" it is in, and the one of ForceCloseSession
\* around CloseSession.
Scopes(t) ==
  (IF pc[t] \in LockedLabels THEN 1 ELSE 0)
  + (IF nested[t] THEN 1 ELSE 0)
  + (IF call[t] = "force" /\ pc[t] \in CloseLabels \cup {"close_lock"} THEN 1 ELSE 0)

\* lock_ is held exactly as many times as its holder has scopes open, up to
\* three, and no other thread is inside one: no early return and no nested
\* CloseSession leaves the mutex locked or releases it too soon.
LockMatchesScopes ==
  \A t \in Threads : Scopes(t) = IF owner = t THEN depth ELSE 0

\* Whenever the lock is free, sessionCount_ is the length of sessionList_:
\* OnAccept, CloseSession and the CloseSession nested in ~Session never count a
\* session twice or lose one.
CountMatchesList ==
  owner = NoThread => sessionCount = Cardinality(sessionList)

\* The test "sessionCount_ > maxConnection_" lets one more session in than
\* maxConnection_ names, and never a second one.
WithinCapacity == Cardinality(sessionList) <= MaxConnection + 1

\* What GetSession and GetSessionList hand out is a live object: a session in
\* the list has not been freed, and its socket is open unless the thread that
\* is about to remove it has just closed it.
ListedSessionsUsable ==
  \A s \in sessionList :
    /\ heap[s] = "live"
    /\ sock[s] # "open" =>
         \E t \in Threads : pc[t] = "close_remove" /\ arg[t] = s

\* GetSession(id) has at most one answer: the sessions in the list have ids of
\* their own, all of them handed out by CreateSessionId.
ListedIdsDistinct ==
  /\ \A s \in sessionList : id[s] \in 1 .. sessionSeed - 1
  /\ \A s, r \in sessionList : id[s] = id[r] => s = r

\* However many threads close the same session, its memory is freed once.  Only
\* the accept thread can free a session again: OnAccept deletes one that is in
\* the list already when CreateIoCompletionPort fails.
FreedOnceByClosers ==
  \A f \in doubleFreed : f.by = AcceptThread /\ f.id # 0

\* The socket of every session that got an id is closed before the session is
\* freed.  (One that never got an id, id 0, is freed with its socket open.)
AdmittedSocketsClosed == leaked \subseteq {0}

\* The thread is at the end of CloseSession or ForceCloseSession.
Returning(t) == pc[t] \in {"close_unlock", "force_unlock"} /\ ~nested[t]

\* When CloseSession or ForceCloseSession returns, the client it was called for
\* is in the list no more: by this call, or because another thread was faster.
\* This holds even where the session was freed meanwhile and its address given
\* to another client, whom the call then closes as well: a stale pointer closes
\* one client too many and never one too few.
ClosedTargetGone ==
  \A t \in Closers :
    Returning(t) /\ meant[t] # 0 => \A s \in sessionList : id[s] # meant[t]

\* The manager implements the table of sessions.
Table == INSTANCE SessionTable
           WITH members <- sessionList, ids <- id, nextId <- sessionSeed

ImplementsSessionTable == Table!Spec

\* Whoever takes lock_ lets go of it again: the CloseSession in ~Session asks
\* for a mutex its own thread holds.
LockAlwaysFreed == \A t \in Threads : owner = t ~> owner = NoThread

-----------------------------------------------------------------------------
(* The inductive strengthening of the safety properties.                   *)

\* The thread has taken its session out of the list and not freed it yet.
Evicting(t) ==
  nested[t] \/ pc[t] \in {"close_count", "close_delete", "close_free"}

\* Which calls a thread can be in at which statement.
CallsInv ==
  \A t \in Threads :
    /\ pc[t] \in {"idle", "holding"} \cup GetLabels => call[t] = "none"
    /\ pc[t] \in {"add_lock", "add_check", "add_push", "add_count", "attach"}
         => call[t] = "add"
    /\ pc[t] = "add_unlock" => call[t] \in {"add", "refused"}
    /\ pc[t] \in ForceLabels \cup {"force_lock"} => call[t] = "force"
    /\ pc[t] \in CloseLabels \cup {"close_lock"} => call[t] \in {"close", "force", "delete"}
    /\ pc[t] = "delete_free" => call[t] = "delete"
    /\ call[t] \in {"add", "refused", "delete"} => t = AcceptThread /\ arg[t] \in Sessions
    /\ call[t] \in {"close", "force"} => t \in Closers
    /\ pc[t] \in {"holding"} \cup GetLabels => t \in Closers
    /\ nested[t] => pc[t] \in {"close_lock", "close_find", "close_unlock"}

\* owner and depth agree.
LockInv ==
  /\ LockMatchesScopes
  /\ owner = NoThread <=> depth = 0

\* The list as the thread inside the lock sees it.
ListInv ==
  \A t \in Threads :
    /\ pc[t] \in {"add_lock", "add_check", "add_push"} => arg[t] \notin sessionList
    /\ pc[t] = "add_count" => arg[t] \in sessionList
    /\ pc[t] \in {"close_socket", "close_remove"} => arg[t] \in sessionList
    /\ Evicting(t) => arg[t] \in Sessions \ sessionList
    /\ call[t] = "delete" /\ pc[t] \in {"close_unlock", "delete_free"}
         => arg[t] \notin sessionList

\* The count as the thread inside the lock sees it.
CountInv ==
  /\ IsFiniteSet(sessionList)
  /\ (\A t \in Threads : pc[t] \notin {"add_count", "close_count"})
       => sessionCount = Cardinality(sessionList)
  /\ \A t \in Threads :
       /\ pc[t] = "add_push" => Cardinality(sessionList) <= MaxConnection
       /\ pc[t] = "add_count" => sessionCount = Cardinality(sessionList) - 1
       /\ pc[t] = "close_count" => sessionCount = Cardinality(sessionList) + 1

\* A session on its way into the list or out of it.
ObjectInv ==
  /\ \A t \in Threads :
       /\ pc[t] \in {"add_lock", "add_check", "add_push"} =>
            heap[arg[t]] = "live" /\ sock[arg[t]] = "open" /\ id[arg[t]] = 0
       /\ pc[t] \in {"add_count", "attach"} \/ (pc[t] = "add_unlock" /\ call[t] = "add")
            => id[arg[t]] # 0
       /\ pc[t] = "close_remove" => sock[arg[t]] = "closed"
       /\ Evicting(t) =>
            heap[arg[t]] = "live" /\ sock[arg[t]] = "closed" /\ id[arg[t]] # 0
       /\ call[t] \in {"refused", "delete"} /\ id[arg[t]] = 0 => heap[arg[t]] = "live"
       /\ call[t] = "delete" /\ ~nested[t] /\ pc[t] \in {"close_unlock", "delete_free"}
            /\ id[arg[t]] # 0 => heap[arg[t]] = "free"
       /\ pc[t] = "delete_free" =>
            \A u \in Threads : Evicting(u) => arg[u] # arg[t]
  /\ \A s \in Sessions :
       heap[s] = "live" /\ id[s] # 0 /\ s \notin sessionList =>
         \E t \in Threads : Evicting(t) /\ arg[t] = s

\* A session keeps the id it was handed until its memory is used again.
IdsInv == \A s \in Sessions : id[s] < sessionSeed

\* The inductive invariant.
IInv ==
  /\ TypeOK /\ CallsInv /\ LockInv /\ ListInv /\ CountInv /\ ObjectInv /\ IdsInv
  /\ WithinCapacity /\ ListedSessionsUsable /\ ListedIdsDistinct
  /\ FreedOnceByClosers /\ AdmittedSocketsClosed

\* What a closer knows of its target: if it is still in the list, then at the
\* address the closer holds; and nobody is, there, when the call returns.
TargetInv ==
  \A t \in Closers :
    /\ meant[t] < sessionSeed
    /\ \A s \in sessionList : meant[t] # 0 /\ id[s] = meant[t] => s = arg[t]
    /\ Returning(t) => arg[t] \notin sessionList
=============================================================================
