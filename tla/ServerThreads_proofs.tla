------------------------ MODULE ServerThreads_proofs ------------------------
(***************************************************************************)
(* Proofs about ServerThreads, for any number of threads and clients, and  *)
(* about the threads TaskManager starts and the work they do: Task and     *)
(* SessionMonitor.  The lock, the registry of threads, the tasks' lists    *)
(* and the monitor have nothing to do with each other: each has an         *)
(* inductive invariant of its own.                                         *)
(***************************************************************************)
EXTENDS ServerThreads, TLAPS

USE ThreadsAssumption

Labels ==
  {"idle", "search", "log", "logged", "lock", "place", "in", "unlock", "clear", "left", "ended"}

LockType ==
  /\ pc \in [Threads -> Labels] /\ nest \in [Threads -> Nat] /\ depth \in Nat
  /\ owner \in Threads \cup {NoThread} /\ place \in Threads \cup {NoThread}

\* The mutex counts the scopes of its owner, and nobody else has any.
ScopesCounted ==
  /\ \A t \in Threads : nest[t] = IF owner = t THEN depth ELSE 0
  /\ owner = NoThread <=> depth = 0

\* A thread between the two halves of FileLock and those of FileUnlock has a scope.
InsideHasScope == \A t \in Threads : pc[t] \in {"place", "in", "unlock"} => nest[t] > 0

LockInv == LockType /\ ScopesCounted /\ InsideHasScope /\ PlaceIsHolders

LEMMA LockInvInit == ASSUME Init PROVE LockInv
BY DEF Init, LockInv, LockType, ScopesCounted, InsideHasScope, PlaceIsHolders, Holding, Labels

\* A thread that goes on outside FileLock and FileUnlock keeps the invariant.
LEMMA MoveKeepsLockInv ==
  ASSUME LockInv, NEW t \in Threads, NEW label \in Labels,
         pc[t] \notin {"place", "clear"},
         label \notin {"place", "in"}, label = "unlock" => pc[t] = "in",
         pc' = [pc EXCEPT ![t] = label], UNCHANGED <<nest, lockVars>>
  PROVE  LockInv'
<1>1. LockType' BY DEF LockInv, LockType, lockVars
<1>2. ScopesCounted' BY DEF LockInv, ScopesCounted, lockVars
<1>3. InsideHasScope' BY DEF LockInv, LockType, InsideHasScope
<1>4. PlaceIsHolders'
  <2>1. \A u \in Threads : Holding(u)' => Holding(u) BY DEF LockInv, LockType, Holding
  <2> QED BY <2>1 DEF LockInv, PlaceIsHolders, lockVars
<1> QED BY <1>1, <1>2, <1>3, <1>4 DEF LockInv

\* Nobody but t holds anything while t has a scope, nor when it gets its first.
LEMMA LockMutexKeeps ==
  ASSUME LockInv, NEW t \in Threads, LockMutex(t) PROVE LockInv'
<1>0. /\ pc[t] = "lock" /\ owner \in {NoThread, t}
      /\ owner' = t /\ depth' = depth + 1 /\ place' = place
      /\ nest' = [nest EXCEPT ![t] = nest[t] + 1] /\ pc' = [pc EXCEPT ![t] = "place"]
  BY DEF LockMutex, At, Goto
<1>1. LockType' BY <1>0 DEF LockInv, LockType, Labels
<1>2. ScopesCounted'
  <2>1. nest[t] = depth BY <1>0 DEF LockInv, LockType, ScopesCounted
  <2>2. \A u \in Threads \ {t} : nest[u] = 0
    BY <1>0 DEF LockInv, ScopesCounted
  <2> QED BY <1>0, <2>1, <2>2 DEF LockInv, LockType, ScopesCounted
<1>3. InsideHasScope' BY <1>0 DEF LockInv, LockType, InsideHasScope
<1>4. PlaceIsHolders'
  <2>1. \A u \in Threads : ~Holding(u)'
    BY <1>0, <1>1, <1>2 DEF Holding, ScopesCounted, LockInv, LockType
  <2> QED BY <2>1 DEF PlaceIsHolders
<1> QED BY <1>1, <1>2, <1>3, <1>4 DEF LockInv

LEMMA SetPlaceKeeps ==
  ASSUME LockInv, NEW t \in Threads, SetPlace(t) PROVE LockInv'
<1>0. /\ pc[t] = "place" /\ place' = t /\ pc' = [pc EXCEPT ![t] = "in"]
      /\ UNCHANGED <<owner, depth, nest>>
  BY DEF SetPlace, At, Goto
<1>1. LockType' BY <1>0 DEF LockInv, LockType, Labels
<1>2. ScopesCounted' BY <1>0 DEF LockInv, ScopesCounted
<1>3. InsideHasScope' BY <1>0 DEF LockInv, LockType, InsideHasScope
<1>4. PlaceIsHolders'
  <2>1. nest[t] > 0 /\ owner = t
    BY <1>0 DEF LockInv, LockType, InsideHasScope, ScopesCounted
  <2>2. \A u \in Threads \ {t} : nest[u] = 0 BY <2>1 DEF LockInv, ScopesCounted
  <2> QED BY <1>0, <2>1, <2>2 DEF PlaceIsHolders, Holding
<1> QED BY <1>1, <1>2, <1>3, <1>4 DEF LockInv

LEMMA UnlockKeeps ==
  ASSUME LockInv, NEW t \in Threads, Unlock(t) PROVE LockInv'
<1>0. /\ pc[t] = "unlock" /\ pc' = [pc EXCEPT ![t] = "clear"]
      /\ depth' = depth - 1 /\ owner' = (IF depth = 1 THEN NoThread ELSE owner)
      /\ nest' = [nest EXCEPT ![t] = nest[t] - 1] /\ place' = place
  BY DEF Unlock, At, Goto
<1>1. nest[t] > 0 /\ owner = t /\ nest[t] = depth
  BY <1>0 DEF LockInv, LockType, InsideHasScope, ScopesCounted
<1>2. \A u \in Threads \ {t} : nest[u] = 0 BY <1>1 DEF LockInv, ScopesCounted
<1>3. LockType' BY <1>0, <1>1 DEF LockInv, LockType, Labels
<1>4. ScopesCounted'
  BY <1>0, <1>1, <1>2 DEF LockInv, LockType, ScopesCounted
<1>5. InsideHasScope' BY <1>0, <1>2 DEF LockInv, LockType, InsideHasScope
<1>6. PlaceIsHolders' BY <1>0, <1>2 DEF LockInv, LockType, PlaceIsHolders, Holding
<1> QED BY <1>3, <1>4, <1>5, <1>6 DEF LockInv

LEMMA ClearPlaceKeeps ==
  ASSUME LockInv, NEW t \in Threads, ClearPlace(t) PROVE LockInv'
<1>0. /\ place' = NoThread /\ UNCHANGED <<owner, depth, nest>>
      /\ pc' = [pc EXCEPT ![t] = IF nest[t] > 0 THEN "unlock" ELSE "left"]
  BY DEF ClearPlace, At, Goto
<1>1. LockType' BY <1>0 DEF LockInv, LockType, Labels
<1>2. ScopesCounted' BY <1>0 DEF LockInv, ScopesCounted
<1>3. InsideHasScope' BY <1>0 DEF LockInv, LockType, InsideHasScope
<1>4. PlaceIsHolders'
  BY <1>0, <1>1, <1>2 DEF LockType, ScopesCounted, PlaceIsHolders, Holding
<1> QED BY <1>1, <1>2, <1>3, <1>4 DEF LockInv

\* The steps of Next that touch neither the lock nor the statement of a thread.
LEMMA StillKeepsLockInv ==
  ASSUME LockInv, UNCHANGED <<pc, nest, lockVars>> PROVE LockInv'
BY DEF LockInv, LockType, ScopesCounted, InsideHasScope, PlaceIsHolders, Holding, lockVars

LEMMA LockInvStep ==
  ASSUME LockInv, [Next]_vars PROVE LockInv'
<1>1. CASE Listen BY <1>1, StillKeepsLockInv DEF Listen, RunVars
<1>2. ASSUME NEW t \in Threads, StartThread(t) PROVE LockInv'
  BY <1>2, StillKeepsLockInv DEF StartThread, RunVars
<1>3. CASE Put BY <1>3, StillKeepsLockInv DEF Put, RunVars
<1>4. CASE Ready BY <1>4, StillKeepsLockInv DEF Ready, RunVars
<1>5. ASSUME NEW t \in Threads, LookUpRaced(t) PROVE LockInv'
  BY <1>5, StillKeepsLockInv DEF LookUpRaced
<1>6. ASSUME NEW t \in Threads, Log(t) PROVE LockInv'
  BY <1>6, MoveKeepsLockInv DEF Log, At, Goto, Labels
<1>7. ASSUME NEW t \in Threads, SearchLockCycle(t) PROVE LockInv'
  <2>1. CASE UNCHANGED pc BY <1>7, <2>1, StillKeepsLockInv DEF SearchLockCycle
  <2>2. CASE Goto(t, "lock")
    BY <1>7, <2>2, MoveKeepsLockInv DEF SearchLockCycle, At, Goto, Labels
  <2> QED BY <1>7, <2>1, <2>2 DEF SearchLockCycle
<1>8. ASSUME NEW t \in Threads, LockMutex(t) PROVE LockInv' BY <1>8, LockMutexKeeps
<1>9. ASSUME NEW t \in Threads, SetPlace(t) PROVE LockInv' BY <1>9, SetPlaceKeeps
<1>10. ASSUME NEW t \in Threads, Unlock(t) PROVE LockInv' BY <1>10, UnlockKeeps
<1>11. ASSUME NEW t \in Threads, ClearPlace(t) PROVE LockInv' BY <1>11, ClearPlaceKeeps
<1>12. ASSUME NEW c \in Clients, Connect(c) PROVE LockInv'
  BY <1>12, StillKeepsLockInv DEF Connect, LoopUnchanged
<1>13. Accept \in Threads BY DEF Threads
<1>14. ASSUME NEW c \in Clients, AcceptClient(c) PROVE LockInv'
  BY <1>13, <1>14, MoveKeepsLockInv DEF AcceptClient, LoopUnchanged, At, Goto, Labels
<1>15. CASE AcceptFails
  BY <1>13, <1>15, MoveKeepsLockInv DEF AcceptFails, LoopUnchanged, At, Goto, Labels
<1>16. CASE AddSession
  BY <1>13, <1>16, MoveKeepsLockInv DEF AddSession, LoopUnchanged, At, Goto, Labels
<1>17. CASE AddSessionLeft
  BY <1>13, <1>17, MoveKeepsLockInv DEF AddSessionLeft, LoopUnchanged, At, Goto, Labels
<1>18. CASE Check
  BY <1>13, <1>18, MoveKeepsLockInv DEF Check, LoopUnchanged, At, Goto, Labels
<1>19. ASSUME NEW w \in Workers, NEW c \in Clients, ClientGone(w, c) PROVE LockInv'
  BY <1>19, MoveKeepsLockInv DEF ClientGone, LoopUnchanged, At, Goto, Labels, Threads
<1>20. ASSUME NEW w \in Workers, CallCloseSession(w) PROVE LockInv'
  BY <1>20, MoveKeepsLockInv DEF CallCloseSession, LoopUnchanged, At, Goto, Labels, Threads
<1>21. ASSUME NEW t \in Threads, CloseListed(t) PROVE LockInv'
  BY <1>21, MoveKeepsLockInv DEF CloseListed, At, Goto, Labels
<1>22. ASSUME NEW t \in Threads, CloseNothing(t) PROVE LockInv'
  BY <1>22, MoveKeepsLockInv DEF CloseNothing, LoopUnchanged, At, Goto, Labels
<1>23. ASSUME NEW w \in Workers, WorkerDone(w) PROVE LockInv'
  BY <1>23, MoveKeepsLockInv DEF WorkerDone, LoopUnchanged, At, Goto, Labels, Threads
<1>24. CASE UNCHANGED vars BY <1>24, StillKeepsLockInv DEF vars
<1> QED
  BY <1>1, <1>2, <1>3, <1>4, <1>5, <1>6, <1>7, <1>8, <1>9, <1>10, <1>11, <1>12, <1>14,
     <1>15, <1>16, <1>17, <1>18, <1>19, <1>20, <1>21, <1>22, <1>23, <1>24
  DEF Next

THEOREM LockInvariant == Spec => []LockInv
<1>1. Init => LockInv BY LockInvInit
<1>2. LockInv /\ [Next]_vars => LockInv' BY LockInvStep
<1> QED BY <1>1, <1>2, PTL DEF Spec

\* FileUnlock clears the place after it let go of the mutex (Lock.cpp:52): a lock that is
\* held names its holder or nobody, never another thread, however many threads take it.
THEOREM PlaceCorrect == Spec => []PlaceIsHolders
<1>1. LockInv => PlaceIsHolders BY DEF LockInv
<1> QED BY <1>1, LockInvariant, PTL

-----------------------------------------------------------------------------
(* The registry of threads.  What Run has done so far is told by "main":   *)
(* the threads that run are those it has not still to make, and all of     *)
(* them but the one whose insertion is under way are in the map.           *)

RegistryInv ==
  /\ toStart \subseteq Threads /\ started = Threads \ toStart
  /\ main \in {"limit", "start", "put", "ready", "console"}
  /\ IF main = "put" THEN inserting \in Threads /\ started = threadPool \cup {inserting}
     ELSE inserting = NoThread /\ started = threadPool
  /\ main \in {"ready", "console"} => toStart = {}
  /\ status = "ready" => main = "console"

LEMMA RegistryInvInit == ASSUME Init PROVE RegistryInv
BY DEF Init, RegistryInv

LEMMA StillKeepsRegistryInv ==
  ASSUME RegistryInv, UNCHANGED <<mainVars, started, poolVars>> PROVE RegistryInv'
BY DEF RegistryInv, mainVars, poolVars

LEMMA RegistryInvStep ==
  ASSUME RegistryInv, [Next]_vars PROVE RegistryInv'
<1>1. CASE Listen BY <1>1 DEF Listen, poolVars, RegistryInv
<1>2. ASSUME NEW t \in Threads, StartThread(t) PROVE RegistryInv'
  BY <1>2 DEF StartThread, RegistryInv
<1>3. CASE Put BY <1>3 DEF Put, RegistryInv
<1>4. CASE Ready BY <1>4 DEF Ready, poolVars, RegistryInv
<1>5. ASSUME NEW t \in Threads,
             LookUpRaced(t) \/ Log(t) \/ SearchLockCycle(t) \/ LockMutex(t) \/ SetPlace(t)
               \/ Unlock(t) \/ ClearPlace(t) \/ CloseListed(t) \/ CloseNothing(t)
      PROVE  RegistryInv'
  BY <1>5, StillKeepsRegistryInv
  DEF LookUpRaced, Log, SearchLockCycle, LockMutex, SetPlace, Unlock, ClearPlace,
      CloseListed, CloseNothing, LockUnchanged, LoopUnchanged
<1>6. ASSUME NEW c \in Clients, Connect(c) \/ AcceptClient(c) PROVE RegistryInv'
  BY <1>6, StillKeepsRegistryInv DEF Connect, AcceptClient, LoopUnchanged
<1>7. CASE AcceptFails \/ AddSession \/ AddSessionLeft \/ Check
  BY <1>7, StillKeepsRegistryInv DEF AcceptFails, AddSession, AddSessionLeft, Check, LoopUnchanged
<1>8. ASSUME NEW w \in Workers,
             (\E c \in Clients : ClientGone(w, c)) \/ CallCloseSession(w) \/ WorkerDone(w)
      PROVE  RegistryInv'
  BY <1>8, StillKeepsRegistryInv
  DEF ClientGone, CallCloseSession, WorkerDone, LoopUnchanged
<1>9. CASE UNCHANGED vars BY <1>9, StillKeepsRegistryInv DEF vars
<1> QED BY <1>1, <1>2, <1>3, <1>4, <1>5, <1>6, <1>7, <1>8, <1>9 DEF Next

\* Run makes the server ready after the last thread is in ThreadManager's map
\* (IOCPServer.cpp:67): from then on every thread finds itself there, and no look-up meets
\* an insertion.
THEOREM RegistrySettled == Spec => []RegistrySettledWhenReady
<1>1. Init => RegistryInv BY RegistryInvInit
<1>2. RegistryInv /\ [Next]_vars => RegistryInv' BY RegistryInvStep
<1>3. RegistryInv => RegistrySettledWhenReady
  <2> SUFFICES ASSUME RegistryInv, status = "ready", NEW t \in Threads PROVE Found(t) = {TRUE}
    BY DEF RegistrySettledWhenReady
  <2>1. inserting = NoThread /\ (t \in threadPool) = TRUE BY DEF RegistryInv
  <2> QED BY <2>1 DEF Found
<1> QED BY <1>1, <1>2, <1>3, PTL DEF Spec

-----------------------------------------------------------------------------
(* The task threads (module Task), for any works, threads and times: how   *)
(* far apart the ticks of a work are does not depend on its list, so that  *)
(* it holds also where push_back has lost nodes.                           *)

CONSTANTS Works, Timed, Adders, Counts, FreqSec, NoWork

VARIABLES
  mThreadCount, list, end, current, deleteNodes, ticking, wait, since, nodeCount, adding, home,
  raced

Tasks == INSTANCE Task

USE DEF Tasks!TaskAssumption

TimeType ==
  /\ wait \in [Works -> Int] /\ since \in [Works -> Nat]
  /\ \A w \in Works : wait[w] >= -1

\* What is left to wait and what has passed add up to the time between two ticks.
TimesAddUp == \A w \in Works \ Timed : wait[w] < 0 \/ Tasks!Dealt(w) => since[w] + wait[w] >= FreqSec

\* A thread is in a Tick only at a node.
ThreadInv ==
  /\ ticking \in [Tasks!Threads -> BOOLEAN] /\ DOMAIN current = Tasks!Threads
  /\ \A i \in Tasks!Threads : ticking[i] => current[i] # NoWork

TickInv == Tasks!TaskAssumption /\ TimeType /\ TimesAddUp /\ ThreadInv

LEMMA TickInvInit == Tasks!TaskAssumption /\ Tasks!Init => TickInv
BY DEF Tasks!Init, TickInv, TimeType, TimesAddUp, ThreadInv, Tasks!Dealt, Tasks!None

LEMMA SecondKeeps == ASSUME TickInv, Tasks!Second PROVE TickInv'
<1>0. /\ wait' = [w \in Works |->
            IF Tasks!Dealt(w) /\ w \notin Timed /\ wait[w] >= 0 THEN wait[w] - 1 ELSE wait[w]]
      /\ since' = [w \in Works |->
            IF Tasks!Dealt(w) /\ w \notin Timed /\ since[w] < Tasks!MaxSince THEN since[w] + 1 ELSE since[w]]
      /\ UNCHANGED <<home, current, ticking>>
  BY DEF Tasks!Second, Tasks!threadVars, Tasks!addVars
<1>1. TimeType'
  BY <1>0 DEF TickInv, TimeType
<1>2. TimesAddUp'
  <2> SUFFICES ASSUME NEW w \in Works \ Timed, wait'[w] < 0 \/ Tasks!Dealt(w)'
               PROVE  since'[w] + wait'[w] >= FreqSec
    BY DEF TimesAddUp
  <2>1. wait[w] \in Int /\ wait[w] >= -1 /\ since[w] \in Nat /\ Tasks!MaxSince = FreqSec + 1 /\ FreqSec \in Nat
    BY DEF TickInv, TimeType, Tasks!MaxSince
  <2>2. CASE Tasks!Dealt(w)
    <3>1. since[w] + wait[w] >= FreqSec BY <2>2 DEF TickInv, TimesAddUp
    <3>2. wait'[w] = (IF wait[w] >= 0 THEN wait[w] - 1 ELSE wait[w]) BY <1>0, <2>2
    <3>3. since'[w] = (IF since[w] < Tasks!MaxSince THEN since[w] + 1 ELSE since[w]) BY <1>0, <2>2
    <3> QED BY <2>1, <3>1, <3>2, <3>3
  <2>3. CASE ~Tasks!Dealt(w)
    <3>1. wait'[w] = wait[w] /\ since'[w] = since[w] /\ ~Tasks!Dealt(w)' BY <1>0, <2>3 DEF Tasks!Dealt
    <3> QED BY <3>1 DEF TickInv, TimesAddUp
  <2> QED BY <2>2, <2>3
<1>3. ThreadInv' BY <1>0 DEF TickInv, ThreadInv
<1> QED BY <1>1, <1>2, <1>3 DEF TickInv

\* A work waits for a whole period when it is added and when its Tick returns.
LEMMA AddBeginKeeps ==
  ASSUME TickInv, NEW a \in Adders, NEW v \in Works, Tasks!AddBegin(a, v) PROVE TickInv'
<1>0. /\ home' = [home EXCEPT ![v] = Tasks!Index]
      /\ wait' = [wait EXCEPT ![v] = IF v \in Timed THEN 0 ELSE FreqSec]
      /\ since' = [since EXCEPT ![v] = 0] /\ UNCHANGED <<current, ticking>>
  BY DEF Tasks!AddBegin, Tasks!threadVars
<1>1. TimeType' BY <1>0 DEF TickInv, TimeType
<1>2. TimesAddUp'
  <2> SUFFICES ASSUME NEW w \in Works \ Timed, wait'[w] < 0 \/ Tasks!Dealt(w)'
               PROVE  since'[w] + wait'[w] >= FreqSec
    BY DEF TimesAddUp
  <2>1. CASE w = v BY <1>0, <2>1 DEF TickInv, TimeType
  <2>2. CASE w # v
    <3>1. wait'[w] = wait[w] /\ since'[w] = since[w] BY <1>0, <2>2 DEF TickInv, TimeType
    <3>2. Tasks!Dealt(w)' => Tasks!Dealt(w) BY <1>0, <2>2 DEF Tasks!Dealt
    <3> QED BY <3>1, <3>2 DEF TickInv, TimesAddUp
  <2> QED BY <2>1, <2>2
<1>3. ThreadInv' BY <1>0 DEF TickInv, ThreadInv
<1> QED BY <1>1, <1>2, <1>3 DEF TickInv

LEMMA AddDroppedKeeps ==
  ASSUME TickInv, NEW a \in Adders, NEW v \in Works, Tasks!AddDropped(a, v) PROVE TickInv'
<1>0. home' = [home EXCEPT ![v] = Tasks!Dropped] /\ UNCHANGED <<wait, since, current, ticking>>
  BY DEF Tasks!AddDropped, Tasks!threadVars, Tasks!timeVars
<1>1. \A w \in Works : Tasks!Dealt(w)' => Tasks!Dealt(w) BY <1>0 DEF Tasks!Dealt, Tasks!Dropped
<1> QED BY <1>0, <1>1 DEF TickInv, TimeType, TimesAddUp, ThreadInv

\* push_back, and the counting after it, are about lists.
LEMMA AddKeeps == ASSUME TickInv, NEW a \in Adders, Tasks!Add(a) PROVE TickInv'
<1>0. UNCHANGED <<wait, since, home, current, ticking>>
  BY DEF Tasks!Add, Tasks!AddFindEnd, Tasks!AddLink, Tasks!AddCount, Tasks!threadVars, Tasks!timeVars
<1> QED BY <1>0 DEF TickInv, TimeType, TimesAddUp, ThreadInv, Tasks!Dealt

\* A step that neither ticks nor waits, of a thread that is not in a Tick.
LEMMA ListStepKeeps ==
  ASSUME TickInv, NEW i \in Tasks!Threads, ~ticking[i], NEW w,
         current' = [current EXCEPT ![i] = w], UNCHANGED <<wait, since, home, ticking>>
  PROVE  TickInv'
BY DEF TickInv, TimeType, TimesAddUp, ThreadInv, Tasks!Dealt

LEMMA RoundKeeps ==
  ASSUME TickInv, NEW i \in Tasks!Threads, Tasks!RoundBegin(i) \/ Tasks!LookExpired(i) \/ Tasks!LookEarly(i)
  PROVE  TickInv'
<1>1. UNCHANGED <<wait, since, home, ticking>>
  BY DEF Tasks!RoundBegin, Tasks!LookExpired, Tasks!LookEarly, Tasks!timeVars, Tasks!addVars
<1>2. ~ticking[i] BY DEF Tasks!RoundBegin, Tasks!LookExpired, Tasks!LookEarly, TickInv, ThreadInv
<1>3. CASE Tasks!RoundBegin(i)
  <2>1. current' = [current EXCEPT ![i] = list[i][1]] BY <1>3 DEF Tasks!RoundBegin
  <2> QED BY <1>1, <1>2, <2>1, ListStepKeeps
<1>4. CASE Tasks!LookExpired(i) \/ Tasks!LookEarly(i)
  <2>1. current' = [current EXCEPT ![i] = Tasks!Behind(i, current[i])]
    BY <1>4 DEF Tasks!LookExpired, Tasks!LookEarly
  <2> QED BY <1>1, <1>2, <2>1, ListStepKeeps
<1> QED BY <1>3, <1>4

LEMMA TickBeginKeeps == ASSUME TickInv, NEW i \in Tasks!Threads, Tasks!TickBegin(i) PROVE TickInv'
<1>0. /\ current[i] # NoWork /\ ticking' = [ticking EXCEPT ![i] = TRUE]
      /\ UNCHANGED <<wait, since, home, current>>
  BY DEF Tasks!TickBegin, Tasks!timeVars, Tasks!addVars
<1> QED BY <1>0 DEF TickInv, TimeType, TimesAddUp, ThreadInv, Tasks!Dealt

LEMMA TickEndKeeps == ASSUME TickInv, NEW i \in Tasks!Threads, Tasks!TickEnd(i) PROVE TickInv'
<1> DEFINE v == current[i]
<1>0. /\ ticking' = [ticking EXCEPT ![i] = FALSE]
      /\ wait' = [wait EXCEPT ![v] = FreqSec] /\ since' = [since EXCEPT ![v] = 0]
      /\ current' = [current EXCEPT ![i] = Tasks!Behind(i, v)] /\ UNCHANGED home
  BY DEF Tasks!TickEnd, Tasks!addVars
<1>1. TimeType'
  <2>0. FreqSec \in Int /\ wait \in [Works -> Int] /\ since \in [Works -> Nat]
    BY DEF TickInv, TimeType
  <2>1. wait' \in [Works -> Int] /\ since' \in [Works -> Nat] BY <1>0, <2>0
  <2>2. ASSUME NEW w \in Works PROVE wait'[w] = FreqSec \/ wait'[w] = wait[w]
    BY <1>0, <2>0
  <2> QED BY <2>0, <2>1, <2>2 DEF TickInv, TimeType
<1>2. TimesAddUp'
  <2> SUFFICES ASSUME NEW w \in Works \ Timed, wait'[w] < 0 \/ Tasks!Dealt(w)'
               PROVE  since'[w] + wait'[w] >= FreqSec
    BY DEF TimesAddUp
  <2>1. CASE w = v BY <1>0, <2>1 DEF TickInv, TimeType
  <2>2. CASE w # v
    <3>1. wait'[w] = wait[w] /\ since'[w] = since[w] /\ (Tasks!Dealt(w)' <=> Tasks!Dealt(w))
      BY <1>0, <2>2 DEF TickInv, TimeType, Tasks!Dealt
    <3> QED BY <3>1 DEF TickInv, TimesAddUp
  <2> QED BY <2>1, <2>2
<1>3. ThreadInv' BY <1>0 DEF TickInv, ThreadInv
<1> QED BY <1>1, <1>2, <1>3 DEF TickInv

LEMMA TickInvStep == TickInv /\ [Tasks!Next]_Tasks!vars => TickInv'
<1> SUFFICES ASSUME TickInv, [Tasks!Next]_Tasks!vars PROVE TickInv' OBVIOUS
<1>1. CASE Tasks!Initialize
  <2>1. UNCHANGED <<wait, since, home, current, ticking>>
    BY <1>1 DEF Tasks!Initialize, Tasks!threadVars, Tasks!timeVars, Tasks!addVars
  <2> QED BY <2>1 DEF TickInv, TimeType, TimesAddUp, ThreadInv, Tasks!Dealt
<1>2. CASE Tasks!Second BY <1>2, SecondKeeps
<1>3. ASSUME NEW a \in Adders, NEW w \in Works, Tasks!AddBegin(a, w) \/ Tasks!AddDropped(a, w)
      PROVE  TickInv'
  BY <1>3, AddBeginKeeps, AddDroppedKeeps
<1>4. ASSUME NEW a \in Adders, Tasks!Add(a) PROVE TickInv' BY <1>4, AddKeeps
<1>5. ASSUME NEW i \in Tasks!Threads, Tasks!RoundBegin(i) \/ Tasks!LookExpired(i) \/ Tasks!LookEarly(i) PROVE TickInv'
  BY <1>5, RoundKeeps
<1>6. ASSUME NEW i \in Tasks!Threads, Tasks!TickBegin(i) PROVE TickInv' BY <1>6, TickBeginKeeps
<1>7. ASSUME NEW i \in Tasks!Threads, Tasks!TickEnd(i) PROVE TickInv' BY <1>7, TickEndKeeps
<1>8. ASSUME NEW i \in Tasks!Threads, NEW w \in Works, Tasks!Remove(i, w) PROVE TickInv'
  <2>1. UNCHANGED <<wait, since, home, current, ticking>> BY <1>8 DEF Tasks!Remove, Tasks!timeVars, Tasks!addVars
  <2> QED BY <2>1 DEF TickInv, TimeType, TimesAddUp, ThreadInv, Tasks!Dealt
<1>9. CASE UNCHANGED Tasks!vars
  <2>1. UNCHANGED <<wait, since, home, current, ticking>>
    BY <1>9 DEF Tasks!vars, Tasks!threadVars, Tasks!timeVars, Tasks!addVars
  <2> QED BY <2>1 DEF TickInv, TimeType, TimesAddUp, ThreadInv, Tasks!Dealt
<1> QED BY <1>1, <1>2, <1>3, <1>4, <1>5, <1>6, <1>7, <1>8, <1>9 DEF Tasks!Next, Tasks!Add

LEMMA TickInvariant == Tasks!TaskAssumption /\ Tasks!Spec => []TickInv
BY TickInvInit, TickInvStep, PTL DEF Tasks!Spec

-----------------------------------------------------------------------------

\* Ticked(w) is new only when a thread that looks at w begins its Tick.
LEMMA NewTick ==
  ASSUME TickInv, [Tasks!Next]_Tasks!vars, NEW w \in Works, Tasks!Ticked(w)', ~Tasks!Ticked(w)
  PROVE  \E i \in Tasks!Threads : Tasks!TickBegin(i) /\ current[i] = w
<1> PICK i \in Tasks!Threads : ticking'[i] /\ current'[i] = w BY DEF Tasks!Ticked
<1>1. ASSUME NEW j \in Tasks!Threads, Tasks!TickBegin(j)
      PROVE  \E k \in Tasks!Threads : Tasks!TickBegin(k) /\ current[k] = w
  <2>1. ticking' = [ticking EXCEPT ![j] = TRUE] /\ current' = current BY <1>1 DEF Tasks!TickBegin
  <2>2. i = j BY <2>1 DEF TickInv, ThreadInv, Tasks!Ticked
  <2> QED BY <1>1, <2>1, <2>2
<1>2. ASSUME UNCHANGED <<current, ticking>> PROVE FALSE BY <1>2 DEF Tasks!Ticked
<1>3. ASSUME NEW j \in Tasks!Threads,
             Tasks!RoundBegin(j) \/ Tasks!LookExpired(j) \/ Tasks!LookEarly(j)
      PROVE  FALSE
  <2>1. ~ticking[j] BY <1>3 DEF Tasks!RoundBegin, Tasks!LookExpired, Tasks!LookEarly, TickInv, ThreadInv
  <2>2. ticking' = ticking BY <1>3 DEF Tasks!RoundBegin, Tasks!LookExpired, Tasks!LookEarly
  <2>3. i # j BY <2>1, <2>2
  <2>4. current'[i] = current[i] BY <1>3, <2>3 DEF Tasks!RoundBegin, Tasks!LookExpired, Tasks!LookEarly, TickInv, ThreadInv
  <2> QED BY <2>2, <2>4 DEF Tasks!Ticked
<1>4. ASSUME NEW j \in Tasks!Threads, Tasks!TickEnd(j) PROVE FALSE
  <2>1. /\ ticking' = [ticking EXCEPT ![j] = FALSE]
        /\ current' = [current EXCEPT ![j] = Tasks!Behind(j, current[j])]
    BY <1>4 DEF Tasks!TickEnd
  <2>2. i # j BY <2>1 DEF TickInv, ThreadInv
  <2> QED BY <2>1, <2>2 DEF TickInv, ThreadInv, Tasks!Ticked
<1>5. CASE Tasks!Initialize BY <1>2, <1>5 DEF Tasks!Initialize, Tasks!threadVars
<1>6. CASE Tasks!Second BY <1>2, <1>6 DEF Tasks!Second, Tasks!threadVars
<1>7. ASSUME NEW a \in Adders, NEW v \in Works, Tasks!AddBegin(a, v) \/ Tasks!AddDropped(a, v) PROVE FALSE
  BY <1>2, <1>7 DEF Tasks!AddBegin, Tasks!AddDropped, Tasks!threadVars
<1>8. ASSUME NEW a \in Adders, Tasks!Add(a) PROVE FALSE
  BY <1>2, <1>8 DEF Tasks!Add, Tasks!AddFindEnd, Tasks!AddLink, Tasks!AddCount, Tasks!threadVars
<1>9. ASSUME NEW j \in Tasks!Threads, NEW v \in Works, Tasks!Remove(j, v) PROVE FALSE BY <1>2, <1>9 DEF Tasks!Remove
<1>10. CASE UNCHANGED Tasks!vars BY <1>2, <1>10 DEF Tasks!vars, Tasks!threadVars
<1> QED BY <1>1, <1>3, <1>4, <1>5, <1>6, <1>7, <1>8, <1>9, <1>10 DEF Tasks!Next, Tasks!Add

\* Task::Process calls a work again only when more than FreqSec seconds have passed since
\* its Tick returned, or since Add, on whatever lists and beside whatever other calls.
THEOREM TicksFarApart == Tasks!TaskAssumption /\ Tasks!Spec => Tasks!TicksApart
<1>1. TickInv /\ [Tasks!Next]_Tasks!vars
      => [\A w \in Works : Tasks!Ticked(w)' /\ ~Tasks!Ticked(w) => since[w] > FreqSec]_Tasks!vars
  <2> SUFFICES ASSUME TickInv, [Tasks!Next]_Tasks!vars, NEW w \in Works, Tasks!Ticked(w)', ~Tasks!Ticked(w)
               PROVE  since[w] > FreqSec
    OBVIOUS
  <2>1. PICK i \in Tasks!Threads : Tasks!TickBegin(i) /\ current[i] = w BY NewTick
  <2>2. w \notin Timed /\ wait[w] < 0 BY <2>1 DEF Tasks!TickBegin, Tasks!Expired, Tasks!Due
  <2>3. since[w] + wait[w] >= FreqSec BY <2>2 DEF TickInv, TimesAddUp
  <2> QED BY <2>2, <2>3 DEF TickInv, TimeType
<1> QED BY <1>1, TickInvariant, PTL DEF Tasks!Spec, Tasks!TicksApart

-----------------------------------------------------------------------------
(* The work of SessionMonitor (module SessionMonitor), for any number of   *)
(* connections, any limit and any time between two ticks.                  *)

CONSTANT MaxHeartBeat

VARIABLES sessions, age, silence, toNext, scanning, todo, seen, dangling

Monitor == INSTANCE SessionMonitor WITH clients <- sessions, wait <- toNext

USE DEF Monitor!MonitorAssumption

\* The time of the tick is not ahead of the clock: whoever is still to be looked at is by
\* now at least as old as the tick takes it for.
SeenNotAhead == \A c \in todo : sessions[c] = "listed" => seen[c] <= age[c]

\* A connection that was closed is not accepted again.
TodoNotNew == \A c \in todo : sessions[c] # "none"

MonitorInv == Monitor!MonitorAssumption /\ Monitor!TypeOK /\ SeenNotAhead /\ TodoNotNew

LEMMA OlderType ==
  ASSUME Monitor!MonitorAssumption, NEW n \in 0 .. Monitor!Limit
  PROVE  Monitor!Older(n) \in 0 .. Monitor!Limit /\ n <= Monitor!Older(n)
BY DEF Monitor!Older, Monitor!Limit

LEMMA MonitorInvInit == Monitor!MonitorAssumption /\ Monitor!Init => MonitorInv
<1> SUFFICES ASSUME Monitor!MonitorAssumption, Monitor!Init PROVE MonitorInv OBVIOUS
<1>1. Monitor!Limit \in Nat /\ FreqSec \in Nat BY DEF Monitor!Limit
<1>2. 0 \in 0 .. Monitor!Limit /\ FreqSec \in -1 .. FreqSec BY <1>1
<1>3. Monitor!TypeOK BY <1>2 DEF Monitor!Init, Monitor!TypeOK
<1> QED BY <1>3 DEF Monitor!Init, MonitorInv, SeenNotAhead, TodoNotNew

LEMMA MonitorSecondKeeps == ASSUME MonitorInv, Monitor!Second PROVE MonitorInv'
<1>0. /\ age' = [c \in Clients |-> IF sessions[c] = "listed" THEN Monitor!Older(age[c]) ELSE 0]
      /\ silence' = [c \in Clients |-> IF sessions[c] = "listed" THEN Monitor!Older(silence[c]) ELSE 0]
      /\ toNext' = (IF toNext < 0 THEN toNext ELSE toNext - 1)
      /\ UNCHANGED <<sessions, scanning, todo, seen, dangling>>
  BY DEF Monitor!Second
<1>1. Monitor!Limit \in Nat /\ FreqSec \in Nat BY DEF Monitor!Limit, MonitorInv
<1>2. \A c \in Clients : /\ Monitor!Older(age[c]) \in 0 .. Monitor!Limit /\ age[c] <= Monitor!Older(age[c])
                         /\ Monitor!Older(silence[c]) \in 0 .. Monitor!Limit
  BY OlderType DEF MonitorInv, Monitor!TypeOK
<1>3. age' \in [Clients -> 0 .. Monitor!Limit] /\ silence' \in [Clients -> 0 .. Monitor!Limit]
  BY <1>0, <1>1, <1>2
<1>4. toNext' \in -1 .. FreqSec BY <1>0, <1>1 DEF MonitorInv, Monitor!TypeOK
<1>5. Monitor!TypeOK' BY <1>0, <1>3, <1>4 DEF MonitorInv, Monitor!TypeOK
<1>6. SeenNotAhead'
  <2> SUFFICES ASSUME NEW c \in todo, sessions[c] = "listed" PROVE seen[c] <= age'[c]
    BY <1>0 DEF SeenNotAhead
  <2>1. c \in Clients /\ seen[c] \in 0 .. Monitor!Limit /\ age[c] \in 0 .. Monitor!Limit
    BY DEF MonitorInv, Monitor!TypeOK
  <2>2. seen[c] <= age[c] BY DEF MonitorInv, SeenNotAhead
  <2>3. age'[c] = Monitor!Older(age[c]) BY <1>0, <2>1
  <2> QED BY <1>1, <1>2, <2>1, <2>2, <2>3
<1>7. TodoNotNew' BY <1>0 DEF MonitorInv, TodoNotNew
<1> QED BY <1>5, <1>6, <1>7 DEF MonitorInv

\* A client that comes, speaks or leaves is listed for as long as it grows older.
LEMMA MonitorClientKeeps ==
  ASSUME MonitorInv, NEW c \in Clients,
         Monitor!Accept(c) \/ Monitor!ClientSpeaks(c) \/ Monitor!ClientLeaves(c)
  PROVE  MonitorInv'
<1>1. Monitor!Limit \in Nat BY DEF Monitor!Limit, MonitorInv
<1>2. CASE Monitor!Accept(c)
  <2>1. sessions' = [sessions EXCEPT ![c] = "listed"] /\ sessions[c] = "none"
        /\ UNCHANGED <<age, silence, toNext, scanning, todo, seen, dangling>>
    BY <1>2 DEF Monitor!Accept
  <2>2. c \notin todo BY <2>1 DEF MonitorInv, TodoNotNew
  <2> QED BY <2>1, <2>2 DEF MonitorInv, Monitor!TypeOK, SeenNotAhead, TodoNotNew
<1>3. CASE Monitor!ClientSpeaks(c)
  BY <1>1, <1>3 DEF Monitor!ClientSpeaks, MonitorInv, Monitor!TypeOK, SeenNotAhead, TodoNotNew
<1>4. CASE Monitor!ClientLeaves(c)
  BY <1>1, <1>4 DEF Monitor!ClientLeaves, MonitorInv, Monitor!TypeOK, SeenNotAhead, TodoNotNew
<1> QED BY <1>2, <1>3, <1>4

\* The copy of the list is taken with the ages of this moment, and only gets smaller.
LEMMA MonitorTickKeeps ==
  ASSUME MonitorInv,
         \/ Monitor!Tick \/ Monitor!NextTick
         \/ \E c \in Clients :
              Monitor!LookFreed(c) \/ Monitor!LookYoung(c) \/ Monitor!LookOld(c)
  PROVE  MonitorInv'
<1>1. Monitor!Limit \in Nat /\ FreqSec \in Nat BY DEF Monitor!Limit, MonitorInv
<1>2. CASE Monitor!Tick
  <2>1. /\ scanning' = TRUE /\ todo' = Monitor!Listed /\ seen' = age
        /\ UNCHANGED <<sessions, age, silence, toNext, dangling>>
    BY <1>2 DEF Monitor!Tick
  <2>2. Monitor!TypeOK' BY <2>1 DEF MonitorInv, Monitor!TypeOK, Monitor!Listed
  <2>3. SeenNotAhead' BY <1>1, <2>1 DEF MonitorInv, Monitor!TypeOK, SeenNotAhead, Monitor!Listed
  <2>4. TodoNotNew' BY <2>1 DEF TodoNotNew, Monitor!Listed
  <2> QED BY <2>2, <2>3, <2>4 DEF MonitorInv
<1>3. ASSUME NEW c \in Clients, Monitor!LookFreed(c) PROVE MonitorInv'
  BY <1>3 DEF Monitor!LookFreed, MonitorInv, Monitor!TypeOK, SeenNotAhead, TodoNotNew
<1>4. ASSUME NEW c \in Clients, Monitor!LookYoung(c) PROVE MonitorInv'
  BY <1>4 DEF Monitor!LookYoung, MonitorInv, Monitor!TypeOK, SeenNotAhead, TodoNotNew
<1>5. ASSUME NEW c \in Clients, Monitor!LookOld(c) PROVE MonitorInv'
  BY <1>1, <1>5 DEF Monitor!LookOld, MonitorInv, Monitor!TypeOK, SeenNotAhead, TodoNotNew
<1>6. CASE Monitor!NextTick
  <2>1. /\ scanning' = FALSE /\ todo = {} /\ toNext' = FreqSec
        /\ seen' = [c \in Clients |-> 0] /\ UNCHANGED <<sessions, age, silence, todo, dangling>>
    BY <1>6 DEF Monitor!NextTick
  <2>2. 0 \in 0 .. Monitor!Limit /\ FreqSec \in -1 .. FreqSec BY <1>1
  <2>3. Monitor!TypeOK' BY <2>1, <2>2 DEF MonitorInv, Monitor!TypeOK
  <2> QED BY <2>1, <2>3 DEF MonitorInv, SeenNotAhead, TodoNotNew
<1> QED BY <1>2, <1>3, <1>4, <1>5, <1>6

LEMMA MonitorInvStep == MonitorInv /\ [Monitor!Next]_Monitor!vars => MonitorInv'
<1> SUFFICES ASSUME MonitorInv, [Monitor!Next]_Monitor!vars PROVE MonitorInv'
  OBVIOUS
<1>1. CASE UNCHANGED Monitor!vars
  BY <1>1 DEF Monitor!vars, MonitorInv, Monitor!TypeOK, SeenNotAhead, TodoNotNew
<1>2. CASE Monitor!Next
  BY <1>2, MonitorSecondKeeps, MonitorClientKeeps, MonitorTickKeeps DEF Monitor!Next
<1> QED BY <1>1, <1>2

LEMMA MonitorInvariant == Monitor!MonitorAssumption /\ Monitor!Spec => []MonitorInv
BY MonitorInvInit, MonitorInvStep, PTL DEF Monitor!Spec

\* Every variable keeps its type; in particular the thread has sessions to look at only
\* within a tick.
THEOREM MonitorTypeCorrect == Monitor!MonitorAssumption /\ Monitor!Spec => []Monitor!TypeOK
<1>1. MonitorInv => Monitor!TypeOK BY DEF MonitorInv
<1> QED BY <1>1, MonitorInvariant, PTL

\* Only LookOld closes, and what it compares with is not ahead of the clock.
LEMMA ClosesOldStep ==
  ASSUME MonitorInv, [Monitor!Next]_Monitor!vars, NEW c \in Clients, Monitor!MonitorCloses(c)
  PROVE  age[c] > MaxHeartBeat
<1>0. sessions[c] = "listed" /\ sessions'[c] = "closed" BY DEF Monitor!MonitorCloses
<1>1. PICK d \in Clients : Monitor!LookOld(d)
  <2>1. ~(UNCHANGED sessions) BY <1>0
  <2>2. \A d \in Clients : ~Monitor!Accept(d) /\ ~Monitor!ClientLeaves(d)
    BY <1>0 DEF Monitor!Accept, Monitor!ClientLeaves, MonitorInv, Monitor!TypeOK
  <2> QED
    BY <2>1, <2>2
    DEF Monitor!Next, Monitor!vars, Monitor!Second, Monitor!ClientSpeaks, Monitor!Tick,
        Monitor!LookFreed, Monitor!LookYoung, Monitor!NextTick
<1>2. d = c BY <1>0, <1>1 DEF Monitor!LookOld, MonitorInv, Monitor!TypeOK
<1>3. c \in todo /\ seen[c] > MaxHeartBeat BY <1>1, <1>2 DEF Monitor!LookOld, Monitor!TooOld
<1>4. seen[c] <= age[c] BY <1>0, <1>3 DEF MonitorInv, SeenNotAhead
<1>5. /\ seen[c] \in 0 .. Monitor!Limit /\ age[c] \in 0 .. Monitor!Limit
      /\ Monitor!Limit \in Nat /\ MaxHeartBeat \in Nat
  BY DEF MonitorInv, Monitor!TypeOK, Monitor!Limit
<1> QED BY <1>3, <1>4, <1>5

\* SessionMonitor::Tick closes nobody who has been connected for less than MAX_HEART_BEAT,
\* although it reads the clock once and takes as long as it likes over its copy of the list.
THEOREM ClosesOnlyOld == Monitor!MonitorAssumption /\ Monitor!Spec => Monitor!OnlyOldClosed
<1>1. MonitorInv /\ [Monitor!Next]_Monitor!vars
        => [\A c \in Clients : Monitor!MonitorCloses(c) => age[c] > MaxHeartBeat]_Monitor!vars
  BY ClosesOldStep
<1> QED BY <1>1, MonitorInvariant, PTL DEF Monitor!Spec, Monitor!OnlyOldClosed
=============================================================================
