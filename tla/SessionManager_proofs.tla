----------------------- MODULE SessionManager_proofs -----------------------
(***************************************************************************)
(* The safety properties of SessionManager and its refinement of           *)
(* SessionTable, for any number of threads, addresses and connections.     *)
(*                                                                         *)
(* IInv, the inductive invariant, adds to the properties what a thread     *)
(* knows at each statement: the call it is in (CallsInv), the lock scopes  *)
(* it has open (LockInv), whether its session is in the list (ListInv),    *)
(* how far the count is from the list (CountInv) and what the memory of    *)
(* its session holds (ObjectInv).  One lemma per action shows that a step  *)
(* of the action preserves it.                                             *)
(***************************************************************************)
EXTENDS SessionManager, FiniteSetTheorems, TLAPS

\* The labels, the lock and the tuples of variables are expanded everywhere.
USE ConstantsAssumption
    DEF Goto, Lock, Unlock, LockAndGoto, BeginDelete, AfterClose, Free, Scopes,
        Evicting, Labels, LockedLabels, FreeLabels, AddLabels, GetLabels,
        ForceLabels, CloseLabels, Calls, Threads,
        lockVars, listVars, objectVars, threadVars, historyVars

\* While a thread is inside the lock no other one is, nor in a nested delete.
LEMMA HolderIsAlone ==
  ASSUME IInv, NEW t \in Threads, pc[t] \in LockedLabels, NEW u \in Threads, u # t
  PROVE  pc[u] \notin LockedLabels /\ ~nested[u]
BY DEF IInv, TypeOK, LockInv, LockMatchesScopes

\* Steps of control alone.
LEMMA DataUnchanged ==
  ASSUME IInv, UNCHANGED <<listVars, objectVars, historyVars>>
  PROVE  /\ IdsInv' /\ WithinCapacity' /\ ListedIdsDistinct'
         /\ FreedOnceByClosers' /\ AdmittedSocketsClosed'
BY DEF IInv, IdsInv, WithinCapacity, ListedIdsDistinct, FreedOnceByClosers,
       AdmittedSocketsClosed

-----------------------------------------------------------------------------
(* IOCPServer::OnAccept and SessionManager::AddSession.                    *)

\* A new object takes memory that is free, and nothing in the list is.
LEMMA AcceptSessionStep ==
  ASSUME NEW t \in Threads, NEW s \in Sessions, IInv, AcceptSession(t, s)
  PROVE  IInv'
<1> USE DEF IInv, AcceptSession
<1>1. TypeOK'
  BY DEF TypeOK, CallsInv, LockInv, LockMatchesScopes, ListInv, CountInv
<1>2. CallsInv' /\ LockInv'
  BY DEF TypeOK, CallsInv, ListInv, LockInv, LockMatchesScopes
<1>3. ListInv'
  BY DEF TypeOK, CallsInv, LockInv, LockMatchesScopes, ListInv,
    ListedSessionsUsable
<1>4. CountInv'
  BY DEF TypeOK, LockInv, LockMatchesScopes, ListInv, CountInv
<1>5. ObjectInv' /\ ListedSessionsUsable'
  BY DEF TypeOK, CallsInv, LockInv, LockMatchesScopes, ListInv, ObjectInv,
    ListedSessionsUsable
<1>6. IdsInv' /\ ListedIdsDistinct'
  BY DEF TypeOK, CallsInv, IdsInv, ListInv, ListedSessionsUsable,
    ListedIdsDistinct
<1>7. WithinCapacity'
  BY DEF CountInv, WithinCapacity
<1>8. FreedOnceByClosers' /\ AdmittedSocketsClosed'
  BY DEF TypeOK, CallsInv, ObjectInv, FreedOnceByClosers, AdmittedSocketsClosed
<1> QED BY <1>1, <1>2, <1>3, <1>4, <1>5, <1>6, <1>7, <1>8

LEMMA AddSessionLockStep ==
  ASSUME NEW t \in Threads, IInv, AddSessionLock(t)
  PROVE  IInv'
<1> USE DEF IInv, AddSessionLock
<1>1. TypeOK' /\ CallsInv'
  BY DEF TypeOK, CallsInv, LockInv, LockMatchesScopes, ListInv, CountInv
<1>2. LockInv'
  BY DEF TypeOK, CallsInv, LockInv, LockMatchesScopes
<1>3. ListInv' /\ CountInv'
  BY DEF TypeOK, CallsInv, LockInv, LockMatchesScopes, ListInv,
    ListedSessionsUsable, CountInv
<1>4. ObjectInv' /\ ListedSessionsUsable'
  BY DEF TypeOK, CallsInv, LockInv, LockMatchesScopes, ListInv, ObjectInv,
    ListedSessionsUsable
<1> QED BY <1>1, <1>2, <1>3, <1>4, DataUnchanged

LEMMA AddSessionCheckStep ==
  ASSUME NEW t \in Threads, IInv, AddSessionCheck(t)
  PROVE  IInv'
<1> USE DEF IInv, AddSessionCheck
<1>1. TypeOK' /\ CallsInv'
  BY DEF TypeOK, CallsInv, LockInv, LockMatchesScopes, ListInv, CountInv
<1>2. LockInv'
  BY DEF TypeOK, CallsInv, LockInv, LockMatchesScopes
<1>3. ListInv'
  BY DEF TypeOK, CallsInv, LockInv, LockMatchesScopes, ListInv,
    ListedSessionsUsable
<1>4. CountInv'
  <2>1. sessionCount = Cardinality(sessionList) /\ Cardinality(sessionList) \in Nat
    BY HolderIsAlone, FS_CardinalityType DEF CountInv
  <2> QED BY <2>1, HolderIsAlone DEF CountInv, TypeOK, HasRoom
<1>5. ObjectInv' /\ ListedSessionsUsable'
  BY DEF TypeOK, CallsInv, LockInv, LockMatchesScopes, ListInv, ObjectInv,
    ListedSessionsUsable
<1> QED BY <1>1, <1>2, <1>3, <1>4, <1>5, DataUnchanged

\* The list grows by the session the check found room for.
LEMMA AddSessionPushStep ==
  ASSUME NEW t \in Threads, IInv, AddSessionPush(t)
  PROVE  IInv'
<1> USE DEF IInv, AddSessionPush
<1>1. TypeOK'
  BY DEF TypeOK, CallsInv, LockInv, LockMatchesScopes, ListInv, CountInv
<1>2. CallsInv' /\ LockInv'
  BY DEF TypeOK, CallsInv, ListInv, LockInv, LockMatchesScopes
<1>3. ListInv'
  BY DEF TypeOK, CallsInv, LockInv, LockMatchesScopes, ListInv,
    ListedSessionsUsable
<1>4. CountInv'
  <2>1. /\ sessionCount = Cardinality(sessionList) /\ Cardinality(sessionList) \in Nat
        /\ IsFiniteSet(sessionList)
    BY HolderIsAlone, FS_CardinalityType DEF CountInv
  <2>2. IsFiniteSet(sessionList') /\ Cardinality(sessionList') = Cardinality(sessionList) + 1
    BY <2>1, FS_AddElement DEF ListInv
  <2>3. pc'[t] = "add_count" /\ \A u \in Threads \ {t} : pc'[u] \notin LockedLabels
    BY HolderIsAlone DEF TypeOK
  <2>4. sessionCount' = Cardinality(sessionList') - 1
    BY <2>1, <2>2
  <2> HIDE DEF AddSessionPush
  <2> QED BY <2>2, <2>3, <2>4 DEF CountInv
<1>5. ObjectInv' /\ ListedSessionsUsable'
  BY DEF TypeOK, CallsInv, LockInv, LockMatchesScopes, ListInv, ObjectInv,
    ListedSessionsUsable
<1>6. IdsInv' /\ ListedIdsDistinct'
  BY DEF TypeOK, CallsInv, IdsInv, ListInv, ListedSessionsUsable,
    ListedIdsDistinct
<1>7. WithinCapacity'
  <2>1. Cardinality(sessionList') = Cardinality(sessionList) + 1
    BY FS_AddElement DEF ListInv, CountInv
  <2> QED BY <2>1, FS_CardinalityType DEF CountInv, WithinCapacity
<1>8. FreedOnceByClosers' /\ AdmittedSocketsClosed'
  BY DEF TypeOK, CallsInv, ObjectInv, FreedOnceByClosers, AdmittedSocketsClosed
<1> QED BY <1>1, <1>2, <1>3, <1>4, <1>5, <1>6, <1>7, <1>8

LEMMA AddSessionCountStep ==
  ASSUME NEW t \in Threads, IInv, AddSessionCount(t)
  PROVE  IInv'
<1> USE DEF IInv, AddSessionCount
<1>1. TypeOK'
  BY DEF TypeOK, CallsInv, LockInv, LockMatchesScopes, ListInv, CountInv
<1>2. CallsInv' /\ LockInv'
  BY DEF TypeOK, CallsInv, ListInv, LockInv, LockMatchesScopes
<1>3. ListInv'
  BY DEF TypeOK, CallsInv, LockInv, LockMatchesScopes, ListInv,
    ListedSessionsUsable
<1>4. CountInv'
  BY FS_CardinalityType DEF TypeOK, LockInv, LockMatchesScopes, ListInv,
    CountInv
<1>5. ObjectInv' /\ ListedSessionsUsable'
  BY DEF TypeOK, CallsInv, LockInv, LockMatchesScopes, ListInv, ObjectInv,
    ListedSessionsUsable
<1>6. IdsInv' /\ ListedIdsDistinct'
  BY DEF TypeOK, CallsInv, IdsInv, ListInv, ListedSessionsUsable,
    ListedIdsDistinct
<1>7. WithinCapacity'
  BY DEF CountInv, WithinCapacity
<1>8. FreedOnceByClosers' /\ AdmittedSocketsClosed'
  BY DEF TypeOK, CallsInv, ObjectInv, FreedOnceByClosers, AdmittedSocketsClosed
<1> QED BY <1>1, <1>2, <1>3, <1>4, <1>5, <1>6, <1>7, <1>8

LEMMA AddSessionUnlockStep ==
  ASSUME NEW t \in Threads, IInv, AddSessionUnlock(t)
  PROVE  IInv'
<1> USE DEF IInv, AddSessionUnlock
<1>1. TypeOK' /\ CallsInv'
  BY DEF TypeOK, CallsInv, LockInv, LockMatchesScopes, ListInv, CountInv
<1>2. LockInv'
  BY DEF TypeOK, CallsInv, LockInv, LockMatchesScopes
<1>3. ListInv' /\ CountInv'
  BY DEF TypeOK, CallsInv, LockInv, LockMatchesScopes, ListInv,
    ListedSessionsUsable, CountInv
<1>4. ObjectInv' /\ ListedSessionsUsable'
  BY DEF TypeOK, CallsInv, LockInv, LockMatchesScopes, ListInv, ObjectInv,
    ListedSessionsUsable
<1> QED BY <1>1, <1>2, <1>3, <1>4, DataUnchanged

\* From here on the accept thread may delete a session that is in the list.
LEMMA AttachStep ==
  ASSUME NEW t \in Threads, IInv, Attach(t)
  PROVE  IInv'
<1> USE DEF IInv, Attach
<1>1. TypeOK' /\ CallsInv'
  BY DEF TypeOK, CallsInv, LockInv, LockMatchesScopes, ListInv, CountInv
<1>2. LockInv'
  BY DEF TypeOK, CallsInv, LockInv, LockMatchesScopes
<1>3. ListInv' /\ CountInv'
  BY DEF TypeOK, CallsInv, LockInv, LockMatchesScopes, ListInv,
    ListedSessionsUsable, CountInv
<1>4. ObjectInv' /\ ListedSessionsUsable'
  BY DEF TypeOK, CallsInv, LockInv, LockMatchesScopes, ListInv, ObjectInv,
    ListedSessionsUsable
<1> QED BY <1>1, <1>2, <1>3, <1>4, DataUnchanged

-----------------------------------------------------------------------------
(* GetSession and the callers of CloseSession and ForceCloseSession.       *)

LEMMA TakePointerStep ==
  ASSUME NEW t \in Threads, NEW s \in Sessions, IInv, TakePointer(t, s)
  PROVE  IInv'
<1> USE DEF IInv, TakePointer
<1>1. TypeOK' /\ CallsInv'
  BY DEF TypeOK, CallsInv, LockInv, LockMatchesScopes, ListInv, CountInv
<1>2. LockInv'
  BY DEF TypeOK, CallsInv, LockInv, LockMatchesScopes
<1>3. ListInv' /\ CountInv'
  BY DEF TypeOK, CallsInv, LockInv, LockMatchesScopes, ListInv,
    ListedSessionsUsable, CountInv
<1>4. ObjectInv' /\ ListedSessionsUsable'
  BY DEF TypeOK, CallsInv, LockInv, LockMatchesScopes, ListInv, ObjectInv,
    ListedSessionsUsable
<1> QED BY <1>1, <1>2, <1>3, <1>4, DataUnchanged

LEMMA GetSessionLockStep ==
  ASSUME NEW t \in Threads, IInv, GetSessionLock(t)
  PROVE  IInv'
<1> USE DEF IInv, GetSessionLock
<1>1. TypeOK' /\ CallsInv'
  BY DEF TypeOK, CallsInv, LockInv, LockMatchesScopes, ListInv, CountInv
<1>2. LockInv'
  BY DEF TypeOK, CallsInv, LockInv, LockMatchesScopes
<1>3. ListInv' /\ CountInv'
  BY DEF TypeOK, CallsInv, LockInv, LockMatchesScopes, ListInv,
    ListedSessionsUsable, CountInv
<1>4. ObjectInv' /\ ListedSessionsUsable'
  BY DEF TypeOK, CallsInv, LockInv, LockMatchesScopes, ListInv, ObjectInv,
    ListedSessionsUsable
<1> QED BY <1>1, <1>2, <1>3, <1>4, DataUnchanged

LEMMA GetSessionSearchStep ==
  ASSUME NEW t \in Threads, NEW key \in 1 .. SeedLimit, IInv, GetSessionSearch(t, key)
  PROVE  IInv'
<1> USE DEF IInv, GetSessionSearch
<1>1. TypeOK' /\ CallsInv'
  BY DEF TypeOK, CallsInv, LockInv, LockMatchesScopes, ListInv, CountInv
<1>2. LockInv'
  BY DEF TypeOK, CallsInv, LockInv, LockMatchesScopes
<1>3. ListInv' /\ CountInv'
  BY DEF TypeOK, CallsInv, LockInv, LockMatchesScopes, ListInv,
    ListedSessionsUsable, CountInv
<1>4. ObjectInv' /\ ListedSessionsUsable'
  BY DEF TypeOK, CallsInv, LockInv, LockMatchesScopes, ListInv, ObjectInv,
    ListedSessionsUsable
<1> QED BY <1>1, <1>2, <1>3, <1>4, DataUnchanged

LEMMA GetSessionUnlockStep ==
  ASSUME NEW t \in Threads, IInv, GetSessionUnlock(t)
  PROVE  IInv'
<1> USE DEF IInv, GetSessionUnlock
<1>1. TypeOK' /\ CallsInv'
  BY DEF TypeOK, CallsInv, LockInv, LockMatchesScopes, ListInv, CountInv
<1>2. LockInv'
  BY DEF TypeOK, CallsInv, LockInv, LockMatchesScopes
<1>3. ListInv' /\ CountInv'
  BY DEF TypeOK, CallsInv, LockInv, LockMatchesScopes, ListInv,
    ListedSessionsUsable, CountInv
<1>4. ObjectInv' /\ ListedSessionsUsable'
  BY DEF TypeOK, CallsInv, LockInv, LockMatchesScopes, ListInv, ObjectInv,
    ListedSessionsUsable
<1> QED BY <1>1, <1>2, <1>3, <1>4, DataUnchanged

LEMMA CallCloseSessionStep ==
  ASSUME NEW t \in Threads, IInv, CallCloseSession(t)
  PROVE  IInv'
<1> USE DEF IInv, CallCloseSession
<1>1. TypeOK' /\ CallsInv'
  BY DEF TypeOK, CallsInv, LockInv, LockMatchesScopes, ListInv, CountInv
<1>2. LockInv'
  BY DEF TypeOK, CallsInv, LockInv, LockMatchesScopes
<1>3. ListInv' /\ CountInv'
  BY DEF TypeOK, CallsInv, LockInv, LockMatchesScopes, ListInv,
    ListedSessionsUsable, CountInv
<1>4. ObjectInv' /\ ListedSessionsUsable'
  BY DEF TypeOK, CallsInv, LockInv, LockMatchesScopes, ListInv, ObjectInv,
    ListedSessionsUsable
<1> QED BY <1>1, <1>2, <1>3, <1>4, DataUnchanged

LEMMA CallForceCloseSessionStep ==
  ASSUME NEW t \in Threads, IInv, CallForceCloseSession(t)
  PROVE  IInv'
<1> USE DEF IInv, CallForceCloseSession
<1>1. TypeOK' /\ CallsInv'
  BY DEF TypeOK, CallsInv, LockInv, LockMatchesScopes, ListInv, CountInv
<1>2. LockInv'
  BY DEF TypeOK, CallsInv, LockInv, LockMatchesScopes
<1>3. ListInv' /\ CountInv'
  BY DEF TypeOK, CallsInv, LockInv, LockMatchesScopes, ListInv,
    ListedSessionsUsable, CountInv
<1>4. ObjectInv' /\ ListedSessionsUsable'
  BY DEF TypeOK, CallsInv, LockInv, LockMatchesScopes, ListInv, ObjectInv,
    ListedSessionsUsable
<1> QED BY <1>1, <1>2, <1>3, <1>4, DataUnchanged

-----------------------------------------------------------------------------
(* ForceCloseSession.                                                      *)

LEMMA ForceCloseLockStep ==
  ASSUME NEW t \in Threads, IInv, ForceCloseLock(t)
  PROVE  IInv'
<1> USE DEF IInv, ForceCloseLock
<1>1. TypeOK' /\ CallsInv'
  BY DEF TypeOK, CallsInv, LockInv, LockMatchesScopes, ListInv, CountInv
<1>2. LockInv'
  BY DEF TypeOK, CallsInv, LockInv, LockMatchesScopes
<1>3. ListInv' /\ CountInv'
  BY DEF TypeOK, CallsInv, LockInv, LockMatchesScopes, ListInv,
    ListedSessionsUsable, CountInv
<1>4. ObjectInv' /\ ListedSessionsUsable'
  BY DEF TypeOK, CallsInv, LockInv, LockMatchesScopes, ListInv, ObjectInv,
    ListedSessionsUsable
<1> QED BY <1>1, <1>2, <1>3, <1>4, DataUnchanged

LEMMA ForceCloseLingerStep ==
  ASSUME NEW t \in Threads, IInv, ForceCloseLinger(t)
  PROVE  IInv'
<1> USE DEF IInv, ForceCloseLinger
<1>1. TypeOK' /\ CallsInv'
  BY DEF TypeOK, CallsInv, LockInv, LockMatchesScopes, ListInv, CountInv
<1>2. LockInv'
  BY DEF TypeOK, CallsInv, LockInv, LockMatchesScopes
<1>3. ListInv' /\ CountInv'
  BY DEF TypeOK, CallsInv, LockInv, LockMatchesScopes, ListInv,
    ListedSessionsUsable, CountInv
<1>4. ObjectInv' /\ ListedSessionsUsable'
  BY DEF TypeOK, CallsInv, LockInv, LockMatchesScopes, ListInv, ObjectInv,
    ListedSessionsUsable
<1> QED BY <1>1, <1>2, <1>3, <1>4, DataUnchanged

LEMMA ForceCloseUnlockStep ==
  ASSUME NEW t \in Threads, IInv, ForceCloseUnlock(t)
  PROVE  IInv'
<1> USE DEF IInv, ForceCloseUnlock
<1>1. TypeOK' /\ CallsInv'
  BY DEF TypeOK, CallsInv, LockInv, LockMatchesScopes, ListInv, CountInv
<1>2. LockInv'
  BY DEF TypeOK, CallsInv, LockInv, LockMatchesScopes
<1>3. ListInv' /\ CountInv'
  BY DEF TypeOK, CallsInv, LockInv, LockMatchesScopes, ListInv,
    ListedSessionsUsable, CountInv
<1>4. ObjectInv' /\ ListedSessionsUsable'
  BY DEF TypeOK, CallsInv, LockInv, LockMatchesScopes, ListInv, ObjectInv,
    ListedSessionsUsable
<1> QED BY <1>1, <1>2, <1>3, <1>4, DataUnchanged

-----------------------------------------------------------------------------
(* CloseSession and the delete in OnAccept.                                *)

LEMMA CloseSessionLockStep ==
  ASSUME NEW t \in Threads, IInv, CloseSessionLock(t)
  PROVE  IInv'
<1> USE DEF IInv, CloseSessionLock
<1>1. TypeOK' /\ CallsInv'
  BY DEF TypeOK, CallsInv, LockInv, LockMatchesScopes, ListInv, CountInv
<1>2. LockInv'
  BY DEF TypeOK, CallsInv, LockInv, LockMatchesScopes
<1>3. ListInv' /\ CountInv'
  BY DEF TypeOK, CallsInv, LockInv, LockMatchesScopes, ListInv,
    ListedSessionsUsable, CountInv
<1>4. ObjectInv' /\ ListedSessionsUsable'
  BY DEF TypeOK, CallsInv, LockInv, LockMatchesScopes, ListInv, ObjectInv,
    ListedSessionsUsable
<1> QED BY <1>1, <1>2, <1>3, <1>4, DataUnchanged

LEMMA CloseSessionFindStep ==
  ASSUME NEW t \in Threads, IInv, CloseSessionFind(t)
  PROVE  IInv'
<1> USE DEF IInv, CloseSessionFind
<1>1. TypeOK' /\ CallsInv'
  BY DEF TypeOK, CallsInv, LockInv, LockMatchesScopes, ListInv, CountInv
<1>2. LockInv'
  BY DEF TypeOK, CallsInv, LockInv, LockMatchesScopes
<1>3. ListInv' /\ CountInv'
  BY DEF TypeOK, CallsInv, LockInv, LockMatchesScopes, ListInv,
    ListedSessionsUsable, CountInv
<1>4. ObjectInv' /\ ListedSessionsUsable'
  BY DEF TypeOK, CallsInv, LockInv, LockMatchesScopes, ListInv, ObjectInv,
    ListedSessionsUsable
<1> QED BY <1>1, <1>2, <1>3, <1>4, DataUnchanged

LEMMA CloseSessionSocketStep ==
  ASSUME NEW t \in Threads, IInv, CloseSessionSocket(t)
  PROVE  IInv'
<1> USE DEF IInv, CloseSessionSocket
<1>1. TypeOK'
  BY DEF TypeOK, CallsInv, LockInv, LockMatchesScopes, ListInv, CountInv
<1>2. CallsInv' /\ LockInv'
  BY DEF TypeOK, CallsInv, ListInv, LockInv, LockMatchesScopes
<1>3. ListInv'
  BY DEF TypeOK, CallsInv, LockInv, LockMatchesScopes, ListInv,
    ListedSessionsUsable
<1>4. CountInv'
  BY DEF TypeOK, LockInv, LockMatchesScopes, ListInv, CountInv
<1>5. ObjectInv' /\ ListedSessionsUsable'
  BY DEF TypeOK, CallsInv, LockInv, LockMatchesScopes, ListInv, ObjectInv,
    ListedSessionsUsable
<1>6. IdsInv' /\ ListedIdsDistinct'
  BY DEF TypeOK, CallsInv, IdsInv, ListInv, ListedSessionsUsable,
    ListedIdsDistinct
<1>7. WithinCapacity'
  BY DEF CountInv, WithinCapacity
<1>8. FreedOnceByClosers' /\ AdmittedSocketsClosed'
  BY DEF TypeOK, CallsInv, ObjectInv, FreedOnceByClosers, AdmittedSocketsClosed
<1> QED BY <1>1, <1>2, <1>3, <1>4, <1>5, <1>6, <1>7, <1>8

\* The list shrinks by the session that was found in it.
LEMMA CloseSessionRemoveStep ==
  ASSUME NEW t \in Threads, IInv, CloseSessionRemove(t)
  PROVE  IInv'
<1> USE DEF IInv, CloseSessionRemove
<1>1. TypeOK'
  BY DEF TypeOK, CallsInv, LockInv, LockMatchesScopes, ListInv, CountInv
<1>2. CallsInv' /\ LockInv'
  BY DEF TypeOK, CallsInv, ListInv, LockInv, LockMatchesScopes
<1>3. ListInv'
  BY DEF TypeOK, CallsInv, LockInv, LockMatchesScopes, ListInv,
    ListedSessionsUsable
<1>4. CountInv'
  <2>1. /\ sessionCount = Cardinality(sessionList) /\ Cardinality(sessionList) \in Nat
        /\ IsFiniteSet(sessionList)
    BY HolderIsAlone, FS_CardinalityType DEF CountInv
  <2>2. IsFiniteSet(sessionList') /\ Cardinality(sessionList') = Cardinality(sessionList) - 1
    BY <2>1, FS_RemoveElement DEF ListInv
  <2>3. pc'[t] = "close_count" /\ \A u \in Threads \ {t} : pc'[u] \notin LockedLabels
    BY HolderIsAlone DEF TypeOK
  <2>4. sessionCount' = Cardinality(sessionList') + 1
    BY <2>1, <2>2
  <2> HIDE DEF CloseSessionRemove
  <2> QED BY <2>2, <2>3, <2>4 DEF CountInv
<1>5. ObjectInv' /\ ListedSessionsUsable'
  BY DEF TypeOK, CallsInv, LockInv, LockMatchesScopes, ListInv, ObjectInv,
    ListedSessionsUsable, ListedIdsDistinct
<1>6. IdsInv' /\ ListedIdsDistinct'
  BY DEF TypeOK, CallsInv, IdsInv, ListInv, ListedSessionsUsable,
    ListedIdsDistinct
<1>7. WithinCapacity'
  <2>1. Cardinality(sessionList') = Cardinality(sessionList) - 1
    BY FS_RemoveElement DEF ListInv, CountInv
  <2> QED BY <2>1, FS_CardinalityType DEF CountInv, WithinCapacity
<1>8. FreedOnceByClosers' /\ AdmittedSocketsClosed'
  BY DEF TypeOK, CallsInv, ObjectInv, FreedOnceByClosers, AdmittedSocketsClosed
<1> QED BY <1>1, <1>2, <1>3, <1>4, <1>5, <1>6, <1>7, <1>8

\* The count catches up with the list.
LEMMA CloseSessionCountStep ==
  ASSUME NEW t \in Threads, IInv, CloseSessionCount(t)
  PROVE  IInv'
<1> USE DEF IInv, CloseSessionCount
<1>1. TypeOK'
  BY FS_CardinalityType DEF TypeOK, CallsInv, LockInv, LockMatchesScopes,
    ListInv, CountInv
<1>2. CallsInv' /\ LockInv'
  BY DEF TypeOK, CallsInv, ListInv, LockInv, LockMatchesScopes
<1>3. ListInv'
  BY DEF TypeOK, CallsInv, LockInv, LockMatchesScopes, ListInv,
    ListedSessionsUsable
<1>4. CountInv'
  <2>1. sessionCount = Cardinality(sessionList) + 1 /\ Cardinality(sessionList) \in Nat
    BY FS_CardinalityType DEF CountInv
  <2>2. sessionCount' = Cardinality(sessionList)
    BY <2>1
  <2> QED BY <2>1, <2>2, HolderIsAlone DEF CountInv, TypeOK
<1>5. ObjectInv' /\ ListedSessionsUsable'
  BY DEF TypeOK, CallsInv, LockInv, LockMatchesScopes, ListInv, ObjectInv,
    ListedSessionsUsable
<1>6. IdsInv' /\ ListedIdsDistinct'
  BY DEF TypeOK, CallsInv, IdsInv, ListInv, ListedSessionsUsable,
    ListedIdsDistinct
<1>7. WithinCapacity'
  BY DEF CountInv, WithinCapacity
<1>8. FreedOnceByClosers' /\ AdmittedSocketsClosed'
  BY DEF TypeOK, CallsInv, ObjectInv, FreedOnceByClosers, AdmittedSocketsClosed
<1> QED BY <1>1, <1>2, <1>3, <1>4, <1>5, <1>6, <1>7, <1>8

LEMMA CloseSessionDeleteStep ==
  ASSUME NEW t \in Threads, IInv, CloseSessionDelete(t)
  PROVE  IInv'
<1> USE DEF IInv, CloseSessionDelete
<1>1. TypeOK' /\ CallsInv'
  BY DEF TypeOK, CallsInv, LockInv, LockMatchesScopes, ListInv, CountInv
<1>2. LockInv'
  BY DEF TypeOK, CallsInv, LockInv, LockMatchesScopes
<1>3. ListInv' /\ CountInv'
  BY DEF TypeOK, CallsInv, LockInv, LockMatchesScopes, ListInv,
    ListedSessionsUsable, CountInv
<1>4. ObjectInv' /\ ListedSessionsUsable'
  BY DEF TypeOK, CallsInv, LockInv, LockMatchesScopes, ListInv, ObjectInv,
    ListedSessionsUsable
<1> QED BY <1>1, <1>2, <1>3, <1>4, DataUnchanged

\* Inside the lock the object is still there: nobody else evicts it.
LEMMA CloseSessionFreeStep ==
  ASSUME NEW t \in Threads, IInv, CloseSessionFree(t)
  PROVE  IInv'
<1> USE DEF IInv, CloseSessionFree
<1>1. TypeOK'
  <2>1. [by |-> t, id |-> id[arg[t]]] \in [by : Threads, id : Nat] /\ id[arg[t]] \in Nat
    BY DEF TypeOK, ListInv, CallsInv
  <2>2. doubleFreed' \subseteq [by : Threads, id : Nat] /\ leaked' \subseteq Nat
    BY <2>1 DEF TypeOK
  <2> QED BY <2>2 DEF TypeOK, CallsInv, ListInv
<1>2. CallsInv' /\ LockInv'
  BY DEF TypeOK, CallsInv, ListInv, LockInv, LockMatchesScopes
<1>3. ListInv'
  BY DEF TypeOK, CallsInv, LockInv, LockMatchesScopes, ListInv,
    ListedSessionsUsable
<1>4. CountInv'
  BY DEF TypeOK, LockInv, LockMatchesScopes, ListInv, CountInv
<1>5. ObjectInv' /\ ListedSessionsUsable'
  BY DEF TypeOK, CallsInv, LockInv, LockMatchesScopes, ListInv, ObjectInv,
    ListedSessionsUsable
<1>6. IdsInv' /\ ListedIdsDistinct'
  BY DEF TypeOK, CallsInv, IdsInv, ListInv, ListedSessionsUsable,
    ListedIdsDistinct
<1>7. WithinCapacity'
  BY DEF CountInv, WithinCapacity
<1>8. FreedOnceByClosers' /\ AdmittedSocketsClosed'
  BY DEF TypeOK, CallsInv, ObjectInv, FreedOnceByClosers, AdmittedSocketsClosed
<1> QED BY <1>1, <1>2, <1>3, <1>4, <1>5, <1>6, <1>7, <1>8

\* After a session with an id is closed by its OnAccept, its memory is free.
LEMMA CloseSessionUnlockStep ==
  ASSUME NEW t \in Threads, IInv, CloseSessionUnlock(t)
  PROVE  IInv'
<1> USE DEF IInv, CloseSessionUnlock
<1>1. TypeOK' /\ CallsInv'
  BY DEF TypeOK, CallsInv, LockInv, LockMatchesScopes, ListInv, CountInv
<1>2. LockInv'
  BY DEF TypeOK, CallsInv, LockInv, LockMatchesScopes
<1>3. ListInv' /\ CountInv'
  BY DEF TypeOK, CallsInv, LockInv, LockMatchesScopes, ListInv,
    ListedSessionsUsable, CountInv
<1>4. ObjectInv' /\ ListedSessionsUsable'
  BY DEF TypeOK, CallsInv, LockInv, LockMatchesScopes, ListInv, ObjectInv,
    ListedSessionsUsable
<1> QED BY <1>1, <1>2, <1>3, <1>4, DataUnchanged

\* The accept thread frees outside the lock, memory no other thread evicts.
LEMMA DeleteFreeStep ==
  ASSUME NEW t \in Threads, IInv, DeleteFree(t)
  PROVE  IInv'
<1> USE DEF IInv, DeleteFree
<1>1. TypeOK'
  <2>1. [by |-> t, id |-> id[arg[t]]] \in [by : Threads, id : Nat] /\ id[arg[t]] \in Nat
    BY DEF TypeOK, ListInv, CallsInv
  <2>2. doubleFreed' \subseteq [by : Threads, id : Nat] /\ leaked' \subseteq Nat
    BY <2>1 DEF TypeOK
  <2> QED BY <2>2 DEF TypeOK, CallsInv, ListInv
<1>2. CallsInv' /\ LockInv'
  BY DEF TypeOK, CallsInv, ListInv, LockInv, LockMatchesScopes
<1>3. ListInv'
  BY DEF TypeOK, CallsInv, LockInv, LockMatchesScopes, ListInv,
    ListedSessionsUsable
<1>4. CountInv'
  BY DEF TypeOK, LockInv, LockMatchesScopes, ListInv, CountInv, CallsInv
<1>5. ObjectInv' /\ ListedSessionsUsable'
  BY DEF TypeOK, CallsInv, LockInv, LockMatchesScopes, ListInv, ObjectInv,
    ListedSessionsUsable
<1>6. IdsInv' /\ ListedIdsDistinct'
  BY DEF TypeOK, CallsInv, IdsInv, ListInv, ListedSessionsUsable,
    ListedIdsDistinct
<1>7. WithinCapacity'
  BY DEF CountInv, WithinCapacity, CallsInv
<1>8. FreedOnceByClosers' /\ AdmittedSocketsClosed'
  <2>1. t = AcceptThread /\ arg[t] \in Sessions /\ ~nested[t]
    BY DEF CallsInv
  <2>2. heap[arg[t]] = "live" <=> id[arg[t]] = 0
    BY <2>1 DEF ObjectInv, CallsInv
  <2>3. doubleFreed' \subseteq doubleFreed \cup {[by |-> AcceptThread, id |-> id[arg[t]]]}
        /\ (doubleFreed' # doubleFreed => id[arg[t]] # 0)
    BY <2>1, <2>2
  <2>4. leaked' \subseteq leaked \cup {0}
    BY <2>1, <2>2
  <2>5. FreedOnceByClosers'
    BY <2>3 DEF FreedOnceByClosers
  <2> QED BY <2>4, <2>5 DEF AdmittedSocketsClosed
<1> QED BY <1>1, <1>2, <1>3, <1>4, <1>5, <1>6, <1>7, <1>8

-----------------------------------------------------------------------------
(* The inductive invariant.                                                *)

LEMMA InitIInv == Init => IInv
<1> SUFFICES ASSUME Init PROVE IInv
  OBVIOUS
<1> USE DEF Init
<1>1. TypeOK /\ CallsInv /\ LockInv /\ ListInv
  BY DEF TypeOK, CallsInv, LockInv, LockMatchesScopes, ListInv
<1>2. CountInv /\ WithinCapacity
  BY FS_EmptySet DEF CountInv, WithinCapacity
<1>3. ObjectInv /\ IdsInv /\ ListedSessionsUsable /\ ListedIdsDistinct
  BY DEF ObjectInv, IdsInv, ListedSessionsUsable, ListedIdsDistinct
<1>4. FreedOnceByClosers /\ AdmittedSocketsClosed
  BY DEF FreedOnceByClosers, AdmittedSocketsClosed
<1> QED BY <1>1, <1>2, <1>3, <1>4 DEF IInv

LEMMA StutterIInv == IInv /\ UNCHANGED vars => IInv'
<1> SUFFICES ASSUME IInv, UNCHANGED vars PROVE IInv'
  OBVIOUS
<1> USE DEF IInv, vars
<1>1. TypeOK' /\ CallsInv' /\ LockInv' /\ ListInv' /\ CountInv'
  BY DEF TypeOK, CallsInv, LockInv, LockMatchesScopes, ListInv, CountInv
<1>2. ObjectInv' /\ ListedSessionsUsable'
  BY DEF ObjectInv, ListedSessionsUsable
<1> QED BY <1>1, <1>2, DataUnchanged

LEMMA NextIInv == IInv /\ [Next]_vars => IInv'
<1> SUFFICES ASSUME IInv, Next PROVE IInv'
  BY StutterIInv
<1>1. PICK t \in Threads : Running(t) \/ Calling(t)
  BY DEF Next
<1>2. CASE AddSession(t) \/ Attach(t) \/ DeleteFree(t)
  BY <1>2, AddSessionLockStep, AddSessionCheckStep, AddSessionPushStep,
     AddSessionCountStep, AddSessionUnlockStep, AttachStep, DeleteFreeStep
     DEF AddSession
<1>3. CASE CloseSession(t)
  BY <1>3, CloseSessionLockStep, CloseSessionFindStep, CloseSessionSocketStep,
     CloseSessionRemoveStep, CloseSessionCountStep, CloseSessionDeleteStep,
     CloseSessionFreeStep, CloseSessionUnlockStep
     DEF CloseSession
<1>4. CASE ForceCloseSession(t) \/ GetSession(t)
  BY <1>4, ForceCloseLockStep, ForceCloseLingerStep, ForceCloseUnlockStep,
     GetSessionSearchStep, GetSessionUnlockStep
     DEF ForceCloseSession, GetSession
<1>5. CASE Calling(t)
  BY <1>5, AcceptSessionStep, TakePointerStep, GetSessionLockStep,
     CallCloseSessionStep, CallForceCloseSessionStep
     DEF Calling
<1> QED BY <1>1, <1>2, <1>3, <1>4, <1>5 DEF Running

\* The invariant the others follow from, in every execution.
THEOREM Invariance == Spec => []IInv
BY InitIInv, NextIInv, PTL DEF Spec

-----------------------------------------------------------------------------
(* What follows from it.                                                   *)

\* Every variable keeps its type, and sessionCount_ never goes below zero.
THEOREM TypeCorrect == Spec => []TypeOK
<1>1. IInv => TypeOK
  BY DEF IInv
<1> QED BY <1>1, Invariance, PTL

\* lock_ is held by at most one thread, as often as that thread has scopes open.
THEOREM LockDiscipline == Spec => []LockMatchesScopes
<1>1. IInv => LockMatchesScopes
  BY DEF IInv, LockInv
<1> QED BY <1>1, Invariance, PTL

\* sessionCount_ is the length of sessionList_ whenever the lock is free.
THEOREM CountCorrect == Spec => []CountMatchesList
<1>1. IInv => CountMatchesList
  BY DEF IInv, LockInv, LockMatchesScopes, CountInv, CountMatchesList, TypeOK
<1> QED BY <1>1, Invariance, PTL

\* The list never holds more than maxConnection_ + 1 sessions.
THEOREM CapacityBound == Spec => []WithinCapacity
<1>1. IInv => WithinCapacity
  BY DEF IInv
<1> QED BY <1>1, Invariance, PTL

\* A session in the list is a live object with an open socket, unless its
\* closer has come as far as removing it.
THEOREM ListedUsable == Spec => []ListedSessionsUsable
<1>1. IInv => ListedSessionsUsable
  BY DEF IInv
<1> QED BY <1>1, Invariance, PTL

\* No two sessions in the list have the same id.
THEOREM IdsDistinct == Spec => []ListedIdsDistinct
<1>1. IInv => ListedIdsDistinct
  BY DEF IInv
<1> QED BY <1>1, Invariance, PTL

\* Any number of threads closing a session free it once; only OnAccept's delete
\* of a session it could not attach frees one again.
THEOREM FreedOnce == Spec => []FreedOnceByClosers
<1>1. IInv => FreedOnceByClosers
  BY DEF IInv
<1> QED BY <1>1, Invariance, PTL

\* No session that got an id is freed with its socket open.
THEOREM SocketsClosed == Spec => []AdmittedSocketsClosed
<1>1. IInv => AdmittedSocketsClosed
  BY DEF IInv
<1> QED BY <1>1, Invariance, PTL

-----------------------------------------------------------------------------
(* What a closer is called for.  TargetInv stands beside IInv and needs it:  *)
(* ids are distinct, and whoever is inside the lock is there alone.          *)

\* A session enters the list with an id that no closer has met.
LEMMA TargetAddStep ==
  ASSUME IInv, TargetInv, NEW t \in Threads, AddSessionPush(t)
  PROVE  TargetInv'
<1> SUFFICES ASSUME NEW u \in Closers
             PROVE  /\ meant'[u] < sessionSeed'
                    /\ \A s \in sessionList' : meant'[u] # 0 /\ id'[s] = meant'[u] => s = arg'[u]
                    /\ Returning(u)' => arg'[u] \notin sessionList'
  BY DEF TargetInv
<1> USE DEF IInv, TypeOK, AddSessionPush
<1>1. t # u /\ arg[t] \in Sessions
  BY DEF CallsInv
<1>2. ~Returning(u)'
  BY <1>1, HolderIsAlone DEF Returning
<1> QED BY <1>1, <1>2 DEF TargetInv

\* A closer gets hold of a pointer, or of none.
LEMMA TargetTakeStep ==
  ASSUME IInv, TargetInv, NEW t \in Threads,
         \/ \E s \in Sessions : TakePointer(t, s)
         \/ \E key \in 1..SeedLimit : GetSessionSearch(t, key)
  PROVE  TargetInv'
<1> SUFFICES ASSUME NEW u \in Closers
             PROVE  /\ meant'[u] < sessionSeed'
                    /\ \A s \in sessionList' : meant'[u] # 0 /\ id'[s] = meant'[u] => s = arg'[u]
                    /\ Returning(u)' => arg'[u] \notin sessionList'
  BY DEF TargetInv
<1> USE DEF IInv, TypeOK
<1>1. CASE u # t
  BY <1>1 DEF TargetInv, TakePointer, GetSessionSearch, Returning
<1>2. CASE u = t
  <2>1. ~Returning(u)'
    BY <1>2 DEF TakePointer, GetSessionSearch, Returning
  <2>2. CASE \E s \in Sessions : TakePointer(t, s)
    BY <1>2, <2>1, <2>2 DEF TakePointer, ListedIdsDistinct, IdsInv
  <2>3. CASE \E key \in 1..SeedLimit : GetSessionSearch(t, key)
    BY <1>2, <2>1, <2>3 DEF GetSessionSearch, ListedIdsDistinct, IdsInv
  <2> QED BY <2>2, <2>3
<1> QED BY <1>1, <1>2

\* A closer comes to the end of its call: it has removed its session, or found
\* that it is not in the list.
LEMMA TargetReturnStep ==
  ASSUME IInv, TargetInv, NEW t \in Threads,
         \/ CloseSessionFind(t) \/ CloseSessionFree(t) \/ CloseSessionUnlock(t)
         \/ ForceCloseLinger(t) \/ CloseSessionDelete(t)
  PROVE  TargetInv'
<1> USE DEF IInv, TypeOK
<1>1. UNCHANGED <<sessionList, sessionSeed, id, arg, meant>>
  BY DEF CloseSessionFind, CloseSessionFree, CloseSessionUnlock,
     ForceCloseLinger, CloseSessionDelete
<1>2. ASSUME NEW u \in Closers, Returning(u)'
      PROVE  arg[u] \notin sessionList
  <2>1. CASE u # t
    BY <1>2, <2>1 DEF TargetInv, Returning, CloseSessionFind, CloseSessionFree,
       CloseSessionUnlock, ForceCloseLinger, CloseSessionDelete
  <2>2. CASE u = t
    BY <1>2, <2>2 DEF TargetInv, ListInv, CallsInv, Returning, CloseSessionFind,
       CloseSessionFree, CloseSessionUnlock, ForceCloseLinger, CloseSessionDelete
  <2> QED BY <2>1, <2>2
<1> QED BY <1>1, <1>2 DEF TargetInv

\* No other step lets a session into the list, gives a listed one another id or
\* brings a closer to the end of its call.
LEMMA TargetOtherStep ==
  ASSUME IInv, TargetInv,
         sessionList' \subseteq sessionList, sessionSeed' = sessionSeed,
         \A s \in sessionList' : id'[s] = id[s],
         UNCHANGED meant,
         \A u \in Closers : arg'[u] = arg[u],
         \A u \in Closers : Returning(u)' => Returning(u)
  PROVE  TargetInv'
BY DEF TargetInv

LEMMA TargetNext ==
  ASSUME IInv, TargetInv, [Next]_vars
  PROVE  TargetInv'
<1> USE DEF IInv, TypeOK
<1>1. CASE UNCHANGED vars
  BY <1>1, TargetOtherStep DEF vars, Returning
<1>2. ASSUME NEW t \in Threads, AddSession(t)
      PROVE  TargetInv'
  <2>1. CASE AddSessionPush(t)
    BY <2>1, TargetAddStep
  <2>2. CASE AddSessionLock(t) \/ AddSessionCheck(t) \/ AddSessionCount(t) \/ AddSessionUnlock(t)
    BY <2>2, TargetOtherStep DEF Returning, AddSessionLock, AddSessionCheck,
       AddSessionCount, AddSessionUnlock
  <2> QED BY <1>2, <2>1, <2>2 DEF AddSession
<1>3. ASSUME NEW t \in Threads, CloseSession(t) \/ ForceCloseSession(t)
      PROVE  TargetInv'
  <2>1. CASE \/ CloseSessionFind(t) \/ CloseSessionFree(t) \/ CloseSessionUnlock(t)
             \/ ForceCloseLinger(t) \/ CloseSessionDelete(t)
    BY <2>1, TargetReturnStep
  <2>2. CASE \/ CloseSessionLock(t) \/ CloseSessionSocket(t) \/ CloseSessionRemove(t)
             \/ CloseSessionCount(t) \/ ForceCloseLock(t) \/ ForceCloseUnlock(t)
    BY <2>2, TargetOtherStep DEF Returning, CloseSessionLock, CloseSessionSocket,
       CloseSessionRemove, CloseSessionCount, ForceCloseLock, ForceCloseUnlock
  <2> QED BY <1>3, <2>1, <2>2 DEF CloseSession, ForceCloseSession
<1>4. ASSUME NEW t \in Threads, GetSession(t) \/ Attach(t) \/ DeleteFree(t)
      PROVE  TargetInv'
  <2>1. CASE GetSessionUnlock(t) \/ Attach(t) \/ DeleteFree(t)
    BY <2>1, TargetOtherStep DEF Returning, GetSessionUnlock, Attach, DeleteFree
  <2> QED BY <1>4, <2>1, TargetTakeStep DEF GetSession
<1>5. ASSUME NEW t \in Threads, Calling(t)
      PROVE  TargetInv'
  <2>1. ASSUME NEW s \in Sessions, AcceptSession(t, s)
        PROVE  TargetInv'
    <3>1. s \notin sessionList /\ t \notin Closers
      BY <2>1 DEF AcceptSession, ListedSessionsUsable
    <3> QED BY <2>1, <3>1, TargetOtherStep DEF AcceptSession, Returning
  <2>2. CASE GetSessionLock(t) \/ CallCloseSession(t) \/ CallForceCloseSession(t)
    BY <2>2, TargetOtherStep DEF Returning, GetSessionLock, CallCloseSession,
       CallForceCloseSession
  <2> QED BY <1>5, <2>1, <2>2, TargetTakeStep DEF Calling
<1> QED BY <1>1, <1>2, <1>3, <1>4, <1>5 DEF Next, Running

\* Whoever calls CloseSession or ForceCloseSession finds the client it meant
\* gone from the list when the call returns, whatever the other threads did and
\* whatever the pointer it held had become.
THEOREM TargetGone == Spec => []ClosedTargetGone
<1>1. Init => TargetInv
  BY DEF Init, TargetInv, Returning
<1>2. TargetInv => ClosedTargetGone
  BY DEF TargetInv, ClosedTargetGone
<1> QED BY <1>1, <1>2, TargetNext, Invariance, PTL DEF Spec

-----------------------------------------------------------------------------
(* The manager implements the table of sessions.  Three of its steps change *)
(* the table: a new object, the push_back and the remove.  Every other one  *)
(* leaves the list, the ids and the seed alone.                             *)

\* The instance has a Cardinality of its own.
LEMMA TableCardinality == \A S : Table!Cardinality(S) = Cardinality(S)
BY DEF Table!Cardinality, Cardinality

LEMMA StepSimulation ==
  IInv /\ [Next]_vars => [Table!Next]_(Table!vars)
<1> SUFFICES ASSUME IInv, [Next]_vars, ~UNCHANGED Table!vars
             PROVE  \E s \in Sessions : Table!Construct(s) \/ Table!Admit(s) \/ Table!Evict(s)
  BY DEF Table!Next
<1> USE DEF Table!vars
<1>1. PICK t \in Threads : Running(t) \/ Calling(t)
  BY DEF Next, vars
<1>2. \/ \E s \in Sessions : AcceptSession(t, s)
      \/ AddSessionPush(t)
      \/ CloseSessionRemove(t)
  BY <1>1 DEF Running, Calling, AddSession, AddSessionLock, AddSessionCheck,
     AddSessionCount, AddSessionUnlock, Attach, DeleteFree, CloseSession,
     CloseSessionLock, CloseSessionFind, CloseSessionSocket, CloseSessionCount,
     CloseSessionDelete, CloseSessionFree, CloseSessionUnlock,
     ForceCloseSession, ForceCloseLock, ForceCloseLinger, ForceCloseUnlock,
     GetSession, GetSessionSearch, GetSessionUnlock, TakePointer,
     GetSessionLock, CallCloseSession, CallForceCloseSession
<1>3. ASSUME NEW s \in Sessions, AcceptSession(t, s)
      PROVE  Table!Construct(s)
  BY <1>3 DEF AcceptSession, Table!Construct, IInv, ListedSessionsUsable
<1>4. CASE AddSessionPush(t)
  <2>1. arg[t] \in Sessions \ sessionList /\ Cardinality(sessionList) <= MaxConnection
    BY <1>4 DEF AddSessionPush, IInv, CallsInv, ListInv, CountInv
  <2>2. Table!Admit(arg[t])
    BY <1>4, <2>1, TableCardinality DEF AddSessionPush, Table!Admit
  <2> QED BY <2>1, <2>2
<1>5. CASE CloseSessionRemove(t)
  <2>1. arg[t] \in sessionList /\ arg[t] \in Sessions
    BY <1>5 DEF CloseSessionRemove, IInv, ListInv, TypeOK
  <2>2. Table!Evict(arg[t])
    BY <1>5, <2>1 DEF CloseSessionRemove, Table!Evict
  <2> QED BY <2>1, <2>2
<1> QED BY <1>2, <1>3, <1>4, <1>5

\* Whatever the threads do, the sessions in the list, their ids and the next id
\* behave as the table of SessionTable: an id is handed out once, a session is
\* admitted only when there is room, and it is evicted once.
THEOREM Refinement == Spec => ImplementsSessionTable
<1>1. Init => Table!Init
  BY DEF Init, Table!Init
<1> QED BY <1>1, StepSimulation, Invariance, PTL DEF Spec, ImplementsSessionTable, Table!Spec
=============================================================================
