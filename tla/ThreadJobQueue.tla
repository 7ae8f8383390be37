--------------------------- MODULE ThreadJobQueue ---------------------------
(***************************************************************************)
(* ThreadJobQueue.h: a job queue made of two queues.  Push appends to the  *)
(* write queue; Pop takes from the read queue, and exchanges the two when  *)
(* the read queue has run out.                                             *)
(*                                                                         *)
(* Size and Swap take mLock again; the mutex is recursive and Pop holds it *)
(* then, so that their scopes change nothing.                              *)
(***************************************************************************)
EXTENDS Integers, Sequences

CONSTANTS
  Threads,    \* the threads that push and pop
  Items,      \* the jobs
  MaxPushes,  \* bound: how many jobs are pushed
  NoThread, NoItem

ASSUME ConstantsAssumption ==
  /\ NoThread \notin Threads
  /\ NoItem \notin Items
  /\ MaxPushes \in Nat

VARIABLES
  mQueue,    \* the two queues
  writeAt,   \* which of them mWriteQueue points to; mReadqueue is the other
  owner,     \* the thread that holds mLock
  pc, job,   \* a thread: its statement and the job it pushes or pops
  pushed,    \* how many jobs were pushed
  taken      \* history: the jobs Pop returned

vars == <<mQueue, writeAt, owner, pc, job, pushed, taken>>

readAt == 1 - writeAt

Init ==
  /\ mQueue = [i \in 0 .. 1 |-> <<>>]
  /\ writeAt = 0
  /\ owner = NoThread
  /\ pc = [t \in Threads |-> "idle"]
  /\ job = [t \in Threads |-> NoItem]
  /\ pushed = 0
  /\ taken = <<>>

Goto(t, from, to) ==
  /\ pc[t] = from
  /\ pc' = [pc EXCEPT ![t] = to]

PushLock(t, x) ==
  /\ owner = NoThread /\ pushed < MaxPushes
  /\ Goto(t, "idle", "push")
  /\ owner' = t
  /\ job' = [job EXCEPT ![t] = x]
  /\ pushed' = pushed + 1
  /\ UNCHANGED <<mQueue, writeAt, taken>>

PushItem(t) ==
  /\ Goto(t, "push", "unlock")
  /\ mQueue' = [mQueue EXCEPT ![writeAt] = Append(@, job[t])]
  /\ UNCHANGED <<writeAt, owner, job, pushed, taken>>

PopLock(t) ==
  /\ owner = NoThread
  /\ Goto(t, "idle", "pop_size")
  /\ owner' = t
  /\ UNCHANGED <<mQueue, writeAt, job, pushed, taken>>

\* Pop returns false when both queues are empty.
PopSize(t) ==
  /\ Goto(t, "pop_size", IF \A i \in 0 .. 1 : mQueue[i] = <<>> THEN "unlock" ELSE "pop_swap")
  /\ UNCHANGED <<mQueue, writeAt, owner, job, pushed, taken>>

\* Mutants: the queues are exchanged whether or not the read queue has run out,
\* and they never are.
PopSwapAlways(t) ==
  /\ Goto(t, "pop_swap", IF mQueue[writeAt] = <<>> THEN "unlock" ELSE "pop_front")
  /\ writeAt' = readAt
  /\ UNCHANGED <<mQueue, owner, job, pushed, taken>>

PopSwapNever(t) ==
  /\ Goto(t, "pop_swap", "pop_front")
  /\ UNCHANGED <<mQueue, writeAt, owner, job, pushed, taken>>

PopSwap(t) ==
  /\ Goto(t, "pop_swap", "pop_front")
  /\ writeAt' = IF mQueue[readAt] = <<>> THEN readAt ELSE writeAt
  /\ UNCHANGED <<mQueue, owner, job, pushed, taken>>

PopFront(t) ==
  /\ Goto(t, "pop_front", "pop_pop")
  /\ job' = [job EXCEPT ![t] = Head(mQueue[readAt])]
  /\ UNCHANGED <<mQueue, writeAt, owner, pushed, taken>>

PopPop(t) ==
  /\ Goto(t, "pop_pop", "unlock")
  /\ mQueue' = [mQueue EXCEPT ![readAt] = Tail(@)]
  /\ taken' = Append(taken, job[t])
  /\ UNCHANGED <<writeAt, owner, job, pushed>>

\* Mutant: a return that does not run the destructor of the lock scope.
UnlockForgotten(t) ==
  /\ Goto(t, "unlock", "idle")
  /\ UNCHANGED <<mQueue, writeAt, owner, job, pushed, taken>>

Unlock(t) ==
  /\ Goto(t, "unlock", "idle")
  /\ owner' = NoThread
  /\ UNCHANGED <<mQueue, writeAt, job, pushed, taken>>

Push(t) == PushItem(t) \/ \E x \in Items : PushLock(t, x)

Pop(t) == PopLock(t) \/ PopSize(t) \/ PopSwap(t) \/ PopFront(t) \/ PopPop(t)

Next == \E t \in Threads : Push(t) \/ Pop(t) \/ Unlock(t)

Spec == Init /\ [][Next]_vars

-----------------------------------------------------------------------------
(* Properties.                                                             *)

\* Every variable keeps its type, and a thread holds mLock exactly while it is
\* inside Push or Pop.
TypeOK ==
  /\ mQueue \in [0 .. 1 -> Seq(Items)]
  /\ writeAt \in 0 .. 1
  /\ owner \in Threads \cup {NoThread}
  /\ pc \in [Threads -> {"idle", "push", "pop_size", "pop_swap", "pop_front", "pop_pop", "unlock"}]
  /\ \A t \in Threads : pc[t] # "idle" <=> owner = t
  /\ job \in [Threads -> Items \cup {NoItem}]
  /\ \A t \in Threads : pc[t] \in {"push", "pop_pop"} => job[t] \in Items
  /\ pushed \in Nat
  /\ taken \in Seq(Items)

\* front() and pop() are called on a queue that is not empty: the size Pop has
\* looked at counts both queues, and the exchange brings the other one forward.
FrontIsThere ==
  \A t \in Threads :
    /\ pc[t] = "pop_swap" => \E i \in 0 .. 1 : mQueue[i] # <<>>
    /\ pc[t] \in {"pop_front", "pop_pop"} => mQueue[readAt] # <<>>
    /\ pc[t] = "pop_pop" => job[t] = Head(mQueue[readAt])

\* The two queues are one: the read queue followed by the write queue.
Fifo == INSTANCE FifoQueue WITH items <- mQueue[readAt] \o mQueue[writeAt]

\* Jobs come out once, in the order they were pushed in, across any number of
\* exchanges of the queues.
ImplementsFifoQueue == Fifo!Spec
=============================================================================
