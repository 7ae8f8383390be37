----------------------- MODULE ThreadJobQueue_proofs -----------------------
(***************************************************************************)
(* ThreadJobQueue never reads the front of an empty queue and implements   *)
(* FifoQueue, for any number of threads, jobs and pushes.                  *)
(***************************************************************************)
EXTENDS ThreadJobQueue, SequenceTheorems, TLAPS

USE ConstantsAssumption DEF Goto, readAt

IInv == TypeOK /\ FrontIsThere

-----------------------------------------------------------------------------
(* A queue that is written at its end and read at its front.               *)

LEMMA ConcatAppend ==
  \A r, w \in Seq(Items) : \A x \in Items : r \o Append(w, x) = Append(r \o w, x)
<1> SUFFICES ASSUME NEW r \in Seq(Items), NEW w \in Seq(Items), NEW x \in Items
             PROVE  r \o Append(w, x) = Append(r \o w, x)
  OBVIOUS
<1>1. Append(w, x) = w \o <<x>> /\ Append(r \o w, x) = (r \o w) \o <<x>>
  BY AppendIsConcat, ConcatProperties
<1>2. <<x>> \in Seq(Items)
  OBVIOUS
<1> QED BY <1>1, <1>2, ConcatAssociative

LEMMA ConcatHeadTail ==
  \A r, w \in Seq(Items) :
    r # <<>> => /\ r \o w # <<>>
                /\ Head(r \o w) = Head(r)
                /\ Tail(r \o w) = Tail(r) \o w
OBVIOUS

-----------------------------------------------------------------------------
(* The invariant.                                                          *)

LEMMA InitIInv == Init => IInv
BY DEF Init, IInv, TypeOK, FrontIsThere

LEMMA NextIInv == IInv /\ [Next]_vars => IInv'
<1> SUFFICES ASSUME IInv, [Next]_vars PROVE IInv'
  OBVIOUS
<1> USE DEF IInv, TypeOK, FrontIsThere
<1>1. CASE UNCHANGED vars
  BY <1>1 DEF vars
<1>2. ASSUME NEW t \in Threads, NEW x \in Items, PushLock(t, x) PROVE IInv'
  BY <1>2 DEF PushLock
<1>3. ASSUME NEW t \in Threads, PushItem(t) PROVE IInv'
  BY <1>3 DEF PushItem
<1>4. ASSUME NEW t \in Threads, PopLock(t) PROVE IInv'
  BY <1>4 DEF PopLock
<1>5. ASSUME NEW t \in Threads, PopSize(t) PROVE IInv'
  BY <1>5 DEF PopSize
<1>6. ASSUME NEW t \in Threads, PopSwap(t) PROVE IInv'
  BY <1>6 DEF PopSwap
<1>7. ASSUME NEW t \in Threads, PopFront(t) PROVE IInv'
  BY <1>7 DEF PopFront
<1>8. ASSUME NEW t \in Threads, PopPop(t) PROVE IInv'
  BY <1>8 DEF PopPop
<1>9. ASSUME NEW t \in Threads, Unlock(t) PROVE IInv'
  BY <1>9 DEF Unlock
<1> QED BY <1>1, <1>2, <1>3, <1>4, <1>5, <1>6, <1>7, <1>8, <1>9 DEF Next, Push, Pop

\* Every variable keeps its type, and mLock is held by the thread inside.
THEOREM TypeCorrect == Spec => []TypeOK
<1>1. IInv => TypeOK
  BY DEF IInv
<1> QED BY <1>1, InitIInv, NextIInv, PTL DEF Spec

\* Pop never calls front() or pop() on an empty queue.
THEOREM FrontThere == Spec => []FrontIsThere
<1>1. IInv => FrontIsThere
  BY DEF IInv
<1> QED BY <1>1, InitIInv, NextIInv, PTL DEF Spec

-----------------------------------------------------------------------------
(* The refinement.  A push appends to the write queue, which is the end of *)
(* the two; a pop takes the head of the read queue, their front; and the   *)
(* exchange of an empty read queue with the write queue leaves the two, one*)
(* after the other, as they were.                                          *)

LEMMA StepSimulation == IInv /\ [Next]_vars => [Fifo!Next]_(Fifo!vars)
<1> SUFFICES ASSUME IInv, [Next]_vars PROVE [Fifo!Next]_(Fifo!vars)
  OBVIOUS
<1> USE DEF IInv, TypeOK, FrontIsThere
<1> DEFINE items == mQueue[readAt] \o mQueue[writeAt]
<1>1. mQueue[readAt] \in Seq(Items) /\ mQueue[writeAt] \in Seq(Items) /\ readAt # writeAt
  OBVIOUS
<1>2. ASSUME NEW t \in Threads, PushItem(t) PROVE Fifo!Next
  <2>1. job[t] \in Items
    BY <1>2 DEF PushItem
  <2>2. /\ readAt' = readAt /\ writeAt' = writeAt
        /\ mQueue'[readAt] = mQueue[readAt]
        /\ mQueue'[writeAt] = Append(mQueue[writeAt], job[t])
    BY <1>1, <1>2 DEF PushItem
  <2>3. mQueue[readAt] \o Append(mQueue[writeAt], job[t]) = Append(items, job[t])
    BY <1>1, <2>1, ConcatAppend, Zenon
  <2>4. items' = Append(items, job[t])
    BY <2>2, <2>3, Zenon
  <2> QED BY <1>2, <2>1, <2>4 DEF Fifo!Next, Fifo!Put, PushItem
<1>3. ASSUME NEW t \in Threads, PopPop(t) PROVE Fifo!Next
  <2>1. mQueue[readAt] # <<>> /\ job[t] = Head(mQueue[readAt])
    BY <1>3 DEF PopPop
  <2>2. /\ readAt' = readAt /\ writeAt' = writeAt
        /\ mQueue'[readAt] = Tail(mQueue[readAt])
        /\ mQueue'[writeAt] = mQueue[writeAt]
    BY <1>1, <1>3 DEF PopPop
  <2>3. /\ items # <<>> /\ Head(items) = Head(mQueue[readAt])
        /\ Tail(items) = Tail(mQueue[readAt]) \o mQueue[writeAt]
    BY <1>1, <2>1, ConcatHeadTail, Zenon
  <2>4. items' = Tail(items)
    BY <2>2, <2>3, Zenon
  <2> QED BY <1>3, <2>1, <2>3, <2>4 DEF Fifo!Next, Fifo!Take, PopPop
<1>4. ASSUME NEW t \in Threads, PopSwap(t) PROVE UNCHANGED Fifo!vars
  <2>1. CASE mQueue[readAt] = <<>>
    <3>1. mQueue' = mQueue /\ readAt' = writeAt /\ writeAt' = readAt
      BY <1>1, <1>4, <2>1 DEF PopSwap
    <3>2. items' = mQueue[writeAt] \o mQueue[readAt]
      BY <3>1, Zenon
    <3>3. items = mQueue[writeAt] /\ items' = mQueue[writeAt]
      BY <1>1, <2>1, <3>2, ConcatEmptySeq
    <3> QED BY <1>4, <3>3 DEF Fifo!vars, PopSwap
  <2>2. CASE mQueue[readAt] # <<>>
    BY <1>4, <2>2 DEF Fifo!vars, PopSwap
  <2> QED BY <2>1, <2>2
<1>5. ASSUME UNCHANGED <<mQueue, writeAt, taken>> PROVE UNCHANGED Fifo!vars
  BY <1>5 DEF Fifo!vars
<1> QED BY <1>2, <1>3, <1>4, <1>5
     DEF Next, Push, Pop, PushLock, PopLock, PopSize, PopFront, Unlock, vars

\* Jobs come out once, in the order they were pushed in.
THEOREM Refinement == Spec => ImplementsFifoQueue
<1>1. Init => Fifo!Init
  BY ConcatEmptySeq DEF Init, Fifo!Init
<1> QED BY <1>1, InitIInv, NextIInv, StepSimulation, PTL
     DEF Spec, ImplementsFifoQueue, Fifo!Spec
=============================================================================
