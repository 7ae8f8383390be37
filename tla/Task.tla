-------------------------------- MODULE Task --------------------------------
(***************************************************************************)
(* TaskManager (Task.cpp): works that are to be ticked from time to time,  *)
(* on mThreadCount task threads.  Add deals a work to the next thread's    *)
(* list; each thread goes round its list, ticks the nodes whose time has   *)
(* come and takes out the ones that are expired.                           *)
(*                                                                         *)
(* The lists are std::list and have no lock, although Add is called from   *)
(* any thread.  A list is what can be reached from its first node; its end *)
(* is where the next node is linked.  push_back finds the end in one step  *)
(* and links the node in another, so that a removal, or a second           *)
(* push_back, in between loses nodes.                                      *)
(*                                                                         *)
(* NOW_TICK counts the seconds since 1970.  What the code compares with it *)
(* is the time of the next tick, which stands here as the difference, and  *)
(* the duration of a node, which is less than it.                          *)
(***************************************************************************)
EXTENDS Integers, Sequences, FiniteSets

CONSTANTS
  Works,      \* the works that are added, each once
  Timed,      \* those that are added with a duration
  Adders,     \* threads that call Add
  Counts,     \* what the configuration may say of the number of threads
  FreqSec,    \* seconds from one tick of a work to the next
  NoWork

ASSUME TaskAssumption ==
  /\ Timed \subseteq Works /\ NoWork \notin Works
  /\ Counts \subseteq Nat /\ FreqSec \in Nat

VARIABLES
  mThreadCount,  \* -1 before TaskManager is made
  list,          \* per thread: the works of its list
  end,           \* per thread: where push_back links, NoWork at the list's head
  current,       \* per thread: the node it looks at, or NoWork between two rounds
  deleteNodes,   \* per thread: the nodes that were found expired in this round
  ticking,       \* per thread: the Tick of its current node is running
  wait,          \* per work: mNextTick - now, below 0 all the same; nobody asks a work with a
                 \* duration
  since,         \* history: the time since the work's Tick last returned, or since Add
  nodeCount,     \* static in Add
  adding,        \* per adder: its work, the list and the end that it found
  home,          \* per work: the thread that Add dealt it to, None or Dropped
  raced          \* history: lists on which a push_back was interrupted

threadVars == <<current, deleteNodes, ticking>>
timeVars == <<wait, since>>
addVars == <<nodeCount, adding, home>>
vars == <<mThreadCount, list, end, threadVars, timeVars, addVars, raced>>

MaxThreads == CHOOSE n \in Counts : \A m \in Counts : m <= n
Threads == 0 .. MaxThreads - 1
Running == {i \in Threads : i < mThreadCount}
NoAdd == [work |-> NoWork, index |-> 0, pc |-> "idle", at |-> NoWork]
None == -1
Dropped == -2
Dealt(w) == home[w] >= 0
MaxSince == FreqSec + 1
Elements(s) == {s[j] : j \in DOMAIN s}

Init ==
  /\ mThreadCount = -1
  /\ list = [i \in Threads |-> <<>>] /\ end = [i \in Threads |-> NoWork]
  /\ current = [i \in Threads |-> NoWork] /\ deleteNodes = [i \in Threads |-> {}]
  /\ ticking = [i \in Threads |-> FALSE]
  /\ wait = [w \in Works |-> 0] /\ since = [w \in Works |-> 0]
  /\ nodeCount = 0 /\ adding = [a \in Adders |-> NoAdd]
  /\ home = [w \in Works |-> None]
  /\ raced = {}

\* TaskManager::TaskManager and Initialize.  A configuration without a task section leaves
\* the count at zero.
Initialize ==
  /\ mThreadCount = -1
  /\ \E n \in Counts : mThreadCount' = n
  /\ UNCHANGED <<list, end, threadVars, timeVars, addVars, raced>>

Second ==
  /\ wait' = [w \in Works |-> IF Dealt(w) /\ w \notin Timed /\ wait[w] >= 0 THEN wait[w] - 1 ELSE wait[w]]
  /\ since' = [w \in Works |-> IF Dealt(w) /\ w \notin Timed /\ since[w] < MaxSince THEN since[w] + 1 ELSE since[w]]
  /\ UNCHANGED <<mThreadCount, list, end, threadVars, addVars, raced>>

-----------------------------------------------------------------------------
(* Add, on any thread.                                                     *)

Index == nodeCount % mThreadCount

\* new TaskNode, with its NextTick, and the choice of the list.
AddBegin(a, w) ==
  /\ mThreadCount >= 1 /\ adding[a] = NoAdd /\ home[w] = None
  /\ home' = [home EXCEPT ![w] = Index]
  /\ wait' = [wait EXCEPT ![w] = IF w \in Timed THEN 0 ELSE FreqSec]
  /\ since' = [since EXCEPT ![w] = 0]
  /\ adding' = [adding EXCEPT ![a] = [work |-> w, index |-> Index, pc |-> "end", at |-> NoWork]]
  /\ UNCHANGED <<mThreadCount, list, end, threadVars, nodeCount, raced>>

\* mThreadCount < MINIMAL_THREAD_COUNT: the work is dropped.
AddDropped(a, w) ==
  /\ mThreadCount = 0 /\ adding[a] = NoAdd /\ home[w] = None
  /\ home' = [home EXCEPT ![w] = Dropped]
  /\ UNCHANGED <<mThreadCount, list, end, threadVars, timeVars, nodeCount, adding, raced>>

\* push_back reads where the list ends.
AddFindEnd(a) ==
  /\ adding[a].pc = "end"
  /\ adding' = [adding EXCEPT ![a].pc = "link", ![a].at = end[adding[a].index]]
  /\ UNCHANGED <<mThreadCount, list, end, threadVars, timeVars, nodeCount, home, raced>>

\* Linked behind `at': what was linked there meanwhile is cut off, and a node behind one
\* that is not in the list any more is not in it either.
Linked(s, at, w) ==
  IF at = NoWork THEN <<w>>
  ELSE IF at \in Elements(s)
       THEN LET j == CHOOSE k \in DOMAIN s : s[k] = at IN Append(SubSeq(s, 1, j), w)
       ELSE s

AddLink(a) ==
  LET i == adding[a].index IN
  /\ adding[a].pc = "link"
  /\ list' = [list EXCEPT ![i] = Linked(@, adding[a].at, adding[a].work)]
  /\ end' = [end EXCEPT ![i] = adding[a].work]
  /\ raced' = IF end[i] = adding[a].at THEN raced ELSE raced \cup {i}
  /\ adding' = [adding EXCEPT ![a].pc = "count"]
  /\ UNCHANGED <<mThreadCount, threadVars, timeVars, nodeCount, home>>

AddCount(a) ==
  /\ adding[a].pc = "count"
  /\ nodeCount' = nodeCount + 1
  /\ adding' = [adding EXCEPT ![a] = NoAdd]
  /\ UNCHANGED <<mThreadCount, list, end, threadVars, timeVars, home, raced>>

-----------------------------------------------------------------------------
(* Task::Process, on thread i.                                             *)

\* The node behind w as the list is now; a node that was cut off leads to the end.
Behind(i, w) ==
  LET s == list[i] IN
  IF \E j \in DOMAIN s : s[j] = w /\ j < Len(s)
  THEN s[(CHOOSE j \in DOMAIN s : s[j] = w) + 1] ELSE NoWork

\* Mutant: nothing is ever too old.
ExpiredNever(w) == FALSE

\* Mutant: TICK_INFINITY is a duration like any other.
ExpiredAll(w) == w \in Works

\* The duration is compared with the time of day.
Expired(w) == w \in Timed

RoundBegin(i) ==
  /\ i \in Running /\ current[i] = NoWork /\ deleteNodes[i] = {} /\ list[i] # <<>>
  /\ current' = [current EXCEPT ![i] = list[i][1]]
  /\ UNCHANGED <<mThreadCount, list, end, deleteNodes, ticking, timeVars, addVars, raced>>

LookExpired(i) ==
  LET w == current[i] IN
  /\ w # NoWork /\ ~ticking[i] /\ Expired(w)
  /\ deleteNodes' = [deleteNodes EXCEPT ![i] = @ \cup {w}]
  /\ current' = [current EXCEPT ![i] = Behind(i, w)]
  /\ UNCHANGED <<mThreadCount, list, end, ticking, timeVars, addVars, raced>>

\* mNextTick < NOW_TICK().
Due(w) == wait[w] < 0

LookEarly(i) ==
  LET w == current[i] IN
  /\ w # NoWork /\ ~ticking[i] /\ ~Expired(w) /\ ~Due(w)
  /\ current' = [current EXCEPT ![i] = Behind(i, w)]
  /\ UNCHANGED <<mThreadCount, list, end, deleteNodes, ticking, timeVars, addVars, raced>>

TickBegin(i) ==
  LET w == current[i] IN
  /\ w # NoWork /\ ~ticking[i] /\ ~Expired(w) /\ Due(w)
  /\ ticking' = [ticking EXCEPT ![i] = TRUE]
  /\ UNCHANGED <<mThreadCount, list, end, current, deleteNodes, timeVars, addVars, raced>>

\* The work's Tick returns; NextTick, and the next node.
TickEnd(i) ==
  LET w == current[i] IN
  /\ ticking[i]
  /\ ticking' = [ticking EXCEPT ![i] = FALSE]
  /\ wait' = [wait EXCEPT ![w] = FreqSec] /\ since' = [since EXCEPT ![w] = 0]
  /\ current' = [current EXCEPT ![i] = Behind(i, w)]
  /\ UNCHANGED <<mThreadCount, list, end, deleteNodes, addVars, raced>>

\* Task::Remove: the node is unlinked, and never deleted.
Remove(i, w) ==
  LET s == list[i]
      rest == SelectSeq(s, LAMBDA v : v # w)
  IN  /\ current[i] = NoWork /\ w \in deleteNodes[i]
      /\ deleteNodes' = [deleteNodes EXCEPT ![i] = @ \ {w}]
      /\ list' = [list EXCEPT ![i] = rest]
      /\ end' = [end EXCEPT ![i] =
                   IF @ # w THEN @ ELSE IF rest = <<>> THEN NoWork ELSE rest[Len(rest)]]
      /\ UNCHANGED <<mThreadCount, current, ticking, timeVars, addVars, raced>>

Process(i) ==
  RoundBegin(i) \/ LookExpired(i) \/ LookEarly(i) \/ TickBegin(i) \/ TickEnd(i)
    \/ \E w \in Works : Remove(i, w)

Add(a) == AddFindEnd(a) \/ AddLink(a) \/ AddCount(a)

Next ==
  \/ Initialize
  \/ Second
  \/ \E a \in Adders, w \in Works : AddBegin(a, w)
  \/ \E a \in Adders, w \in Works : AddDropped(a, w)
  \/ \E a \in Adders : AddFindEnd(a)
  \/ \E a \in Adders : AddLink(a)
  \/ \E a \in Adders : AddCount(a)
  \/ \E i \in Threads : RoundBegin(i)
  \/ \E i \in Threads : LookExpired(i)
  \/ \E i \in Threads : LookEarly(i)
  \/ \E i \in Threads : TickBegin(i)
  \/ \E i \in Threads : TickEnd(i)
  \/ \E i \in Threads, w \in Works : Remove(i, w)

Spec == Init /\ [][Next]_vars

\* Time goes on, and every thread does: none of these waits for another.
FairSpec ==
  /\ Spec /\ WF_vars(Second)
  /\ \A i \in Threads : WF_vars(Process(i))
  /\ \A a \in Adders : WF_vars(Add(a))

-----------------------------------------------------------------------------
(* Properties.                                                             *)

Raced(w) == home[w] \in raced
Gone(w) ==
  (\A i \in Threads : w \notin Elements(list[i])) /\ \A a \in Adders : adding[a].work # w
Ticked(w) == \E i \in Threads : ticking[i] /\ current[i] = w

\* A work without a duration is ticked again and again, whatever is added and removed
\* beside it, unless a push_back on its list was interrupted.
EndlessWorksTick ==
  \A w \in Works \ Timed : Dealt(w) ~> Ticked(w) \/ Raced(w)

\* Between two ticks of a work more than FreqSec seconds pass, on whatever thread.
TicksApart ==
  [][\A w \in Works : Ticked(w)' /\ ~Ticked(w) => since[w] > FreqSec]_vars

\* A work with a duration leaves its list before it was ticked once.
TimedWorksLeave ==
  \A w \in Timed :
    /\ [](~Ticked(w))
    /\ Dealt(w) ~> Raced(w) \/ Gone(w)
=============================================================================
