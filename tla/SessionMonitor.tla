--------------------------- MODULE SessionMonitor ---------------------------
(***************************************************************************)
(* The heart beat monitor (SessionMonitor.cpp) on its task thread          *)
(* (Task.cpp).  The thread goes round its list of nodes, which holds the   *)
(* monitor alone; when the node's time has come, Tick copies the session   *)
(* list, without its lock, and closes every session whose heart beat is    *)
(* older than MAX_HEART_BEAT.  Session's constructor sets the heart beat,  *)
(* and nothing else in the repository does.                                *)
(*                                                                         *)
(* The clock (SystemTick, in seconds) is not a variable: what the code     *)
(* compares are differences, and they stand here, so that time needs no    *)
(* bound.                                                                  *)
(***************************************************************************)
EXTENDS Integers

CONSTANTS
  Clients,        \* connections, each used once
  MaxHeartBeat,   \* MAX_HEART_BEAT, in ticks
  FreqSec         \* MONITOR_REPORTING_SEC

ASSUME MonitorAssumption ==
  {MaxHeartBeat, FreqSec} \subseteq Nat \ {0}

VARIABLES
  clients,    \* per connection: "none", "listed", "left", "closed"
  age,        \* now - lastHeartBeat_; more than MaxHeartBeat is all the same
  silence,    \* time since the client last sent something; with the same limit
  wait,       \* mNextTick - now; below 0 is all the same
  scanning,   \* the task thread is in SessionMonitor::Tick
  todo,       \* the sessions of the copied list still to look at
  seen,       \* their now - lastTick, with the now of the tick
  dangling    \* Tick has met a session that is freed; the model stops there

vars == <<clients, age, silence, wait, scanning, todo, seen, dangling>>

Limit == MaxHeartBeat + 1
Older(n) == IF n < Limit THEN n + 1 ELSE n

Listed == {c \in Clients : clients[c] = "listed"}

Init ==
  /\ clients = [c \in Clients |-> "none"]
  /\ age = [c \in Clients |-> 0]
  /\ silence = [c \in Clients |-> 0]
  /\ wait = FreqSec
  /\ scanning = FALSE /\ todo = {} /\ seen = [c \in Clients |-> 0]
  /\ dangling = FALSE

Second ==
  /\ age' = [c \in Clients |-> IF clients[c] = "listed" THEN Older(age[c]) ELSE 0]
  /\ silence' = [c \in Clients |-> IF clients[c] = "listed" THEN Older(silence[c]) ELSE 0]
  /\ wait' = IF wait < 0 THEN wait ELSE wait - 1
  /\ ~dangling
  /\ UNCHANGED <<clients, scanning, todo, seen, dangling>>

\* new IOCPSession(), with its UpdateHeartBeat, and AddSession.
Accept(c) ==
  /\ clients[c] = "none" /\ ~dangling
  /\ clients' = [clients EXCEPT ![c] = "listed"]
  /\ UNCHANGED <<age, silence, wait, scanning, todo, seen, dangling>>

\* A packet of the client goes through OnRecv, which leaves the heart beat alone.
ClientSpeaks(c) ==
  /\ clients[c] = "listed" /\ ~dangling
  /\ silence' = [silence EXCEPT ![c] = 0]
  /\ UNCHANGED <<clients, age, wait, scanning, todo, seen, dangling>>

\* A worker closes the session of a client that is gone.
ClientLeaves(c) ==
  /\ clients[c] = "listed" /\ ~dangling
  /\ clients' = [clients EXCEPT ![c] = "left"]
  /\ age' = [age EXCEPT ![c] = 0] /\ silence' = [silence EXCEPT ![c] = 0]
  /\ UNCHANGED <<wait, scanning, todo, seen, dangling>>

-----------------------------------------------------------------------------
(* The task thread.                                                        *)

\* Mutant: the time of the last tick is compared the other way round.
DueNever == 0 < wait

\* TaskNode::Tick: mNextTick < NOW_TICK().
Due == wait < 0

\* The node's time has come; the copy of the list and the time of this tick.
Tick ==
  /\ ~scanning /\ Due /\ ~dangling
  /\ scanning' = TRUE
  /\ todo' = Listed
  /\ seen' = age
  /\ UNCHANGED <<clients, age, silence, wait, dangling>>

\* Mutant: whoever was seen at the limit is closed too.
TooOldOffByOne(c) == seen[c] >= MaxHeartBeat

TooOld(c) == seen[c] > MaxHeartBeat

\* The session of the copy, if a worker freed it meanwhile.
LookFreed(c) ==
  /\ c \in todo /\ c \notin Listed /\ ~dangling
  /\ dangling' = TRUE
  /\ UNCHANGED <<clients, age, silence, wait, scanning, todo, seen>>

LookYoung(c) ==
  /\ c \in todo /\ c \in Listed /\ ~TooOld(c) /\ ~dangling
  /\ todo' = todo \ {c}
  /\ UNCHANGED <<clients, age, silence, wait, scanning, seen, dangling>>

\* OnClose(true): ForceCloseSession.
LookOld(c) ==
  /\ c \in todo /\ c \in Listed /\ TooOld(c) /\ ~dangling
  /\ clients' = [clients EXCEPT ![c] = "closed"]
  /\ age' = [age EXCEPT ![c] = 0] /\ silence' = [silence EXCEPT ![c] = 0]
  /\ todo' = todo \ {c}
  /\ UNCHANGED <<wait, scanning, seen, dangling>>

\* Mutant: the loop over the copy ends before its last session.
NextTickEarly ==
  /\ scanning /\ ~dangling
  /\ scanning' = FALSE
  /\ wait' = FreqSec
  /\ seen' = [c \in Clients |-> 0]
  /\ UNCHANGED <<clients, age, silence, todo, dangling>>

\* NextTick, from the time when the tick is over.
NextTick ==
  /\ scanning /\ todo = {} /\ ~dangling
  /\ scanning' = FALSE
  /\ wait' = FreqSec
  /\ seen' = [c \in Clients |-> 0]
  /\ UNCHANGED <<clients, age, silence, todo, dangling>>

Process == Tick \/ (\E c \in Clients : LookFreed(c) \/ LookYoung(c) \/ LookOld(c)) \/ NextTick

Next ==
  \/ Second
  \/ \E c \in Clients : Accept(c)
  \/ \E c \in Clients : ClientSpeaks(c)
  \/ \E c \in Clients : ClientLeaves(c)
  \/ Tick
  \/ \E c \in Clients : LookFreed(c)
  \/ \E c \in Clients : LookYoung(c)
  \/ \E c \in Clients : LookOld(c)
  \/ NextTick

Spec == Init /\ [][Next]_vars

\* Time goes on, and the task thread never waits for anything but time.
FairSpec == Spec /\ WF_vars(Second) /\ WF_vars(Process)

-----------------------------------------------------------------------------
(* Properties.                                                             *)

TypeOK ==
  /\ clients \in [Clients -> {"none", "listed", "left", "closed"}]
  /\ age \in [Clients -> 0 .. Limit]
  /\ silence \in [Clients -> 0 .. Limit]
  /\ wait \in -1 .. FreqSec
  /\ scanning \in BOOLEAN
  /\ todo \subseteq Clients /\ (todo # {} => scanning)
  /\ seen \in [Clients -> 0 .. Limit]
  /\ dangling \in BOOLEAN

MonitorCloses(c) == clients[c] = "listed" /\ clients'[c] = "closed"

\* The monitor closes nobody who has been connected for less than its limit, although
\* it compares with a time it read before it came to the session.
OnlyOldClosed == [][\A c \in Clients : MonitorCloses(c) => age[c] > MaxHeartBeat]_vars

\* A client that stays silent is closed in the end, unless the monitor has met a freed
\* session: no session escapes by being accepted in the middle of a tick.
SilentClientsClosed ==
  \A c \in Clients :
    clients[c] = "listed" /\ silence[c] > 0 ~> clients[c] # "listed" \/ silence[c] = 0 \/ dangling
=============================================================================
