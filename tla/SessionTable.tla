---------------------------- MODULE SessionTable ----------------------------
(***************************************************************************)
(* What the server promises about its client sessions, with no lock, no    *)
(* thread and no memory: a table of members, each with an id that no other *)
(* member has, into which a session is admitted while the table has room,  *)
(* and from which it is evicted once.  SessionManager implements it.       *)
(***************************************************************************)
EXTENDS Naturals, FiniteSets

CONSTANTS
  Sessions,       \* the addresses a Session object can have
  MaxConnection   \* maxConnection_

VARIABLES
  members,   \* the sessions in the table
  ids,       \* the id of each session, 0 while it has none
  nextId     \* the id the next admitted session gets

vars == <<members, ids, nextId>>

Init ==
  /\ members = {}
  /\ ids = [s \in Sessions |-> 0]
  /\ nextId = 1

\* A new session object takes the address of one that is not in the table.
Construct(s) ==
  /\ s \notin members
  /\ ids' = [ids EXCEPT ![s] = 0]
  /\ UNCHANGED <<members, nextId>>

\* The test is on the members themselves: whatever the implementation counts
\* must agree with them.
Admit(s) ==
  /\ s \notin members
  /\ Cardinality(members) <= MaxConnection
  /\ members' = members \cup {s}
  /\ ids' = [ids EXCEPT ![s] = nextId]
  /\ nextId' = nextId + 1

Evict(s) ==
  /\ s \in members
  /\ members' = members \ {s}
  /\ UNCHANGED <<ids, nextId>>

Next == \E s \in Sessions : Construct(s) \/ Admit(s) \/ Evict(s)

Spec == Init /\ [][Next]_vars
=============================================================================
