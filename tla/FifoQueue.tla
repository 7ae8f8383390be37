------------------------------ MODULE FifoQueue ------------------------------
(***************************************************************************)
(* What a job queue promises: every item that was put into it is taken out *)
(* once, in the order the items were put in.  ThreadJobQueue implements it.*)
(***************************************************************************)
EXTENDS Sequences

CONSTANT Items   \* the jobs

VARIABLES
  items,   \* the jobs in the queue, the oldest first
  taken    \* the jobs that were taken out, the latest last

vars == <<items, taken>>

Init == items = <<>> /\ taken = <<>>

Put(x) ==
  /\ items' = Append(items, x)
  /\ UNCHANGED taken

Take ==
  /\ items # <<>>
  /\ taken' = Append(taken, Head(items))
  /\ items' = Tail(items)

Next == Take \/ \E x \in Items : Put(x)

Spec == Init /\ [][Next]_vars
=============================================================================
