------------------------------- MODULE IoData -------------------------------
(***************************************************************************)
(* The buffer of one direction of a connection (IOCPSession.h, IoData):    *)
(* buffer_, totalBytes_ (the length of the packet, header included, or 0   *)
(* when it is not known yet) and currentBytes_ (how much of it went).      *)
(*                                                                         *)
(* A byte is its position in the connection's stream, counted from 1; 0 is *)
(* a byte that Clear wrote.  PacketObfuscation, which is not in the        *)
(* repository, turns what it encoded back and is left out.                 *)
(***************************************************************************)
EXTENDS Integers, Sequences

CONSTANTS
  HeaderSize,     \* sizeof(packet_size_t)
  BufferSize      \* SOCKET_BUF_SIZE

ASSUME IoDataAssumption ==
  HeaderSize \in Nat \ {0} /\ BufferSize \in Nat /\ HeaderSize < BufferSize

Cleared(d) ==
  [d EXCEPT !.buffer = [i \in 1 .. BufferSize |-> 0], !.total = 0, !.current = 0]

\* The constructor's state.
NewIoData == [buffer |-> [i \in 1 .. BufferSize |-> 0], total |-> 0, current |-> 0]

\* Mutant: the size of the last transfer replaces the count.
CountedLastOnly(d, n) == [d EXCEPT !.current = n]

\* What NeedMoreIO(transferSize) does, and what it answers.
Counted(d, n) == [d EXCEPT !.current = @ + n]

\* Mutant: a packet that is complete needs more.
NeedMoreIOAlways(d) == d.current <= d.total

NeedMoreIO(d) == d.current < d.total

\* Mutant: the whole packet's length from the part's place on.
WsabufWhole(d) == [at |-> d.current, len |-> d.total]

\* The part of the packet that has not gone yet.
Wsabuf(d) == [at |-> d.current, len |-> d.total - d.current]

\* A transfer of n bytes, from position pos of the stream on, into the buffer.
Filled(d, at, n, pos) ==
  [d EXCEPT !.buffer = [i \in 1 .. BufferSize |->
                          IF i \in at + 1 .. at + n THEN pos + i - at ELSE @[i]]]

\* The first n bytes of the buffer are the stream's from position pos on.
Holds(d, n, pos) == n <= BufferSize /\ \A i \in 1 .. n : d.buffer[i] = pos + i

IoDataType(d, positions) ==
  d \in [buffer : [1 .. BufferSize -> positions], total : Nat, current : Nat]
=============================================================================
