------------------------- MODULE IOCPServer_proofs -------------------------
(***************************************************************************)
(* Proofs about IOCPServer, for any number of connections, addresses and   *)
(* workers.  The invariants stand on each other, and each has a part of    *)
(* its own: whose session is at an address (ServerInv), what nobody has    *)
(* touched yet (FreshInv), how many reads are coming (ReadInv), whose a    *)
(* session is (OnlySharedSessionsDangle), and where a packet is on its way *)
(* to ContentsProcess (OrderInv).                                          *)
(***************************************************************************)
EXTENDS IOCPServer, FiniteSetTheorems, TLAPS

\* A member has an id that was handed out, and its connection leads back to it.
TableInv ==
  /\ \A s \in members : ids[s] \in 1 .. nextId - 1 /\ addr[ids[s]] = s
  /\ \A c \in Conns : c >= nextId => addr[c] = NoSession
  /\ apc = "add" => nextId <= MaxClients
  /\ apc \in {"attach", "standby"} => nextId > 1

\* What a worker passes on is a packet that was read, and no client sends more than
\* MaxPackets.
RestType ==
  /\ \A i \in DOMAIN port : port[i].kind = "read" /\ port[i].size = "rest" => port[i].n <= MaxPackets
  /\ \A w \in Workers :
       /\ wpc[w] = "put" => job[w].kind = "read" /\ job[w].size = "rest"
       /\ wpc[w] # "wait" /\ job[w].kind = "read" /\ job[w].size = "rest" => job[w].n <= MaxPackets
       /\ wpc[w] # "wait" => job[w].size # "error"

ServerInv == TypeOK /\ TableInv /\ RestType

\* No read was ever posted on a connection that is to come, nor on the one that the accept
\* thread is at work on.
Fresh(c) == c >= nextId \/ FirstComing(c)
Untouched(c) ==
  /\ reads[c] = 0 /\ writes[c] = 0 /\ taken[c] = 0 /\ replies[c] = 0
  /\ delivered[c] = <<>>
  /\ \A i \in DOMAIN port : port[i].conn # c
  /\ \A w \in Workers : wpc[w] # "wait" => job[w].conn # c
  /\ \A i \in DOMAIN contents : contents[i] # c
FreshInv == \A c \in Conns : Fresh(c) => Untouched(c)

\* Without a reply nothing was ever written.
NoWrites(c) ==
  /\ writes[c] = 0
  /\ \A i \in DOMAIN port : port[i].conn = c => port[i].kind # "write"
  /\ \A w \in Workers : wpc[w] # "wait" /\ job[w].conn = c => job[w].kind # "write"

\* The one read of a connection without replies is its only way to the session: when
\* the session is gone and nobody else closed it, the read is gone.
OneWay(c) ==
  /\ Alive(c) /\ peer[c] # "lost" /\ ~garbled[c] => ReadsComing(c) = 1 + replies[c]
  /\ replies[c] = 0 =>
       /\ ReadsComing(c) <= 1 /\ NoWrites(c)
       /\ c \notin outside /\ ~Alive(c) => ReadsComing(c) = 0
ReadInv == \A c \in Conns : OneWay(c)

InPut(c) == {w \in Workers : wpc[w] = "put" /\ job[w].conn = c}
PutNumbers(c) == {job[w].n : w \in InPut(c)}

\* The packets whose rest is under way to a worker that will look at it.
RestNumbers(c) == {port[i].n : i \in RestOnPort(c)} \cup {job[w].n : w \in RestInHand(c)}
Out(c) == Passed(c) \cup PutNumbers(c)
Beyond(n, c) == n \in 1 .. taken[c] /\ \A m \in Out(c) : m < n

\* Every packet that was taken is passed on, or with a worker that passes it on, or came
\* behind another one in its receive, or comes after all those that are out.
Order(c) ==
  /\ \A i, j \in DOMAIN delivered[c] : delivered[c][i] = delivered[c][j] => i = j
  /\ \A n \in Out(c) : n \in 1 .. taken[c]
  /\ Passed(c) \cap PutNumbers(c) = {}
  /\ \A v, w \in InPut(c) : job[v].n = job[w].n => v = w
  /\ \A n \in RestNumbers(c) : Beyond(n, c)
  /\ \A n \in 1 .. taken[c] :
       n \in Out(c) \cup swallowed[c] \/ (Beyond(n, c) /\ (n \in RestNumbers(c) \/ ~Alive(c)))
OrderInv == \A c \in Conns : replies[c] = 0 => Order(c)

-----------------------------------------------------------------------------
(* The types and the table.                                                *)

USE ConstantsAssumption
    DEF tableVars, acceptVars, clientVars, streamVars, netVars, workerVars, packVars, Table!Construct,
        Table!Admit, Table!Evict, Table!Init, HeldConn

\* A step that leaves the table and the addresses alone.
LEMMA TableKept ==
  ASSUME ServerInv, UNCHANGED <<tableVars, addr>>, apc' \in {apc, "check", "stopped", "standby"},
         apc' = "standby" => apc = "attach" \/ apc = "standby"
  PROVE  TableInv'
BY DEF ServerInv, TypeOK, TableInv

\* What the port and the workers hold keeps its bounds when a completion arrives.
LEMMA PortGrows ==
  ASSUME ServerInv, NEW m \in Completions, port' = Append(port, m), UNCHANGED workerVars,
         m.kind = "read" /\ m.size = "rest" => m.n <= MaxPackets
  PROVE  RestType' /\ port' \in Seq(Completions)
<1>1. port \in Seq(Completions) /\ port' \in Seq(Completions) /\ Len(port') = Len(port) + 1
  BY DEF ServerInv, TypeOK
<1>2. \A i \in DOMAIN port' : port'[i] = IF i <= Len(port) THEN port[i] ELSE m
  BY <1>1
<1>3. \A i \in DOMAIN port' : i <= Len(port) => i \in DOMAIN port
  BY <1>1
<1> QED BY <1>1, <1>2, <1>3 DEF ServerInv, RestType

\* What a read that ends with data does to the stream of its connection.
LEMMA ReadEnds ==
  ASSUME NEW c \in Conns, ServerInv, FinishRead(c)
  PROVE  /\ half' \in [Conns -> BOOLEAN] /\ garbled' \in [Conns -> BOOLEAN]
         /\ \A d \in Conns : garbled[d] => garbled'[d]
         /\ \E z \in {"part", "rest", "zero", "error"} :
              /\ port' = Append(port, Completion(c, "read", z))
              /\ z # "rest" => taken' = taken /\ swallowed' = swallowed
              /\ z = "rest" =>
                   /\ Alive(c)
                   /\ \E last \in taken[c] + 1 .. sent[c] :
                        /\ taken' = [taken EXCEPT ![c] = last]
                        /\ swallowed' = [swallowed EXCEPT ![c] = @ \cup taken[c] + 2 .. last]
              /\ z = "error" => ~Alive(c) \/ peer[c] = "lost"
<1>0. half \in [Conns -> BOOLEAN] /\ garbled \in [Conns -> BOOLEAN]
  BY DEF ServerInv, TypeOK
<1>1. CASE Alive(c) /\ ReceivePart(c)
  <2>1. PICK p \in BOOLEAN : garbled' = [garbled EXCEPT ![c] = @ \/ p]
    <3>1. PICK torn \in BOOLEAN :
            garbled' = [garbled EXCEPT ![c] = @ \/ torn \/ reads[c] > 1 \/ RestUnread(c)]
      BY <1>1 DEF ReceivePart
    <3> DEFINE q == torn \/ reads[c] > 1 \/ RestUnread(c)
    <3>2. q \in BOOLEAN /\ garbled' = [garbled EXCEPT ![c] = @ \/ q]
      BY <3>1, Zenon
    <3> QED BY <3>2, Zenon
  <2>2. garbled' \in [Conns -> BOOLEAN] /\ \A d \in Conns : garbled[d] => garbled'[d]
    BY <1>0, <2>1, Zenon
  <2>3. half' \in [Conns -> BOOLEAN]
    BY <1>0, <1>1 DEF ReceivePart
  <2> QED BY <1>1, <2>2, <2>3, Zenon DEF ReceivePart
<1>2. CASE Alive(c) /\ ReceiveRest(c)
  <2>1. PICK last \in taken[c] + 1 .. sent[c], more \in BOOLEAN :
          /\ taken' = [taken EXCEPT ![c] = last]
          /\ half' = [half EXCEPT ![c] = FALSE]
          /\ swallowed' = [swallowed EXCEPT ![c] = @ \cup taken[c] + 2 .. last]
          /\ garbled' = [garbled EXCEPT ![c] = @ \/ more \/ RestUnread(c)]
          /\ port' = Append(port, Completion(c, "read", "rest"))
    BY <1>2, Zenon DEF ReceiveRest
  <2>2. garbled' \in [Conns -> BOOLEAN] /\ \A d \in Conns : garbled[d] => garbled'[d]
    <3> DEFINE q == more \/ RestUnread(c)
    <3>1. q \in BOOLEAN /\ garbled' = [garbled EXCEPT ![c] = @ \/ q]
      BY <2>1, Zenon
    <3> QED BY <1>0, <3>1, Zenon
  <2>3. half' \in [Conns -> BOOLEAN]
    BY <1>0, <2>1
  <2> QED BY <1>2, <2>1, <2>2, <2>3, Zenon
<1>3. CASE /\ port' = Append(port, Completion(c, "read", "zero")) /\ UNCHANGED streamVars
  BY <1>0, <1>3, Zenon
<1>4. CASE /\ port' = Append(port, Completion(c, "read", "error")) /\ UNCHANGED streamVars
           /\ ~Alive(c) \/ peer[c] = "lost"
  BY <1>0, <1>4, Zenon
<1> QED BY <1>1, <1>2, <1>3, <1>4, Zenon DEF FinishRead

LEMMA FinishReadServer ==
  ASSUME NEW c \in Conns, ServerInv, FinishRead(c)
  PROVE  ServerInv'
<1>0. /\ UNCHANGED <<tableVars, addr, acceptVars, clientVars, writes, workerVars, packVars, dangling>>
      /\ reads' = [reads EXCEPT ![c] = @ - 1] /\ reads[c] > 0
  BY DEF FinishRead, Intact
<1>1. PICK z \in {"part", "rest", "zero", "error"} :
        /\ port' = Append(port, Completion(c, "read", z))
        /\ z # "rest" => taken' = taken /\ swallowed' = swallowed
        /\ z = "rest" =>
             \E last \in taken[c] + 1 .. sent[c] :
               /\ taken' = [taken EXCEPT ![c] = last]
               /\ swallowed' = [swallowed EXCEPT ![c] = @ \cup taken[c] + 2 .. last]
  BY ReadEnds
<1> DEFINE m == Completion(c, "read", z)
<1>2. /\ m \in Completions
      /\ m.kind = "read" /\ m.size = "rest" => m.n <= MaxPackets
  <2>1. taken[c] \in 0 .. MaxPackets /\ sent[c] \in 0 .. MaxPackets
    BY DEF ServerInv, TypeOK
  <2>2. z = "rest" => taken[c] + 1 <= MaxPackets
    BY <1>1, <2>1
  <2> QED BY <2>1, <2>2 DEF Completion, Completions
<1> HIDE DEF m
<1>3. port' = Append(port, m)
  BY <1>1 DEF m
<1>4. RestType' /\ port' \in Seq(Completions)
  BY <1>0, <1>2, <1>3, PortGrows
<1>5. /\ taken' \in [Conns -> 0 .. MaxPackets] /\ \A d \in Conns : taken'[d] <= sent'[d]
      /\ swallowed' \in [Conns -> SUBSET (1 .. MaxPackets)]
  <2>1. /\ taken \in [Conns -> 0 .. MaxPackets] /\ sent \in [Conns -> 0 .. MaxPackets]
        /\ \A d \in Conns : taken[d] <= sent[d]
        /\ swallowed \in [Conns -> SUBSET (1 .. MaxPackets)]
    BY DEF ServerInv, TypeOK
  <2>2. sent' = sent
    BY <1>0
  <2>3. CASE z = "rest"
    <3>1. PICK last \in taken[c] + 1 .. sent[c] :
            /\ taken' = [taken EXCEPT ![c] = last]
            /\ swallowed' = [swallowed EXCEPT ![c] = @ \cup taken[c] + 2 .. last]
      BY <1>1, <2>3
    <3>2. last \in 0 .. MaxPackets /\ last <= sent[c]
      BY <2>1, <3>1
    <3>3. taken[c] + 2 .. last \subseteq 1 .. MaxPackets
      BY <2>1, <3>2
    <3>4. swallowed' \in [Conns -> SUBSET (1 .. MaxPackets)]
      BY <2>1, <3>1, <3>3
    <3> QED BY <2>1, <2>2, <3>1, <3>2, <3>4
  <2>4. CASE z # "rest"
    BY <1>1, <2>1, <2>2, <2>4
  <2> QED BY <2>3, <2>4
<1>6. TypeOK'
  <2>1. reads \in [Conns -> Nat]
    BY DEF ServerInv, TypeOK
  <2>2. reads' \in [Conns -> Nat]
    BY <1>0, <2>1
  <2>3. half' \in [Conns -> BOOLEAN] /\ garbled' \in [Conns -> BOOLEAN]
    BY ReadEnds
  <2> QED BY <1>0, <1>4, <1>5, <2>2, <2>3 DEF ServerInv, TypeOK
<1>7. TableInv'
  BY <1>0, TableKept
<1> QED BY <1>4, <1>6, <1>7 DEF ServerInv

LEMMA FinishWriteServer ==
  ASSUME NEW c \in Conns, ServerInv, FinishWrite(c)
  PROVE  ServerInv'
<1>0. /\ UNCHANGED <<tableVars, addr, acceptVars, clientVars, streamVars, reads, workerVars, packVars, dangling>>
      /\ writes' = [writes EXCEPT ![c] = @ - 1] /\ writes[c] > 0
  BY DEF FinishWrite, Intact
<1>1. PICK z \in {"part", "rest", "error"} : port' = Append(port, Completion(c, "write", z))
  BY DEF FinishWrite
<1> DEFINE m == Completion(c, "write", z)
<1>2. m \in Completions /\ m.kind # "read"
  <2>1. taken[c] \in 0 .. MaxPackets
    BY DEF ServerInv, TypeOK
  <2> QED BY <1>1, <2>1 DEF Completion, Completions
<1> HIDE DEF m
<1>3. port' = Append(port, m)
  BY <1>1 DEF m
<1>4. RestType' /\ port' \in Seq(Completions)
  BY <1>0, <1>2, <1>3, PortGrows
<1>6. TypeOK'
  <2>1. writes \in [Conns -> Nat]
    BY DEF ServerInv, TypeOK
  <2>2. writes' \in [Conns -> Nat]
    BY <1>0, <2>1
  <2> QED BY <1>0, <1>4, <2>2 DEF ServerInv, TypeOK
<1>7. TableInv'
  BY <1>0, TableKept
<1> QED BY <1>4, <1>6, <1>7 DEF ServerInv

LEMMA ClientServer ==
  ASSUME NEW c \in Conns, ServerInv, Client(c)
  PROVE  ServerInv'
<1>0. /\ UNCHANGED <<tableVars, addr, acceptVars, netVars, reads, workerVars, packVars, dangling>>
      /\ \/ sent[c] < MaxPackets /\ sent' = [sent EXCEPT ![c] = @ + 1] /\ peer' = peer
         \/ sent' = sent /\ \E how \in {"fin", "lost"} : peer' = [peer EXCEPT ![c] = how]
  BY DEF Client, ClientSend, ClientLeave, Intact
<1>1. /\ sent' \in [Conns -> 0 .. MaxPackets]
      /\ peer' \in [Conns -> {"none", "up", "fin", "lost"}]
      /\ \A d \in Conns : taken'[d] <= sent'[d]
  <2>1. /\ sent \in [Conns -> 0 .. MaxPackets] /\ taken \in [Conns -> 0 .. MaxPackets]
        /\ peer \in [Conns -> {"none", "up", "fin", "lost"}]
        /\ \A d \in Conns : taken[d] <= sent[d]
    BY DEF ServerInv, TypeOK
  <2>2. CASE sent[c] < MaxPackets /\ sent' = [sent EXCEPT ![c] = @ + 1] /\ peer' = peer
    <3>1. sent[c] + 1 \in 0 .. MaxPackets
      BY <2>1, <2>2
    <3> QED BY <1>0, <2>1, <2>2, <3>1
  <2>3. CASE sent' = sent /\ \E how \in {"fin", "lost"} : peer' = [peer EXCEPT ![c] = how]
    BY <1>0, <2>1, <2>3
  <2> QED BY <1>0, <2>2, <2>3
<1>2. TypeOK'
  BY <1>0, <1>1 DEF ServerInv, TypeOK
<1>3. TableInv' /\ RestType'
  BY <1>0, TableKept DEF ServerInv, RestType
<1> QED BY <1>2, <1>3 DEF ServerInv

LEMMA AcceptServer ==
  ASSUME NEW s \in Sessions, ServerInv, Accept(s)
  PROVE  ServerInv'
<1>0. /\ UNCHANGED <<members, nextId, addr, status, clientVars, netVars, reads, workerVars, packVars, dangling>>
      /\ apc = "accept" /\ nextId <= MaxClients
      /\ \/ apc' = "stopped" /\ held' = held /\ ids' = ids
         \/ /\ s \notin members /\ ids' = [ids EXCEPT ![s] = 0]
            /\ \/ apc' = "add" /\ held' = s
               \/ apc' = "check" /\ held' = held
  BY DEF Accept, Intact
<1>1. ids' \in [Sessions -> 0 .. MaxClients] /\ \A r \in members : ids'[r] = ids[r]
  <2>1. ids \in [Sessions -> 0 .. MaxClients] /\ members \subseteq Sessions /\ 0 \in 0 .. MaxClients
    BY DEF ServerInv, TypeOK
  <2> QED BY <1>0, <2>1
<1>2. TypeOK'
  BY <1>0, <1>1 DEF ServerInv, TypeOK
<1>3. TableInv' /\ RestType'
  BY <1>0, <1>1 DEF ServerInv, TableInv, RestType
<1> QED BY <1>2, <1>3 DEF ServerInv

LEMMA AddHeldServer ==
  ASSUME ServerInv, AddHeld
  PROVE  ServerInv' /\ nextId \in Conns
<1>0. /\ UNCHANGED <<status, held, sent, netVars, reads, workerVars, packVars, dangling>>
      /\ apc = "add" /\ apc' = "attach"
      /\ held \notin members /\ members' = members \cup {held}
      /\ ids' = [ids EXCEPT ![held] = nextId]
      /\ nextId' = nextId + 1
      /\ addr' = [addr EXCEPT ![nextId] = held]
      /\ peer' = [peer EXCEPT ![nextId] = "up"]
  BY DEF AddHeld, Intact
<1>1. nextId \in Conns /\ nextId' \in 1 .. MaxClients + 1 /\ held \in Sessions
  BY <1>0, SMTT(30) DEF ServerInv, TypeOK, TableInv, Conns
<1>2. /\ ids' \in [Sessions -> 0 .. MaxClients]
      /\ addr' \in [Conns -> Sessions \cup {NoSession}]
      /\ peer' \in [Conns -> {"none", "up", "fin", "lost"}]
      /\ members' \subseteq Sessions
  BY <1>0, <1>1 DEF ServerInv, TypeOK, Conns
<1>3. TypeOK'
  BY <1>0, <1>1, <1>2 DEF ServerInv, TypeOK
<1>4. TableInv'
  <2>1. /\ ids \in [Sessions -> 0 .. MaxClients] /\ nextId \in Nat
        /\ addr \in [Conns -> Sessions \cup {NoSession}] /\ members \subseteq Sessions
        /\ \A r \in members : ids[r] \in 1 .. nextId - 1 /\ addr[ids[r]] = r
        /\ \A c \in Conns : c >= nextId => addr[c] = NoSession
    BY DEF ServerInv, TypeOK, TableInv
  <2>2. \A r \in members' : ids'[r] \in 1 .. nextId' - 1 /\ addr'[ids'[r]] = r
    <3> SUFFICES ASSUME NEW r \in members'
                 PROVE  ids'[r] \in 1 .. nextId' - 1 /\ addr'[ids'[r]] = r
      OBVIOUS
    <3>1. CASE r = held
      <4>1. ids'[held] = nextId /\ addr'[nextId] = held
        BY <1>0, <1>1, <2>1
      <4>2. nextId \in 1 .. nextId' - 1
        BY <1>0, <1>1, <2>1 DEF Conns
      <4> QED BY <3>1, <4>1, <4>2
    <3>2. CASE r # held
      <4>1. r \in members /\ ids'[r] = ids[r] /\ ids[r] \in Conns /\ ids[r] # nextId
        BY <1>0, <1>1, <2>1, <3>2 DEF Conns
      <4> QED BY <1>0, <2>1, <4>1
    <3> QED BY <3>1, <3>2
  <2>3. \A c \in Conns : c >= nextId' => addr'[c] = NoSession
    BY <1>0, <2>1 DEF Conns
  <2> QED BY <1>0, <2>1, <2>2, <2>3 DEF TableInv
<1>5. RestType'
  BY <1>0 DEF ServerInv, RestType
<1> QED BY <1>1, <1>3, <1>4, <1>5 DEF ServerInv

LEMMA AcceptThreadServer ==
  ASSUME ServerInv, AcceptThread
  PROVE  ServerInv'
<1>1. CASE AddHeld
  BY <1>1, AddHeldServer
<1>2. CASE RefuseHeld \/ CheckStatus
  <2>0. /\ UNCHANGED <<tableVars, addr, status, clientVars, netVars, reads, workerVars, packVars, dangling>>
        /\ \/ apc = "add" /\ apc' = "check" /\ held' = NoSession
           \/ apc = "check" /\ apc' \in {"accept", "stopped"} /\ held' = held
    BY <1>2 DEF RefuseHeld, CheckStatus, Intact
  <2>1. TypeOK'
    BY <2>0 DEF ServerInv, TypeOK
  <2>2. TableInv' /\ RestType'
    BY <2>0 DEF ServerInv, TypeOK, TableInv, RestType
  <2> QED BY <2>1, <2>2 DEF ServerInv
<1>3. CASE Attach \/ StandBy
  <2>0. /\ UNCHANGED <<tableVars, addr, status, clientVars, netVars, workerVars, packVars>>
        /\ apc \in {"attach", "standby"} /\ HeldConn \in Conns
        /\ \/ apc' \in {"attach", "standby"} /\ held' = held /\ apc = "attach"
           \/ apc' = "check" /\ held' = NoSession
        /\ reads' = reads \/ reads' = [reads EXCEPT ![HeldConn] = @ + 1]
        /\ dangling' = dangling \/ dangling'.conn = HeldConn
    <3>1. apc \in {"attach", "standby"}
      BY <1>3 DEF Attach, StandBy
    <3>2. HeldConn \in Conns
      BY <3>1 DEF ServerInv, TypeOK, TableInv, Conns
    <3> QED BY <1>3, <3>1, <3>2 DEF Attach, StandBy, Intact, UseOfFreed, PostRead
  <2>1. TypeOK'
    <3>1. reads \in [Conns -> Nat]
      BY DEF ServerInv, TypeOK
    <3>2. reads' \in [Conns -> Nat]
      BY <2>0, <3>1
    <3> QED BY <2>0, <3>2 DEF ServerInv, TypeOK
  <2>2. TableInv' /\ RestType'
    BY <2>0, TableKept DEF ServerInv, RestType
  <2> QED BY <2>1, <2>2 DEF ServerInv
<1> QED BY <1>1, <1>2, <1>3 DEF AcceptThread

\* A session that is closed leaves the table.
LEMMA CloseServer ==
  ASSUME NEW c \in Conns, ServerInv, CloseConn(c), UNCHANGED <<addr, acceptVars>>
  PROVE  /\ TableInv' /\ UNCHANGED <<ids, nextId>>
         /\ members' = members \ {addr[c]} /\ members' \subseteq Sessions
BY DEF CloseConn, ServerInv, TypeOK, TableInv

\* The types of what most steps change, one by one.
LEMMA WorkerTypes ==
  ASSUME ServerInv
  PROVE  /\ wpc \in [Workers -> {"wait", "handle", "put"}]
         /\ job \in [Workers -> Completions \cup {NoJob}]
         /\ \A w \in Workers : IF wpc[w] = "wait" THEN job[w] = NoJob ELSE job[w] \in Completions
BY DEF ServerInv, TypeOK

LEMMA ConnTypes ==
  ASSUME ServerInv
  PROVE  /\ reads \in [Conns -> Nat] /\ writes \in [Conns -> Nat]
         /\ peer \in [Conns -> {"none", "up", "fin", "lost"}]
         /\ replies \in [Conns -> 0 .. MaxReplies]
         /\ delivered \in [Conns -> Seq(1 .. MaxPackets)]
BY DEF ServerInv, TypeOK

\* The worker is done with its completion.
LEMMA WorkerDone ==
  ASSUME NEW w \in Workers, ServerInv, BackToWait(w), port' = port
  PROVE  /\ RestType'
         /\ wpc' \in [Workers -> {"wait", "handle", "put"}]
         /\ job' \in [Workers -> Completions \cup {NoJob}]
         /\ \A v \in Workers : IF wpc'[v] = "wait" THEN job'[v] = NoJob ELSE job'[v] \in Completions
<1>0. /\ wpc' = [wpc EXCEPT ![w] = "wait"] /\ job' = [job EXCEPT ![w] = NoJob]
      /\ wpc \in [Workers -> {"wait", "handle", "put"}]
      /\ job \in [Workers -> Completions \cup {NoJob}]
      /\ \A v \in Workers : IF wpc[v] = "wait" THEN job[v] = NoJob ELSE job[v] \in Completions
  BY DEF BackToWait, ServerInv, TypeOK
<1>1. RestType'
  BY <1>0 DEF ServerInv, RestType
<1> QED BY <1>0, <1>1

LEMMA DequeueServer ==
  ASSUME NEW w \in Workers, ServerInv, Dequeue(w)
  PROVE  ServerInv'
<1>0. /\ UNCHANGED <<tableVars, addr, acceptVars, clientVars, streamVars, writes, reads, packVars, dangling>>
      /\ port # <<>> /\ port' = Tail(port)
      /\ \/ UNCHANGED workerVars
         \/ /\ Head(port).size # "error"
            /\ job' = [job EXCEPT ![w] = Head(port)]
            /\ wpc' = [wpc EXCEPT ![w] = "handle"]
  BY DEF Dequeue, Intact
<1>1. /\ port \in Seq(Completions) /\ Len(port) > 0 /\ port' \in Seq(Completions)
      /\ Head(port) \in Completions /\ Head(port) = port[1] /\ 1 \in DOMAIN port
      /\ \A i \in DOMAIN port' : i + 1 \in DOMAIN port /\ port'[i] = port[i + 1]
  BY <1>0 DEF ServerInv, TypeOK
<1>2. /\ wpc' \in [Workers -> {"wait", "handle", "put"}]
      /\ job' \in [Workers -> Completions \cup {NoJob}]
      /\ \A v \in Workers : IF wpc'[v] = "wait" THEN job'[v] = NoJob ELSE job'[v] \in Completions
  <2>1. CASE UNCHANGED workerVars
    BY <2>1, WorkerTypes
  <2>2. CASE job' = [job EXCEPT ![w] = Head(port)] /\ wpc' = [wpc EXCEPT ![w] = "handle"]
    <3> HIDE DEF Completions
    <3>1. Head(port) \in Completions BY <1>1
    <3> QED BY <2>2, <3>1, WorkerTypes
  <2> QED BY <1>0, <2>1, <2>2
<1>3. TypeOK'
  BY <1>0, <1>1, <1>2 DEF ServerInv, TypeOK
<1>4. RestType'
  <2>1. \A i \in DOMAIN port' :
          port'[i].kind = "read" /\ port'[i].size = "rest" => port'[i].n <= MaxPackets
    BY <1>1 DEF ServerInv, RestType
  <2>2. \A v \in Workers :
          /\ wpc'[v] = "put" => job'[v].kind = "read" /\ job'[v].size = "rest"
          /\ wpc'[v] # "wait" /\ job'[v].kind = "read" /\ job'[v].size = "rest" => job'[v].n <= MaxPackets
          /\ wpc'[v] # "wait" => job'[v].size # "error"
    <3> SUFFICES ASSUME NEW v \in Workers
                 PROVE  /\ wpc'[v] = "put" => job'[v].kind = "read" /\ job'[v].size = "rest"
                        /\ wpc'[v] # "wait" /\ job'[v].kind = "read" /\ job'[v].size = "rest"
                             => job'[v].n <= MaxPackets
                        /\ wpc'[v] # "wait" => job'[v].size # "error"
      OBVIOUS
    <3>1. CASE wpc'[v] = wpc[v] /\ job'[v] = job[v]
      BY <3>1 DEF ServerInv, RestType
    <3>2. CASE wpc'[v] = "handle" /\ job'[v] = Head(port) /\ Head(port).size # "error"
      BY <1>1, <3>2 DEF ServerInv, RestType
    <3> QED BY <1>0, <3>1, <3>2 DEF ServerInv, TypeOK
  <2> QED BY <2>1, <2>2 DEF RestType
<1>5. TableInv'
  BY <1>0, TableKept
<1> QED BY <1>3, <1>4, <1>5 DEF ServerInv

LEMMA HandleServer ==
  ASSUME NEW w \in Workers, ServerInv, Handle(w)
  PROVE  ServerInv'
<1>0. /\ wpc[w] # "wait" /\ job[w] \in Completions /\ job[w].conn \in Conns
      /\ UNCHANGED <<addr, acceptVars, clientVars, streamVars, port, replies, outside>>
  <2>1. wpc[w] # "wait"
    BY DEF Handle, HandleFreed, HandleZero, HandleSent, HandlePart, HandleBadPacket, HandlePacket,
           PutPackage, Handling
  <2>2. job[w] \in Completions /\ job[w].conn \in Conns
    BY <2>1 DEF ServerInv, TypeOK, Completions
  <2> QED BY <2>1, <2>2
          DEF Handle, HandleFreed, HandleZero, HandleSent, HandlePart, HandleBadPacket, HandlePacket,
              PutPackage
<1> DEFINE c == job[w].conn
<1>1. CASE HandleFreed(w)
  <2>0. /\ UNCHANGED <<tableVars, reads, writes, contents, delivered>> /\ BackToWait(w)
        /\ dangling'.conn = c
    BY <1>1 DEF HandleFreed, UseOfFreed
  <2> QED BY <1>0, <2>0, TableKept, WorkerDone DEF ServerInv, TypeOK
<1>2. CASE HandleZero(w) \/ HandleBadPacket(w)
  <2>0. UNCHANGED <<reads, writes, contents, delivered, dangling>> /\ BackToWait(w) /\ CloseConn(c)
    BY <1>2 DEF HandleZero, HandleBadPacket, Intact
  <2> QED BY <1>0, <2>0, CloseServer, WorkerDone DEF ServerInv, TypeOK
<1>3. CASE HandleSent(w)
  <2>0. /\ UNCHANGED <<tableVars, reads, contents, delivered, dangling>> /\ BackToWait(w)
        /\ writes' = writes \/ writes' = [writes EXCEPT ![c] = @ + 1]
    BY <1>3 DEF HandleSent, Intact
  <2>1. writes' \in [Conns -> Nat]
    <3>1. writes \in [Conns -> Nat]
      BY DEF ServerInv, TypeOK
    <3> QED BY <1>0, <2>0, <3>1
  <2> QED BY <1>0, <2>0, <2>1, TableKept, WorkerDone DEF ServerInv, TypeOK
<1>4. CASE HandlePart(w)
  <2>0. /\ UNCHANGED <<tableVars, writes, contents, delivered, dangling>> /\ BackToWait(w)
        /\ reads' = reads \/ reads' = [reads EXCEPT ![c] = @ + 1]
    BY <1>4 DEF HandlePart, Intact, PostRead
  <2>1. reads' \in [Conns -> Nat]
    <3>1. reads \in [Conns -> Nat]
      BY DEF ServerInv, TypeOK
    <3> QED BY <1>0, <2>0, <3>1
  <2> QED BY <1>0, <2>0, <2>1, TableKept, WorkerDone DEF ServerInv, TypeOK
<1>5. CASE HandlePacket(w)
  <2>0. /\ UNCHANGED <<tableVars, writes, contents, delivered, dangling, job>>
        /\ wpc' = [wpc EXCEPT ![w] = "put"] /\ job[w].kind = "read" /\ job[w].size = "rest"
        /\ reads' = reads \/ reads' = [reads EXCEPT ![c] = @ + 1]
    BY <1>5 DEF HandlePacket, Handling, Intact, PostRead
  <2>1. reads' \in [Conns -> Nat]
    <3>1. reads \in [Conns -> Nat]
      BY DEF ServerInv, TypeOK
    <3> QED BY <1>0, <2>0, <3>1
  <2>2. /\ wpc' \in [Workers -> {"wait", "handle", "put"}]
        /\ \A v \in Workers : IF wpc'[v] = "wait" THEN job'[v] = NoJob ELSE job'[v] \in Completions
    BY <1>0, <2>0 DEF ServerInv, TypeOK
  <2>3. TypeOK'
    BY <1>0, <2>0, <2>1, <2>2 DEF ServerInv, TypeOK
  <2>4. RestType'
    BY <1>0, <2>0 DEF ServerInv, TypeOK, RestType
  <2> QED BY <1>0, <2>0, <2>3, <2>4, TableKept DEF ServerInv
<1>6. CASE PutPackage(w)
  <2>0. /\ UNCHANGED <<tableVars, reads, writes, dangling>> /\ BackToWait(w)
        /\ contents' = Append(contents, c)
        /\ delivered' = [delivered EXCEPT ![c] = Append(@, job[w].n)]
        /\ wpc[w] = "put"
    BY <1>6 DEF PutPackage, Intact
  <2>1. job[w].n \in 1 .. MaxPackets
    BY <1>0, <2>0 DEF ServerInv, RestType, Completions
  <2>2. delivered' \in [Conns -> Seq(1 .. MaxPackets)] /\ contents' \in Seq(Conns)
    <3>1. delivered \in [Conns -> Seq(1 .. MaxPackets)] /\ contents \in Seq(Conns)
      BY DEF ServerInv, TypeOK
    <3>2. Append(delivered[c], job[w].n) \in Seq(1 .. MaxPackets)
      BY <1>0, <2>1, <3>1
    <3> QED BY <1>0, <2>0, <3>1, <3>2
  <2> QED BY <1>0, <2>0, <2>2, TableKept, WorkerDone DEF ServerInv, TypeOK
<1> QED BY <1>1, <1>2, <1>3, <1>4, <1>5, <1>6 DEF Handle

\* A buffer that was garbled stays so.
LEMMA GarbledType ==
  ASSUME ServerInv, ContentsDone \/ ContentsReply
  PROVE  /\ garbled' \in [Conns -> BOOLEAN]
         /\ \A d \in Conns : garbled[d] => garbled'[d]
<1>0. garbled \in [Conns -> BOOLEAN] /\ half \in [Conns -> BOOLEAN]
  BY DEF ServerInv, TypeOK
<1>1. CASE garbled' = garbled
  BY <1>0, <1>1
<1>2. ASSUME NEW c, garbled' = [garbled EXCEPT ![c] = @ \/ half[c] \/ RestUnread(c)]
      PROVE  garbled' \in [Conns -> BOOLEAN] /\ \A d \in Conns : garbled[d] => garbled'[d]
  <2> DEFINE q == half[c] \/ RestUnread(c)
  <2>1. q \in BOOLEAN /\ garbled' = [garbled EXCEPT ![c] = @ \/ q]
    BY <1>2, Zenon
  <2> QED BY <1>0, <2>1, Zenon
<1> QED BY <1>1, <1>2, Zenon DEF ContentsDone, ContentsReply

LEMMA ContentsServer ==
  ASSUME ServerInv, ContentsDone \/ ContentsReply
  PROVE  ServerInv'
<1>1. contents \in Seq(Conns) /\ contents # <<>> /\ Head(contents) \in Conns /\ Tail(contents) \in Seq(Conns)
  BY DEF ContentsDone, ContentsReply, ServerInv, TypeOK
<1> PICK c \in Conns : c = Head(contents)
  BY <1>1
<1>2. /\ UNCHANGED <<tableVars, addr, acceptVars, clientVars, taken, half, swallowed, port, workerVars,
                     delivered, outside>>
      /\ contents' = Tail(contents)
      /\ replies' = replies \/ (replies[c] < MaxReplies /\ replies' = [replies EXCEPT ![c] = @ + 1])
      /\ writes' = writes \/ writes' = [writes EXCEPT ![c] = @ + 1]
      /\ reads' = reads \/ reads' = [reads EXCEPT ![c] = @ + 1]
      /\ dangling' = dangling \/ dangling'.conn = c
  <2>1. CASE ContentsDone
    BY <2>1 DEF ContentsDone, Intact
  <2>2. CASE ContentsReply
    BY <2>2 DEF ContentsReply, Intact, UseOfFreed, PostRead
  <2> QED BY <2>1, <2>2
<1>g. garbled' \in [Conns -> BOOLEAN]
  BY GarbledType
<1>3. reads' \in [Conns -> Nat] /\ writes' \in [Conns -> Nat]
  <2>1. reads \in [Conns -> Nat] /\ writes \in [Conns -> Nat]
    BY DEF ServerInv, TypeOK
  <2>2. [reads EXCEPT ![c] = @ + 1] \in [Conns -> Nat]
    BY <2>1
  <2>3. [writes EXCEPT ![c] = @ + 1] \in [Conns -> Nat]
    BY <2>1
  <2> QED BY <1>2, <2>1, <2>2, <2>3
<1>4. replies' \in [Conns -> 0 .. MaxReplies]
  <2>1. replies \in [Conns -> 0 .. MaxReplies]
    BY DEF ServerInv, TypeOK
  <2>2. replies[c] < MaxReplies => replies[c] + 1 \in 0 .. MaxReplies
    BY <1>1, <2>1
  <2> QED BY <1>1, <1>2, <2>1, <2>2
<1>5. TypeOK'
  BY <1>1, <1>2, <1>3, <1>4, <1>g DEF ServerInv, TypeOK
<1>6. TableInv' /\ RestType'
  BY <1>2, TableKept DEF ServerInv, RestType
<1> QED BY <1>5, <1>6 DEF ServerInv

LEMMA ServerStep ==
  ASSUME ServerInv, [Next]_vars
  PROVE  ServerInv'
<1>1. CASE RunReady
  <2>0. /\ UNCHANGED <<tableVars, addr, apc, held, clientVars, netVars, reads, workerVars, packVars, dangling>>
        /\ status' = "ready"
    BY <1>1 DEF RunReady, Intact
  <2> QED BY <2>0, TableKept DEF ServerInv, TypeOK, RestType
<1>2. CASE \E c \in Conns : OutsideClose(c)
  <2> PICK c \in Conns : OutsideClose(c)
    BY <1>2
  <2>0. /\ CloseConn(c) /\ outside' = outside \cup {c}
        /\ UNCHANGED <<addr, acceptVars, clientVars, netVars, reads, workerVars, contents, delivered,
                      replies, dangling>>
    BY DEF OutsideClose, Intact
  <2> QED BY <2>0, CloseServer DEF ServerInv, TypeOK, RestType
<1>3. CASE UNCHANGED vars
  BY <1>3, TableKept DEF vars, ServerInv, TypeOK, RestType
<1> QED
  BY <1>1, <1>2, <1>3, AcceptServer, AcceptThreadServer, ClientServer, FinishReadServer,
     FinishWriteServer, DequeueServer, HandleServer, ContentsServer DEF Next

LEMMA ServerInit ==
  ASSUME Init
  PROVE  ServerInv
BY DEF Init, ServerInv, TypeOK, TableInv, RestType, NoUse, Conns

THEOREM ServerInvariant == Spec => []ServerInv
<1> QED BY ServerInit, ServerStep, PTL DEF Spec

\* Every variable of the server keeps its type, and the accept thread has a session in hand
\* from OnAccept until it is attached, or deleted.
THEOREM TypeCorrect == Spec => []TypeOK
<1>1. ServerInv => TypeOK
  BY DEF ServerInv
<1> QED BY <1>1, ServerInvariant, PTL

-----------------------------------------------------------------------------
(* A connection that is to come.                                           *)

LEMMA SeqAppend ==
  ASSUME NEW S, NEW q \in Seq(S), NEW m
  PROVE  /\ Len(q) \in Nat
         /\ DOMAIN q = 1 .. Len(q) /\ DOMAIN Append(q, m) = 1 .. Len(q) + 1
         /\ \A i \in DOMAIN q : i \in DOMAIN Append(q, m) /\ Append(q, m)[i] = q[i]
         /\ Append(q, m)[Len(q) + 1] = m
OBVIOUS

LEMMA SeqTail ==
  ASSUME NEW S, NEW q \in Seq(S), q # <<>>
  PROVE  /\ Len(q) \in Nat \ {0}
         /\ DOMAIN q = 1 .. Len(q) /\ DOMAIN Tail(q) = 1 .. Len(q) - 1
         /\ \A i \in DOMAIN Tail(q) : i + 1 \in DOMAIN q /\ Tail(q)[i] = q[i + 1]
         /\ Head(q) = q[1] /\ 1 \in DOMAIN q
OBVIOUS

LEMMA PortAppend ==
  ASSUME ServerInv, NEW m, port' = Append(port, m)
  PROVE  /\ Len(port) \in Nat
         /\ DOMAIN port = 1 .. Len(port) /\ DOMAIN port' = 1 .. Len(port) + 1
         /\ \A i \in DOMAIN port : i \in DOMAIN port' /\ port'[i] = port[i]
         /\ port'[Len(port) + 1] = m
BY SeqAppend DEF ServerInv, TypeOK

LEMMA PortTail ==
  ASSUME ServerInv, port # <<>>, port' = Tail(port)
  PROVE  /\ Len(port) \in Nat \ {0}
         /\ DOMAIN port = 1 .. Len(port) /\ DOMAIN port' = 1 .. Len(port) - 1
         /\ \A i \in DOMAIN port' : i + 1 \in DOMAIN port /\ port'[i] = port[i + 1]
         /\ Head(port) = port[1] /\ 1 \in DOMAIN port
BY SeqTail DEF ServerInv, TypeOK

\* A package of another connection comes to ContentsProcess, or one is taken.
LEMMA ContentsOf ==
  ASSUME ServerInv, NEW c \in Conns, \A i \in DOMAIN contents : contents[i] # c,
         \/ \E d \in Conns \ {c} : contents' = Append(contents, d)
         \/ contents # <<>> /\ contents' = Tail(contents)
  PROVE  \A i \in DOMAIN contents' : contents'[i] # c
<1>0. contents \in Seq(Conns)
  BY DEF ServerInv, TypeOK
<1>1. ASSUME NEW d \in Conns \ {c}, contents' = Append(contents, d)
      PROVE  \A i \in DOMAIN contents' : contents'[i] # c
  BY <1>0, <1>1, SeqAppend
<1>2. CASE contents # <<>> /\ contents' = Tail(contents)
  BY <1>0, <1>2, SeqTail
<1> QED BY <1>1, <1>2

LEMMA FreshShrinks ==
  ASSUME ServerInv, [Next]_vars, NEW c \in Conns, Fresh(c)'
  PROVE  Fresh(c)
<1>0. nextId \in 1 .. MaxClients + 1 /\ c \in Nat
  BY DEF ServerInv, TypeOK, Conns
<1>1. CASE AcceptThread
  BY <1>0, <1>1 DEF AcceptThread, AddHeld, RefuseHeld, Attach, StandBy, CheckStatus, Fresh, FirstComing
<1>2. CASE \E s \in Sessions : Accept(s)
  BY <1>0, <1>2 DEF Accept, Fresh, FirstComing
<1>3. CASE nextId' = nextId /\ apc' = apc
  BY <1>0, <1>3 DEF Fresh, FirstComing
<1>4. CASE RunReady \/ ContentsDone \/ ContentsReply \/ UNCHANGED vars
  BY <1>3, <1>4 DEF RunReady, ContentsDone, ContentsReply, vars
<1>5. CASE \E d \in Conns : Client(d) \/ FinishRead(d) \/ FinishWrite(d) \/ OutsideClose(d)
  BY <1>3, <1>5 DEF Client, FinishRead, FinishWrite, OutsideClose, CloseConn
<1>6. CASE \E w \in Workers : Dequeue(w) \/ Handle(w)
  BY <1>3, <1>6 DEF Dequeue, Handle, HandleFreed, HandleZero, HandleSent, HandlePart,
                    HandleBadPacket, HandlePacket, PutPackage, CloseConn
<1> QED BY <1>1, <1>2, <1>4, <1>5, <1>6 DEF Next

\* Nothing is done to the connection.
LEMMA UntouchedKept ==
  ASSUME NEW c \in Conns, Untouched(c), reads'[c] = reads[c], writes'[c] = writes[c],
         taken'[c] = taken[c], UNCHANGED <<port, workerVars, packVars>>
  PROVE  Untouched(c)'
BY DEF Untouched

LEMMA FreshStep ==
  ASSUME ServerInv, ServerInv', FreshInv, [Next]_vars
  PROVE  FreshInv'
<1> SUFFICES ASSUME NEW c \in Conns, Fresh(c)'
             PROVE  Untouched(c)'
  BY DEF FreshInv
<1>0. Fresh(c) /\ Untouched(c)
  BY FreshShrinks DEF FreshInv
<1>1. CASE RunReady \/ ContentsDone \/ UNCHANGED vars
  <2>1. UNCHANGED <<reads, writes, taken, port, workerVars, delivered, replies>>
    BY <1>1 DEF RunReady, ContentsDone, vars
  <2>2. CASE UNCHANGED contents
    BY <1>0, <2>1, <2>2 DEF Untouched
  <2>3. CASE ContentsDone
    BY <1>0, <2>1, <2>3, ContentsOf DEF Untouched, ContentsDone
  <2> QED BY <1>1, <2>2, <2>3 DEF RunReady, vars
<1>2. CASE AcceptThread \/ \E s \in Sessions : Accept(s)
  <2>1. UNCHANGED <<writes, taken, port, workerVars, packVars>>
    BY <1>2 DEF AcceptThread, AddHeld, RefuseHeld, Attach, StandBy, CheckStatus, Accept
  <2>2. reads'[c] = reads[c]
    <3>1. CASE StandBy
      <4>1. c # HeldConn
        BY <1>0, <3>1 DEF StandBy, Fresh, FirstComing, ServerInv, TypeOK, Conns
      <4> QED BY <3>1, <4>1 DEF StandBy, PostRead, ServerInv, TypeOK
    <3>2. CASE ~StandBy
      BY <1>2, <3>2 DEF AcceptThread, AddHeld, RefuseHeld, Attach, CheckStatus, Accept
    <3> QED BY <3>1, <3>2
  <2> QED BY <1>0, <2>1, <2>2, UntouchedKept
<1>3. CASE \E d \in Conns : Client(d) \/ OutsideClose(d)
  BY <1>0, <1>3 DEF Client, OutsideClose, Untouched
<1>4. ASSUME NEW d \in Conns, FinishRead(d) \/ FinishWrite(d)
      PROVE  Untouched(c)'
  <2>1. d # c
    BY <1>0, <1>4 DEF FinishRead, FinishWrite, Untouched
  <2>2. /\ UNCHANGED <<workerVars, packVars>>
        /\ reads'[c] = reads[c] /\ writes'[c] = writes[c] /\ taken'[c] = taken[c]
    <3>1. CASE FinishWrite(d)
      BY <2>1, <3>1 DEF FinishWrite, ServerInv, TypeOK
    <3>2. CASE FinishRead(d)
      <4>1. taken'[c] = taken[c]
        <5>1. taken' = taken \/ \E last : taken' = [taken EXCEPT ![d] = last]
          BY <3>2, ReadEnds, Zenon
        <5> QED BY <2>1, <5>1 DEF ServerInv, TypeOK
      <4> QED BY <2>1, <3>2, <4>1 DEF FinishRead, ServerInv, TypeOK
    <3> QED BY <1>4, <3>1, <3>2
  <2>3. PICK m : m.conn = d /\ port' = Append(port, m)
    <3>1. \E kind, size : port' = Append(port, Completion(d, kind, size))
      BY <1>4, ReadEnds, Zenon DEF FinishWrite
    <3> QED BY <3>1 DEF Completion
  <2>4. \A i \in DOMAIN port' : port'[i].conn # c
    BY <1>0, <2>1, <2>3, PortAppend DEF Untouched
  <2> QED BY <1>0, <2>2, <2>4 DEF Untouched
<1>5. ASSUME NEW w \in Workers, Dequeue(w)
      PROVE  Untouched(c)'
  <2>0. /\ UNCHANGED <<reads, writes, taken, packVars>> /\ port # <<>> /\ port' = Tail(port)
        /\ \/ UNCHANGED workerVars
           \/ wpc' = [wpc EXCEPT ![w] = "handle"] /\ job' = [job EXCEPT ![w] = Head(port)]
    BY <1>5 DEF Dequeue
  <2>1. Head(port).conn # c /\ \A i \in DOMAIN port' : port'[i].conn # c
    BY <1>0, <2>0, PortTail DEF Untouched
  <2>2. \A v \in Workers : wpc'[v] # "wait" => job'[v].conn # c
    BY <1>0, <2>0, <2>1 DEF Untouched, ServerInv, TypeOK
  <2> QED BY <1>0, <2>0, <2>1, <2>2 DEF Untouched
<1>6. ASSUME NEW w \in Workers, Handle(w)
      PROVE  Untouched(c)'
  <2>1. wpc[w] # "wait" /\ job[w].conn \in Conns
    BY <1>6 DEF Handle, HandleFreed, HandleZero, HandleSent, HandlePart, HandleBadPacket,
                HandlePacket, PutPackage, Handling, ServerInv, TypeOK, Completions
  <2>2. job[w].conn # c
    BY <1>0, <2>1 DEF Untouched
  <2>3. /\ taken' = taken /\ port' = port /\ replies' = replies
        /\ \/ BackToWait(w)
           \/ wpc' = [wpc EXCEPT ![w] = "put"] /\ job' = job
        /\ \/ reads' = reads
           \/ reads' = [reads EXCEPT ![job[w].conn] = @ + 1]
        /\ \/ writes' = writes
           \/ writes' = [writes EXCEPT ![job[w].conn] = @ + 1]
        /\ \/ UNCHANGED <<contents, delivered>>
           \/ /\ contents' = Append(contents, job[w].conn)
              /\ delivered' = [delivered EXCEPT ![job[w].conn] = Append(@, job[w].n)]
    BY <1>6 DEF Handle, HandleFreed, HandleZero, HandleSent, HandlePart, HandleBadPacket,
                HandlePacket, PutPackage, PostRead
  <2>4. /\ reads'[c] = reads[c] /\ writes'[c] = writes[c] /\ delivered'[c] = delivered[c]
    BY <2>2, <2>3, ConnTypes
  <2>5. \A v \in Workers : wpc'[v] # "wait" => job'[v].conn # c
    <3>1. CASE BackToWait(w)
      BY <1>0, <3>1 DEF BackToWait, Untouched, ServerInv, TypeOK
    <3>2. CASE wpc' = [wpc EXCEPT ![w] = "put"] /\ job' = job
      BY <1>0, <2>2, <3>2 DEF Untouched, ServerInv, TypeOK
    <3> QED BY <2>3, <3>1, <3>2
  <2>6. \A i \in DOMAIN contents' : contents'[i] # c
    BY <1>0, <2>1, <2>2, <2>3, ContentsOf DEF Untouched
  <2> QED BY <1>0, <2>3, <2>4, <2>5, <2>6 DEF Untouched
<1>7. CASE ContentsReply
  <2>0. /\ UNCHANGED <<taken, port, workerVars, delivered>>
        /\ contents # <<>> /\ contents' = Tail(contents)
        /\ replies' = replies \/ replies' = [replies EXCEPT ![Head(contents)] = @ + 1]
        /\ reads' = reads \/ reads' = [reads EXCEPT ![Head(contents)] = @ + 1]
        /\ writes' = writes \/ writes' = [writes EXCEPT ![Head(contents)] = @ + 1]
    BY <1>7 DEF ContentsReply, PostRead
  <2>1. Head(contents) # c /\ \A i \in DOMAIN contents' : contents'[i] # c
    BY <1>0, <2>0, ContentsOf, SeqTail DEF Untouched, ServerInv, TypeOK
  <2>2. reads'[c] = reads[c] /\ writes'[c] = writes[c] /\ replies'[c] = replies[c]
    <3>1. reads'[c] = reads[c]
      BY <2>0, <2>1, ConnTypes
    <3>2. writes'[c] = writes[c]
      BY <2>0, <2>1, ConnTypes
    <3>3. replies'[c] = replies[c]
      BY <2>0, <2>1, ConnTypes
    <3> QED BY <3>1, <3>2, <3>3
  <2> QED BY <1>0, <2>0, <2>1, <2>2 DEF Untouched
<1> QED BY <1>1, <1>2, <1>3, <1>4, <1>5, <1>6, <1>7 DEF Next

THEOREM FreshInvariant == Spec => []FreshInv
<1>1. Init => FreshInv
  BY DEF Init, FreshInv, Untouched
<1> QED BY <1>1, FreshStep, ServerInvariant, PTL DEF Spec

-----------------------------------------------------------------------------
(* The sessions that live.                                                 *)

LEMMA AliveKept ==
  ASSUME NEW c \in Conns, UNCHANGED <<members, ids, addr>>
  PROVE  Alive(c)' <=> Alive(c)
BY DEF Alive

LEMMA AliveAccept ==
  ASSUME ServerInv, NEW s \in Sessions, Accept(s), NEW c \in Conns
  PROVE  Alive(c)' <=> Alive(c)
<1>1. /\ members' = members /\ addr' = addr
      /\ ids' = ids \/ (s \notin members /\ ids' = [ids EXCEPT ![s] = 0])
  BY DEF Accept
<1> QED BY <1>1 DEF Alive, ServerInv, TypeOK

LEMMA AliveAdd ==
  ASSUME ServerInv, AddHeld, NEW c \in Conns
  PROVE  Alive(c)' <=> Alive(c) \/ c = nextId
<1>1. /\ held \notin members /\ held \in Sessions /\ members' = members \cup {held}
      /\ ids' = [ids EXCEPT ![held] = nextId] /\ addr' = [addr EXCEPT ![nextId] = held]
      /\ ids \in [Sessions -> 0 .. MaxClients] /\ members \subseteq Sessions
      /\ addr \in [Conns -> Sessions \cup {NoSession}]
  BY DEF AddHeld, ServerInv, TypeOK
<1> QED BY <1>1 DEF Alive

LEMMA AliveClose ==
  ASSUME ServerInv, NEW d \in Conns, CloseConn(d), addr' = addr, NEW c \in Conns
  PROVE  Alive(c)' <=> Alive(c) /\ c # d
BY DEF CloseConn, Alive

-----------------------------------------------------------------------------
(* The reads that are coming.                                              *)

One(p) == IF p THEN 1 ELSE 0

LEMMA ReadsFinite ==
  ASSUME ServerInv, NEW c \in Conns
  PROVE  /\ IsFiniteSet(ReadsIn(port, c)) /\ Cardinality(ReadsIn(port, c)) \in Nat
         /\ IsFiniteSet(ReadsInHand(c)) /\ Cardinality(ReadsInHand(c)) \in Nat
         /\ reads[c] \in Nat
<1>1. IsFiniteSet(DOMAIN port)
  BY FS_Interval DEF ServerInv, TypeOK
<1>2. IsFiniteSet(ReadsIn(port, c))
  BY <1>1, FS_Subset DEF ReadsIn
<1>3. IsFiniteSet(ReadsInHand(c))
  BY FS_Subset DEF ReadsInHand
<1> QED BY <1>2, <1>3, FS_CardinalityType DEF ServerInv, TypeOK

LEMMA ReadsAppend ==
  ASSUME ServerInv, NEW m, port' = Append(port, m), NEW c \in Conns
  PROVE  Cardinality(ReadsIn(port', c)) = Cardinality(ReadsIn(port, c)) + One(IsReadOf(m, c))
<1> DEFINE l == Len(port) + 1
<1>1. /\ \A i \in DOMAIN port : i \in DOMAIN port' /\ port'[i] = port[i] /\ i # l
      /\ \A i \in DOMAIN port' : i \in DOMAIN port \/ i = l
      /\ port'[l] = m /\ l \in DOMAIN port'
  BY PortAppend
<1> HIDE DEF l
<1>2. CASE IsReadOf(m, c)
  <2>1. ReadsIn(port', c) = ReadsIn(port, c) \cup {l} /\ l \notin ReadsIn(port, c)
    BY <1>1, <1>2 DEF ReadsIn
  <2> QED BY <1>2, <2>1, ReadsFinite, FS_AddElement DEF One
<1>3. CASE ~IsReadOf(m, c)
  <2>1. ReadsIn(port', c) = ReadsIn(port, c)
    BY <1>1, <1>3 DEF ReadsIn
  <2> QED BY <1>3, <2>1, ReadsFinite DEF One
<1> QED BY <1>2, <1>3

LEMMA ReadsTail ==
  ASSUME ServerInv, port # <<>>, port' = Tail(port), NEW c \in Conns
  PROVE  Cardinality(ReadsIn(port, c)) = Cardinality(ReadsIn(port', c)) + One(IsReadOf(Head(port), c))
<1> DEFINE Later == {i \in ReadsIn(port, c) : i # 1}
           f == [i \in ReadsIn(port', c) |-> i + 1]
<1>1. /\ Len(port) \in Nat \ {0}
      /\ DOMAIN port = 1 .. Len(port) /\ DOMAIN port' = 1 .. Len(port) - 1
      /\ \A i \in DOMAIN port' : i + 1 \in DOMAIN port /\ port'[i] = port[i + 1]
      /\ Head(port) = port[1] /\ 1 \in DOMAIN port
  BY PortTail
<1>2. Cardinality(Later) = Cardinality(ReadsIn(port', c)) /\ IsFiniteSet(Later)
  <2>1. \A i \in ReadsIn(port', c) : i \in DOMAIN port' /\ i + 1 \in Later
    BY <1>1 DEF ReadsIn
  <2>2. \A i \in Later : i - 1 \in ReadsIn(port', c) /\ i = (i - 1) + 1
    <3> SUFFICES ASSUME NEW i \in Later
                 PROVE  i - 1 \in ReadsIn(port', c) /\ i = (i - 1) + 1
      OBVIOUS
    <3>1. i \in DOMAIN port /\ i # 1 /\ IsReadOf(port[i], c)
      BY DEF ReadsIn
    <3>2. i - 1 \in DOMAIN port' /\ (i - 1) + 1 = i
      BY <1>1, <3>1
    <3> QED BY <1>1, <3>1, <3>2 DEF ReadsIn
  <2>3. f \in [ReadsIn(port', c) -> Later]
    BY <2>1
  <2>4. \A i, j \in ReadsIn(port', c) : f[i] = f[j] => i = j
    BY <1>1, <2>1
  <2>5. \A i \in Later : \E j \in ReadsIn(port', c) : f[j] = i
    BY <2>2
  <2>6. f \in Bijection(ReadsIn(port', c), Later)
    BY <2>3, <2>4, <2>5, Zenon DEF Bijection, Injection, Surjection, IsInjective
  <2>7. IsFiniteSet(ReadsIn(port', c))
    <3> DEFINE k == Len(port) - 1
    <3>1. 1 \in Int /\ k \in Int /\ DOMAIN port' = 1 .. k
      BY <1>1
    <3> HIDE DEF k
    <3>2. IsFiniteSet(1 .. k)
      BY <3>1, FS_Interval
    <3> QED BY <3>1, <3>2, FS_Subset DEF ReadsIn
  <2> QED BY <2>6, <2>7, FS_Bijection, Zenon DEF ExistsBijection
<1>3. CASE IsReadOf(Head(port), c)
  <2>1. ReadsIn(port, c) = Later \cup {1} /\ 1 \notin Later
    BY <1>1, <1>3 DEF ReadsIn
  <2> HIDE DEF Later
  <2> QED BY <1>2, <1>3, <2>1, FS_AddElement DEF One
<1>4. CASE ~IsReadOf(Head(port), c)
  <2>1. ReadsIn(port, c) = Later
    BY <1>1, <1>4 DEF ReadsIn
  <2> HIDE DEF Later
  <2> QED BY <1>2, <1>4, <2>1, ReadsFinite, FS_CardinalityType DEF One
<1> QED BY <1>3, <1>4

\* One worker goes on.
LEMMA HandsChange ==
  ASSUME ServerInv, NEW w \in Workers,
         \A v \in Workers : v # w => wpc'[v] = wpc[v] /\ job'[v] = job[v], NEW c \in Conns
  PROVE  Cardinality(ReadsInHand(c)') + One(w \in ReadsInHand(c))
           = Cardinality(ReadsInHand(c)) + One((w \in ReadsInHand(c))')
<1> DEFINE S == ReadsInHand(c)
           T == ReadsInHand(c)'
           Rest == {v \in S : v # w}
<1>1. \A v \in Workers : v # w => (v \in S <=> v \in T)
  BY DEF ReadsInHand
<1>2. S \subseteq Workers /\ T \subseteq Workers /\ IsFiniteSet(S) /\ IsFiniteSet(T)
  BY FS_Subset DEF ReadsInHand
<1>3. IsFiniteSet(Rest) /\ Cardinality(Rest) \in Nat
  BY <1>2, FS_Subset, FS_CardinalityType
<1> HIDE DEF S, T
<1>4. Cardinality(S) = Cardinality(Rest) + One(w \in S)
  <2>1. CASE w \in S
    <3>1. S = Rest \cup {w} /\ w \notin Rest
      BY <2>1
    <3> QED BY <1>3, <2>1, <3>1, FS_AddElement DEF One
  <2>2. CASE w \notin S
    <3>1. S = Rest
      BY <2>2
    <3> QED BY <1>3, <2>2, <3>1 DEF One
  <2> QED BY <2>1, <2>2
<1>5. Cardinality(T) = Cardinality(Rest) + One(w \in T)
  <2>1. CASE w \in T
    <3>1. T = Rest \cup {w} /\ w \notin Rest
      BY <1>1, <1>2, <2>1
    <3> QED BY <1>3, <2>1, <3>1, FS_AddElement DEF One
  <2>2. CASE w \notin T
    <3>1. T = Rest
      BY <1>1, <1>2, <2>2
    <3> QED BY <1>3, <2>2, <3>1 DEF One
  <2> QED BY <2>1, <2>2
<1> QED BY <1>3, <1>4, <1>5 DEF One, S, T

\* The sum, before and after a step.
LEMMA ReadsSum ==
  ASSUME NEW c \in Conns
  PROVE  /\ ReadsComing(c) = reads[c] + Cardinality(ReadsIn(port, c)) + Cardinality(ReadsInHand(c))
                               + One(FirstComing(c))
         /\ ReadsComing(c)' = reads'[c] + Cardinality(ReadsIn(port', c))
                               + Cardinality(ReadsInHand(c)') + One(FirstComing(c)')
         /\ One(FirstComing(c)) \in {0, 1} /\ One(FirstComing(c)') \in {0, 1}
BY DEF ReadsComing, ReadsIn, One

LEMMA PortGains ==
  ASSUME ServerInv, NEW c \in Conns, reads'[c] \in Nat, NEW x \in {0, 1},
         Cardinality(ReadsIn(port', c)) = Cardinality(ReadsIn(port, c)) + x,
         ReadsInHand(c)' = ReadsInHand(c), FirstComing(c)' <=> FirstComing(c)
  PROVE  ReadsComing(c)' = ReadsComing(c) + (reads'[c] - reads[c]) + x
<1>1. One(FirstComing(c)') = One(FirstComing(c))
  BY DEF One
<1> QED BY <1>1, ReadsFinite, ReadsSum

LEMMA ReadsSame ==
  ASSUME NEW c \in Conns, reads'[c] = reads[c], UNCHANGED <<port, workerVars>>,
         FirstComing(c)' <=> FirstComing(c)
  PROVE  /\ ReadsComing(c)' = ReadsComing(c)
         /\ NoWrites(c) /\ writes'[c] = writes[c] => NoWrites(c)'
<1>1. ReadsInHand(c)' = ReadsInHand(c)
  BY DEF ReadsInHand
<1> QED BY <1>1 DEF ReadsComing, NoWrites

\* The worker has looked at its completion.
LEMMA ReadsDone ==
  ASSUME ServerInv, ServerInv', NEW w \in Workers, wpc[w] = "handle", UNCHANGED <<nextId, apc, port>>,
         BackToWait(w) \/ (wpc' = [wpc EXCEPT ![w] = "put"] /\ job' = job), NEW c \in Conns
  PROVE  /\ ReadsComing(c)' = ReadsComing(c) + (reads'[c] - reads[c])
                                - One(job[w].kind = "read" /\ job[w].conn = c)
         /\ NoWrites(c) /\ writes'[c] = writes[c] => NoWrites(c)'
<1>0. /\ wpc'[w] \in {"wait", "put"}
      /\ wpc'[w] = "put" => job'[w] = job[w]
      /\ \A v \in Workers : v # w => wpc'[v] = wpc[v] /\ job'[v] = job[v]
  BY DEF BackToWait, ServerInv, TypeOK
<1>1. /\ w \notin ReadsInHand(c)'
      /\ w \in ReadsInHand(c) <=> job[w].kind = "read" /\ job[w].conn = c
  BY <1>0 DEF ReadsInHand
<1>2. Cardinality(ReadsInHand(c)') + One(job[w].kind = "read" /\ job[w].conn = c)
        = Cardinality(ReadsInHand(c))
  BY <1>0, <1>1, HandsChange, ReadsFinite DEF One
<1>3. Cardinality(ReadsInHand(c)') \in Nat /\ reads'[c] \in Nat
  <2>1. IsFiniteSet(ReadsInHand(c)')
    BY FS_Subset DEF ReadsInHand
  <2> QED BY <2>1, FS_CardinalityType DEF ServerInv, TypeOK
<1>4. FirstComing(c)' <=> FirstComing(c)
  BY DEF FirstComing
<1>5. ReadsComing(c)' = ReadsComing(c) + (reads'[c] - reads[c])
                          - One(job[w].kind = "read" /\ job[w].conn = c)
  BY <1>2, <1>3, <1>4, ReadsFinite DEF ReadsComing, One
<1>6. NoWrites(c) /\ writes'[c] = writes[c] => NoWrites(c)'
  BY <1>0 DEF NoWrites
<1> QED BY <1>5, <1>6

\* A completion comes to the port.
LEMMA ReadsArrive ==
  ASSUME ServerInv, ServerInv', UNCHANGED <<nextId, apc, workerVars>>, NEW m, port' = Append(port, m),
         NEW c \in Conns
  PROVE  /\ ReadsComing(c)' = ReadsComing(c) + (reads'[c] - reads[c]) + One(IsReadOf(m, c))
         /\ NoWrites(c) /\ writes'[c] = writes[c] /\ (m.conn = c => m.kind # "write") => NoWrites(c)'
<1>1. ReadsInHand(c)' = ReadsInHand(c) /\ (FirstComing(c)' <=> FirstComing(c))
  BY DEF ReadsInHand, FirstComing
<1>2. reads'[c] \in Nat
  BY DEF ServerInv, TypeOK
<1>3. ReadsComing(c)' = ReadsComing(c) + (reads'[c] - reads[c]) + One(IsReadOf(m, c))
  <2> DEFINE x == One(IsReadOf(m, c))
  <2>1. Cardinality(ReadsIn(port', c)) = Cardinality(ReadsIn(port, c)) + x /\ x \in {0, 1}
    BY ReadsAppend DEF One
  <2> HIDE DEF x
  <2>2. ReadsComing(c)' = ReadsComing(c) + (reads'[c] - reads[c]) + x
    BY <1>1, <1>2, <2>1, PortGains
  <2> QED BY <2>2 DEF x
<1>4. ASSUME NoWrites(c), writes'[c] = writes[c], m.conn = c => m.kind # "write"
      PROVE  NoWrites(c)'
  BY <1>4, PortAppend DEF NoWrites
<1> QED BY <1>3, <1>4

LEMMA ReadsTaken ==
  ASSUME ServerInv, ServerInv', NEW w \in Workers, Dequeue(w), NEW c \in Conns
  PROVE  /\ ReadsComing(c)' = ReadsComing(c)
         /\ NoWrites(c) => NoWrites(c)'
<1>0. /\ UNCHANGED <<nextId, apc, reads, writes>> /\ port # <<>> /\ port' = Tail(port) /\ wpc[w] = "wait"
      /\ IF Head(port).size = "error"
         THEN UNCHANGED workerVars
         ELSE job' = [job EXCEPT ![w] = Head(port)] /\ wpc' = [wpc EXCEPT ![w] = "handle"]
  BY DEF Dequeue
<1>1. /\ \A v \in Workers : v # w => wpc'[v] = wpc[v] /\ job'[v] = job[v]
      /\ Head(port).size # "error" => job'[w] = Head(port) /\ wpc'[w] = "handle"
      /\ Head(port).size = "error" => wpc'[w] = "wait"
  BY <1>0, WorkerTypes
<1>2. w \notin ReadsInHand(c) /\ ((w \in ReadsInHand(c))' <=> IsReadOf(Head(port), c))
  BY <1>0, <1>1 DEF ReadsInHand, IsReadOf
<1>3. /\ Cardinality(ReadsInHand(c)') = Cardinality(ReadsInHand(c)) + One(IsReadOf(Head(port), c))
      /\ Cardinality(ReadsIn(port, c)) = Cardinality(ReadsIn(port', c)) + One(IsReadOf(Head(port), c))
  <2>1. IsFiniteSet(ReadsInHand(c)')
    BY FS_Subset DEF ReadsInHand
  <2>2. Cardinality(ReadsInHand(c)') \in Nat
    BY <2>1, FS_CardinalityType
  <2>3. Cardinality(ReadsInHand(c)') + One(w \in ReadsInHand(c))
           = Cardinality(ReadsInHand(c)) + One((w \in ReadsInHand(c))')
    BY <1>1, HandsChange
  <2>4. Cardinality(ReadsInHand(c)') = Cardinality(ReadsInHand(c)) + One(IsReadOf(Head(port), c))
    BY <1>2, <2>2, <2>3, ReadsFinite DEF One
  <2> QED BY <1>0, <2>4, ReadsTail
<1>4. Cardinality(ReadsIn(port', c)) \in Nat
  <2>1. IsFiniteSet(ReadsIn(port', c))
    <3>1. IsFiniteSet(DOMAIN port')
      BY <1>0, PortTail, FS_Interval
    <3> QED BY <3>1, FS_Subset DEF ReadsIn
  <2> QED BY <2>1, FS_CardinalityType
<1>5. FirstComing(c)' <=> FirstComing(c)
  BY <1>0 DEF FirstComing
<1>6. ReadsComing(c)' = ReadsComing(c)
  <2> DEFINE later == Cardinality(ReadsIn(port', c))
             hands == Cardinality(ReadsInHand(c)')
  <2>1. /\ later \in Nat
        /\ hands = Cardinality(ReadsInHand(c)) + One(IsReadOf(Head(port), c))
        /\ Cardinality(ReadsIn(port, c)) = later + One(IsReadOf(Head(port), c))
    BY <1>3, <1>4
  <2>2. One(IsReadOf(Head(port), c)) \in {0, 1} /\ One(FirstComing(c)') = One(FirstComing(c))
    BY <1>5 DEF One
  <2>3. ReadsComing(c)' = reads[c] + later + hands + One(FirstComing(c)')
    BY <1>0, ReadsSum
  <2> HIDE DEF later, hands
  <2> QED BY <2>1, <2>2, <2>3, ReadsFinite, ReadsSum
<1>7. NoWrites(c) => NoWrites(c)'
  BY <1>0, <1>1, PortTail DEF NoWrites
<1> QED BY <1>6, <1>7

\* Nothing that the invariant tells apart changes.
LEMMA OneWayKept ==
  ASSUME NEW c \in Conns, OneWay(c), Alive(c)' <=> Alive(c), ReadsComing(c)' = ReadsComing(c),
         NoWrites(c) => NoWrites(c)', replies'[c] = replies[c],
         peer'[c] = peer[c] \/ peer'[c] = "lost", c \notin outside' => c \notin outside,
         garbled[c] => garbled'[c]
  PROVE  OneWay(c)'
BY DEF OneWay

LEMMA AcceptOneWay ==
  ASSUME ServerInv, ServerInv', FreshInv, NEW c \in Conns, OneWay(c),
         AcceptThread \/ \E s \in Sessions : Accept(s)
  PROVE  OneWay(c)'
<1>0. UNCHANGED <<writes, port, workerVars, packVars, garbled>>
  BY DEF AcceptThread, AddHeld, RefuseHeld, Attach, StandBy, CheckStatus, Accept
<1>1. ASSUME NEW s \in Sessions, Accept(s)
      PROVE  OneWay(c)'
  <2>1. /\ UNCHANGED <<reads, peer, nextId>>
        /\ FirstComing(c)' <=> FirstComing(c)
    BY <1>1 DEF Accept, FirstComing
  <2> QED BY <1>0, <1>1, <2>1, AliveAccept, ReadsSame, OneWayKept
<1>2. CASE RefuseHeld \/ CheckStatus \/ Attach
  <2>1. /\ UNCHANGED <<reads, peer, nextId, members, ids, addr>>
        /\ FirstComing(c)' <=> FirstComing(c)
    BY <1>2 DEF RefuseHeld, CheckStatus, Attach, FirstComing
  <2> QED BY <1>0, <1>2, <2>1, AliveKept, ReadsSame, OneWayKept
<1>3. CASE AddHeld
  <2>0. /\ reads' = reads /\ apc = "add" /\ apc' = "attach" /\ nextId' = nextId + 1
        /\ peer' = [peer EXCEPT ![nextId] = "up"]
    BY <1>3 DEF AddHeld
  <2>1. CASE c # nextId
    <3>1. FirstComing(c)' <=> FirstComing(c)
      BY <2>0, <2>1 DEF FirstComing, ServerInv, TypeOK
    <3>2. peer'[c] = peer[c]
      BY <2>0, <2>1 DEF ServerInv, TypeOK
    <3> QED BY <1>0, <1>3, <2>0, <2>1, <3>1, <3>2, AliveAdd, ReadsSame, OneWayKept
  <2>2. CASE c = nextId
    <3>1. Untouched(c)
      BY <2>2 DEF FreshInv, Fresh, ServerInv, TypeOK
    <3>2. ReadsIn(port', c) = {} /\ ReadsInHand(c)' = {}
      BY <1>0, <3>1 DEF Untouched, ReadsIn, IsReadOf, ReadsInHand
    <3>3. FirstComing(c)'
      <4>1. nextId \in Nat BY DEF ServerInv, TypeOK
      <4> QED BY <2>0, <2>2, <4>1 DEF FirstComing
    <3>4. One(FirstComing(c)') = 1
      BY <3>3 DEF One
    <3>5. reads'[c] = 0 /\ Cardinality({}) = 0
      BY <2>0, <3>1, FS_EmptySet DEF Untouched
    <3>6. ReadsComing(c)' = 1
      BY <3>2, <3>4, <3>5, ReadsSum
    <3>7. NoWrites(c)' /\ replies'[c] = 0
      BY <1>0, <3>1 DEF Untouched, NoWrites
    <3>8. Alive(c)'
      BY <1>3, <2>2, AliveAdd
    <3> QED BY <3>6, <3>7, <3>8 DEF OneWay
  <2> QED BY <2>1, <2>2
<1>4. CASE StandBy
  <2>0. /\ apc = "standby" /\ apc' = "check" /\ UNCHANGED <<peer, nextId, members, ids, addr>>
        /\ \/ Alive(HeldConn) /\ PostRead(HeldConn)
           \/ ~Alive(HeldConn) /\ reads' = reads
    BY <1>4 DEF StandBy, UseOfFreed
  <2>1. CASE c # HeldConn
    <3>1. FirstComing(c)' <=> FirstComing(c)
      BY <2>0, <2>1 DEF FirstComing
    <3>2. reads'[c] = reads[c]
      BY <2>0, <2>1 DEF PostRead, ServerInv, TypeOK
    <3> QED BY <1>0, <2>0, <3>1, <3>2, AliveKept, ReadsSame, OneWayKept
  <2>2. CASE c = HeldConn
    <3>1. ReadsIn(port', c) = ReadsIn(port, c) /\ ReadsInHand(c)' = ReadsInHand(c)
      BY <1>0 DEF ReadsIn, ReadsInHand
    <3>2. One(FirstComing(c)) = 1 /\ One(FirstComing(c)') = 0
      BY <2>0, <2>2 DEF FirstComing, One
    <3>3. reads[c] \in Nat /\ (reads'[c] = reads[c] \/ reads'[c] = reads[c] + 1)
      BY <2>0, <2>2 DEF PostRead, ServerInv, TypeOK
    <3>4. /\ ReadsComing(c)' = ReadsComing(c) + (reads'[c] - reads[c]) - 1
          /\ ReadsComing(c) \in Nat /\ ReadsComing(c) > 0
      BY <3>1, <3>2, <3>3, ReadsFinite, ReadsSum
    <3>5. /\ Alive(c)' <=> Alive(c)
          /\ Alive(c) /\ peer[c] # "lost" => reads'[c] = reads[c] + 1
      BY <2>0, <2>2, AliveKept DEF PostRead, ServerInv, TypeOK
    <3>6. NoWrites(c) => NoWrites(c)'
      BY <1>0 DEF NoWrites
    <3> QED BY <1>0, <2>0, <3>3, <3>4, <3>5, <3>6 DEF OneWay
  <2> QED BY <2>1, <2>2
<1> QED BY <1>1, <1>2, <1>3, <1>4 DEF AcceptThread

LEMMA FinishOneWay ==
  ASSUME ServerInv, ServerInv', NEW c \in Conns, OneWay(c), NEW d \in Conns,
         FinishRead(d) \/ FinishWrite(d)
  PROVE  OneWay(c)'
<1>0. /\ UNCHANGED <<members, ids, addr, nextId, apc, peer, workerVars, replies, outside>>
      /\ Alive(c)' <=> Alive(c)
      /\ garbled[c] => garbled'[c]
  <2>1. garbled[c] => garbled'[c]
    BY ReadEnds, Zenon DEF FinishWrite, streamVars
  <2> QED BY <2>1, AliveKept DEF FinishRead, FinishWrite
<1>1. CASE FinishRead(d)
  <2>0. reads[d] > 0 /\ reads' = [reads EXCEPT ![d] = @ - 1] /\ writes' = writes
    BY <1>1 DEF FinishRead
  <2>1. PICK m : /\ port' = Append(port, m) /\ m.conn = d /\ m.kind = "read"
                 /\ m.size = "error" => ~Alive(d) \/ peer[d] = "lost"
    <3>1. \E z : /\ port' = Append(port, Completion(d, "read", z))
                 /\ z = "error" => ~Alive(d) \/ peer[d] = "lost"
      BY <1>1, ReadEnds, Zenon
    <3> QED BY <3>1 DEF Completion
  <2>2. /\ ReadsComing(c)' = ReadsComing(c) + (reads'[c] - reads[c]) + One(IsReadOf(m, c))
        /\ NoWrites(c) => NoWrites(c)'
    BY <1>0, <2>0, <2>1, ReadsArrive
  <2>3. reads[c] \in Nat /\ ReadsComing(c) \in Nat
    BY ReadsFinite, ReadsSum
  <2>4. CASE c # d \/ m.size # "error"
    <3> DEFINE x == One(IsReadOf(m, c))
    <3>1. x = IF c = d THEN 1 ELSE 0
      BY <2>1, <2>4 DEF One, IsReadOf
    <3>2. reads'[c] = IF c = d THEN reads[c] - 1 ELSE reads[c]
      BY <2>0 DEF ServerInv, TypeOK
    <3>3. ReadsComing(c)' = ReadsComing(c) + (reads'[c] - reads[c]) + x
      BY <2>2
    <3> HIDE DEF x
    <3>4. ReadsComing(c)' = ReadsComing(c)
      BY <2>3, <3>1, <3>2, <3>3
    <3> QED BY <1>0, <2>2, <3>4, OneWayKept
  <2>5. CASE c = d /\ m.size = "error"
    <3>1. reads'[c] - reads[c] = -1 /\ One(IsReadOf(m, c)) = 0
      BY <2>0, <2>3, <2>5 DEF One, IsReadOf, ServerInv, TypeOK
    <3>2. ReadsComing(c)' = ReadsComing(c) - 1
      BY <2>2, <2>3, <3>1
    <3>3. ReadsComing(c) > 0
      <4>1. ReadsComing(c) >= reads[c]
        BY ReadsFinite, ReadsSum
      <4> QED BY <2>0, <2>3, <2>5, <4>1
    <3> QED BY <1>0, <2>1, <2>2, <2>3, <2>5, <3>2, <3>3 DEF OneWay
  <2> QED BY <2>4, <2>5
<1>2. CASE FinishWrite(d)
  <2>0. writes[d] > 0 /\ reads' = reads /\ writes' = [writes EXCEPT ![d] = @ - 1]
    BY <1>2 DEF FinishWrite
  <2>1. PICK m : port' = Append(port, m) /\ m.conn = d /\ m.kind = "write"
    BY <1>2 DEF FinishWrite, Completion
  <2>2. One(IsReadOf(m, c)) = 0
    BY <2>1 DEF One, IsReadOf
  <2>3. reads[c] \in Nat /\ ReadsComing(c) \in Nat
    BY ReadsFinite, ReadsSum
  <2>4. ReadsComing(c)' = ReadsComing(c)
    BY <1>0, <2>0, <2>1, <2>2, <2>3, ReadsArrive
  <2>5. NoWrites(c) => NoWrites(c)'
    <3>1. NoWrites(c) => c # d
      BY <2>0 DEF NoWrites
    <3>2. c # d => writes'[c] = writes[c]
      BY <2>0 DEF ServerInv, TypeOK
    <3> QED BY <1>0, <2>1, <3>1, <3>2, ReadsArrive
  <2> QED BY <1>0, <2>4, <2>5, OneWayKept
<1> QED BY <1>1, <1>2

LEMMA HandIsRead ==
  ASSUME ServerInv, NEW w \in Workers, wpc[w] = "handle", job[w].kind = "read", NEW c \in Conns,
         job[w].conn = c
  PROVE  ReadsComing(c) \in Nat /\ ReadsComing(c) > 0
<1>1. w \in ReadsInHand(c)
  BY DEF ReadsInHand
<1>2. Cardinality(ReadsInHand(c)) # 0
  BY <1>1, ReadsFinite, FS_EmptySet
<1> QED BY <1>2, ReadsFinite, ReadsSum

LEMMA HandleOneWay ==
  ASSUME ServerInv, ServerInv', NEW c \in Conns, OneWay(c), NEW w \in Workers, Handle(w)
  PROVE  OneWay(c)'
<1>0. /\ UNCHANGED <<peer, replies, outside, nextId, apc, port, addr, garbled>>
      /\ job[w].conn \in Conns /\ wpc[w] \in {"handle", "put"}
      /\ reads[c] \in Nat /\ ReadsComing(c) \in Nat
  <2>1. wpc[w] # "wait"
    BY DEF Handle, HandleFreed, HandleZero, HandleSent, HandlePart, HandleBadPacket, HandlePacket,
           PutPackage, Handling
  <2>2. job[w].conn \in Conns /\ wpc[w] \in {"handle", "put"}
    BY <2>1 DEF ServerInv, TypeOK, Completions
  <2>3. reads[c] \in Nat /\ ReadsComing(c) \in Nat
    BY ReadsFinite, ReadsSum
  <2>4. UNCHANGED <<peer, replies, outside, nextId, apc, port, addr, garbled>>
    BY DEF Handle, HandleFreed, HandleZero, HandleSent, HandlePart, HandleBadPacket, HandlePacket,
           PutPackage, CloseConn
  <2> QED BY <2>2, <2>3, <2>4
<1> DEFINE x == One(job[w].kind = "read" /\ job[w].conn = c)
<1>x. /\ x = IF job[w].kind = "read" /\ job[w].conn = c THEN 1 ELSE 0
      /\ wpc[w] = "handle" /\ job[w].kind = "read" /\ job[w].conn = c => ReadsComing(c) > 0
  BY HandIsRead DEF One
<1>y. ASSUME wpc[w] = "handle", BackToWait(w) \/ (wpc' = [wpc EXCEPT ![w] = "put"] /\ job' = job)
      PROVE  /\ ReadsComing(c)' = ReadsComing(c) + (reads'[c] - reads[c]) - x
             /\ NoWrites(c) /\ writes'[c] = writes[c] => NoWrites(c)'
  BY <1>0, <1>y, ReadsDone
<1> HIDE DEF x
<1>1. CASE HandleFreed(w)
  <2>0. /\ UNCHANGED <<members, ids, reads, writes>> /\ BackToWait(w) /\ ~Alive(job[w].conn)
        /\ wpc[w] = "handle"
    BY <1>1 DEF HandleFreed, UseOfFreed
  <2>1. /\ ReadsComing(c)' = ReadsComing(c) - x
        /\ Alive(c)' <=> Alive(c)
        /\ NoWrites(c) => NoWrites(c)'
    BY <1>0, <1>x, <1>y, <2>0, AliveKept
  <2>2. CASE job[w].conn = c
    BY <1>0, <1>x, <2>0, <2>1, <2>2 DEF OneWay
  <2>3. CASE job[w].conn # c
    BY <1>0, <1>x, <2>0, <2>1, <2>3, OneWayKept
  <2> QED BY <2>2, <2>3
<1>2. CASE HandleZero(w) \/ HandleBadPacket(w)
  <2>0. /\ UNCHANGED <<reads, writes>> /\ BackToWait(w) /\ CloseConn(job[w].conn)
        /\ wpc[w] = "handle"
    BY <1>2 DEF HandleZero, HandleBadPacket, Handling
  <2>1. /\ ReadsComing(c)' = ReadsComing(c) - x
        /\ Alive(c)' <=> Alive(c) /\ c # job[w].conn
        /\ NoWrites(c) => NoWrites(c)'
    BY <1>0, <1>x, <1>y, <2>0, AliveClose
  <2>2. CASE job[w].conn = c
    <3>1. replies[c] = 0 => job[w].kind = "read"
      <4>1. replies[c] = 0 => job[w].kind # "write"
        BY <2>0, <2>2 DEF OneWay, NoWrites
      <4>2. job[w].kind \in {"read", "write"}
        BY <2>0 DEF ServerInv, TypeOK, Completions
      <4> QED BY <4>1, <4>2
    <3> QED BY <1>0, <1>x, <2>0, <2>1, <2>2, <3>1 DEF OneWay
  <2>3. CASE job[w].conn # c
    BY <1>0, <1>x, <2>0, <2>1, <2>3, OneWayKept
  <2> QED BY <2>2, <2>3
<1>3. CASE HandleSent(w)
  <2>0. /\ UNCHANGED <<members, ids, reads>> /\ BackToWait(w)
        /\ wpc[w] = "handle" /\ job[w].kind = "write"
        /\ writes' = writes \/ writes' = [writes EXCEPT ![job[w].conn] = @ + 1]
    BY <1>3 DEF HandleSent
  <2>1. x = 0 /\ ReadsComing(c)' = ReadsComing(c) /\ (Alive(c)' <=> Alive(c))
    BY <1>0, <1>x, <1>y, <2>0, AliveKept
  <2>2. NoWrites(c) => NoWrites(c)'
    <3>1. NoWrites(c) => c # job[w].conn
      BY <2>0 DEF NoWrites
    <3>2. c # job[w].conn => writes'[c] = writes[c]
      BY <2>0 DEF ServerInv, TypeOK
    <3> QED BY <1>y, <2>0, <3>1, <3>2
  <2> QED BY <1>0, <2>1, <2>2, OneWayKept
<1>4. CASE HandlePart(w) \/ HandlePacket(w)
  <2>0. /\ UNCHANGED <<members, ids, writes>>
        /\ BackToWait(w) \/ (wpc' = [wpc EXCEPT ![w] = "put"] /\ job' = job)
        /\ wpc[w] = "handle" /\ job[w].kind = "read"
        /\ PostRead(job[w].conn) \/ (garbled[job[w].conn] /\ reads' = reads)
    BY <1>4 DEF HandlePart, HandlePacket, Handling
  <2>1. /\ ReadsComing(c)' = ReadsComing(c) + (reads'[c] - reads[c]) - x
        /\ Alive(c)' <=> Alive(c)
        /\ NoWrites(c) => NoWrites(c)'
    BY <1>y, <1>0, <2>0, AliveKept
  <2>2. /\ job[w].conn # c => reads'[c] = reads[c]
        /\ job[w].conn = c => \/ reads'[c] = reads[c] + 1
                              \/ reads'[c] = reads[c] /\ (peer[c] = "lost" \/ garbled[c])
    <3>1. CASE reads' = [reads EXCEPT ![job[w].conn] = @ + 1]
      BY <1>0, <3>1 DEF ServerInv, TypeOK
    <3>2. CASE reads' = reads /\ (peer[job[w].conn] = "lost" \/ garbled[job[w].conn])
      BY <3>2
    <3> QED BY <2>0, <3>1, <3>2 DEF PostRead
  <2>3. CASE reads'[c] - reads[c] = x
    <3>1. ReadsComing(c)' = ReadsComing(c)
      BY <1>0, <1>x, <2>1, <2>3
    <3> QED BY <1>0, <2>1, <3>1, OneWayKept
  <2>4. CASE job[w].conn = c /\ reads'[c] = reads[c] /\ (peer[c] = "lost" \/ garbled[c])
    <3>1. ReadsComing(c)' = ReadsComing(c) - 1
      BY <1>0, <1>x, <2>0, <2>1, <2>4
    <3> QED BY <1>0, <1>x, <2>0, <2>1, <2>4, <3>1 DEF OneWay
  <2> QED BY <1>0, <1>x, <2>0, <2>2, <2>3, <2>4
<1>5. CASE PutPackage(w)
  <2>0. /\ UNCHANGED <<members, ids, reads, writes>> /\ BackToWait(w) /\ wpc[w] = "put"
    BY <1>5 DEF PutPackage
  <2>1. ReadsInHand(c)' = ReadsInHand(c) /\ ReadsIn(port', c) = ReadsIn(port, c)
    BY <1>0, <2>0 DEF ReadsInHand, BackToWait, ServerInv, TypeOK
  <2>2. One(FirstComing(c)') = One(FirstComing(c))
    BY <1>0 DEF FirstComing
  <2>3. ReadsComing(c)' = ReadsComing(c)
    BY <2>0, <2>1, <2>2, ReadsSum
  <2>4. NoWrites(c) => NoWrites(c)'
    BY <1>0, <2>0 DEF NoWrites, BackToWait, ServerInv, TypeOK
  <2> QED BY <1>0, <2>0, <2>3, <2>4, AliveKept, OneWayKept
<1> QED BY <1>1, <1>2, <1>3, <1>4, <1>5 DEF Handle

LEMMA OneWayStep ==
  ASSUME ServerInv, ServerInv', FreshInv, NEW c \in Conns, OneWay(c), [Next]_vars
  PROVE  OneWay(c)'
<1>1. CASE RunReady \/ ContentsDone \/ UNCHANGED vars
  <2>1. /\ UNCHANGED <<members, ids, addr, peer, reads, writes, replies, outside, port, workerVars, garbled>>
        /\ FirstComing(c)' <=> FirstComing(c)
    BY <1>1 DEF RunReady, ContentsDone, vars, FirstComing
  <2> QED BY <2>1, AliveKept, ReadsSame, OneWayKept
<1>2. ASSUME NEW d \in Conns, Client(d) \/ OutsideClose(d)
      PROVE  OneWay(c)'
  <2>1. /\ UNCHANGED <<addr, reads, writes, replies, port, workerVars, garbled>>
        /\ FirstComing(c)' <=> FirstComing(c)
    BY <1>2 DEF Client, OutsideClose, FirstComing, CloseConn
  <2>2. ReadsComing(c)' = ReadsComing(c) /\ (NoWrites(c) => NoWrites(c)')
    BY <2>1, ReadsSame
  <2>3. CASE Client(d)
    <3>1. UNCHANGED <<members, ids, outside>> /\ (peer'[c] = peer[c] \/ peer[c] = "up")
      BY <2>3 DEF Client, ClientSend, ClientLeave, ServerInv, TypeOK
    <3> QED BY <2>1, <2>2, <3>1, AliveKept DEF OneWay
  <2>4. CASE OutsideClose(d)
    <3>1. peer' = peer /\ outside' = outside \cup {d} /\ (Alive(c)' <=> Alive(c) /\ c # d)
      BY <2>1, <2>4, AliveClose DEF OutsideClose
    <3> QED BY <2>1, <2>2, <3>1 DEF OneWay
  <2> QED BY <1>2, <2>3, <2>4
<1>3. ASSUME NEW w \in Workers, Dequeue(w)
      PROVE  OneWay(c)'
  <2>1. UNCHANGED <<members, ids, addr, peer, replies, outside, garbled>>
    BY <1>3 DEF Dequeue
  <2> QED BY <1>3, <2>1, AliveKept, ReadsTaken, OneWayKept
<1>4. CASE ContentsReply
  <2> PICK d \in Conns : d = Head(contents)
    <3>1. contents \in Seq(Conns) /\ contents # <<>>
      BY <1>4 DEF ContentsReply, ServerInv, TypeOK
    <3> QED BY <3>1
  <2>0. /\ UNCHANGED <<members, ids, addr, nextId, apc, peer, port, workerVars, outside>>
        /\ \/ UNCHANGED <<replies, writes, reads>>
           \/ /\ replies' = [replies EXCEPT ![d] = @ + 1]
              /\ \/ Alive(d) /\ writes' = [writes EXCEPT ![d] = @ + 1] /\ PostRead(d)
                 \/ ~Alive(d) /\ UNCHANGED <<writes, reads>>
    BY <1>4 DEF ContentsReply, UseOfFreed
  <2>g. garbled[c] => garbled'[c]
    BY <1>4, GarbledType
  <2>1. (Alive(c)' <=> Alive(c)) /\ (FirstComing(c)' <=> FirstComing(c))
    BY <2>0, AliveKept DEF FirstComing
  <2>2. CASE c # d \/ UNCHANGED <<replies, writes, reads>>
    <3>1. reads'[c] = reads[c]
      BY <2>0, <2>2, ConnTypes DEF PostRead
    <3>2. writes'[c] = writes[c]
      BY <2>0, <2>2, ConnTypes
    <3>3. replies'[c] = replies[c]
      BY <2>0, <2>2, ConnTypes
    <3> QED BY <2>0, <2>g, <2>1, <3>1, <3>2, <3>3, ReadsSame, OneWayKept
  <2>3. CASE c = d /\ ~UNCHANGED <<replies, writes, reads>>
    <3>1. replies[c] \in Nat /\ replies'[c] = replies[c] + 1 /\ reads[c] \in Nat
      <4>1. replies \in [Conns -> 0 .. MaxReplies] /\ reads \in [Conns -> Nat]
        BY ConnTypes
      <4>2. replies' = [replies EXCEPT ![c] = @ + 1]
        BY <2>0, <2>3
      <4> QED BY <4>1, <4>2
    <3>2. Alive(c) /\ peer[c] # "lost" => reads'[c] = reads[c] + 1
      BY <2>0, <2>3 DEF PostRead, ServerInv, TypeOK
    <3>3. ReadsComing(c)' = ReadsComing(c) + (reads'[c] - reads[c]) /\ ReadsComing(c) \in Nat
      <4>1. ReadsInHand(c)' = ReadsInHand(c) /\ ReadsIn(port', c) = ReadsIn(port, c)
        BY <2>0 DEF ReadsInHand
      <4>2. reads'[c] \in Nat
        BY DEF ServerInv, TypeOK
      <4>3. One(FirstComing(c)') = One(FirstComing(c))
        BY <2>1 DEF One
      <4> QED BY <3>1, <4>1, <4>2, <4>3, ReadsSum, ReadsFinite
    <3> QED BY <2>0, <2>g, <2>1, <3>1, <3>2, <3>3 DEF OneWay
  <2> QED BY <2>2, <2>3
<1> QED BY <1>1, <1>2, <1>3, <1>4, AcceptOneWay, FinishOneWay, HandleOneWay DEF Next

LEMMA OneWayInit ==
  ASSUME Init
  PROVE  ReadInv
<1> SUFFICES ASSUME NEW c \in Conns
             PROVE  OneWay(c)
  BY DEF ReadInv
<1>1. ReadsIn(port, c) = {} /\ ReadsInHand(c) = {} /\ One(FirstComing(c)) = 0
  BY DEF Init, ReadsIn, ReadsInHand, One, FirstComing
<1>2. ReadsComing(c) = 0
  <2>1. reads[c] = 0 /\ Cardinality({}) = 0
    BY FS_EmptySet DEF Init
  <2> QED BY <1>1, <2>1, ReadsSum
<1> QED BY <1>2 DEF Init, OneWay, NoWrites, Alive

THEOREM ReadInvariant == Spec => []ReadInv
<1>1. ReadInv /\ ServerInv /\ ServerInv' /\ FreshInv /\ [Next]_vars => ReadInv'
  BY OneWayStep DEF ReadInv
<1> QED BY <1>1, OneWayInit, ServerInvariant, FreshInvariant, PTL DEF Spec

\* A connection that is not reset has one read coming, and one more for every SendPacket, in
\* whatever order the accept thread, the workers and ContentsProcess come to it.
THEOREM OneRead == Spec => []OneReadPerReply
<1>1. ReadInv => OneReadPerReply
  BY DEF ReadInv, OneWay, OneReadPerReply
<1> QED BY <1>1, ReadInvariant, PTL

-----------------------------------------------------------------------------
(* Freed sessions.                                                         *)

\* Whoever has a read of the connection coming finds its session alive.
LEMMA ReaderFindsSession ==
  ASSUME NEW c \in Conns, OneWay(c), ReadsComing(c) # 0, replies[c] = 0, c \notin outside
  PROVE  Alive(c)
BY DEF OneWay

LEMMA DangleStep ==
  ASSUME ServerInv, ServerInv', ReadInv, OnlySharedSessionsDangle, [Next]_vars
  PROVE  OnlySharedSessionsDangle'
<1>1. CASE UNCHANGED <<dangling, replies, outside>>
  BY <1>1 DEF OnlySharedSessionsDangle
<1>2. CASE dangling' = NoUse
  BY <1>2 DEF OnlySharedSessionsDangle, NoUse
<1>3. CASE Attach \/ StandBy
  <2>1. /\ HeldConn \in Conns /\ FirstComing(HeldConn) /\ UNCHANGED <<replies, outside>>
    <3>1. apc \in {"attach", "standby"} /\ UNCHANGED <<replies, outside>>
      BY <1>3 DEF Attach, StandBy
    <3>2. HeldConn \in Conns
      BY <3>1 DEF ServerInv, TypeOK, TableInv, Conns
    <3> QED BY <3>1, <3>2 DEF FirstComing
  <2>2. PICK c \in Conns : c = HeldConn
    BY <2>1
  <2>3. ReadsComing(c) # 0
    <3>1. One(FirstComing(c)) = 1
      BY <2>1, <2>2 DEF One
    <3> QED BY <3>1, ReadsFinite, ReadsSum
  <2>4. Alive(c) \/ replies[c] # 0 \/ c \in outside
    BY <2>3, ReaderFindsSession DEF ReadInv
  <2>5. replies[c] \in Nat
    BY DEF ServerInv, TypeOK
  <2>6. \/ dangling' = NoUse \/ dangling'.site = "attach"
        \/ dangling'.conn = c /\ ~Alive(c)
    BY <1>3, <2>2 DEF Attach, StandBy, UseOfFreed, Intact, NoUse
  <2> QED BY <2>1, <2>4, <2>5, <2>6 DEF OnlySharedSessionsDangle
<1>4. ASSUME NEW w \in Workers, HandleFreed(w)
      PROVE  OnlySharedSessionsDangle'
  <2>1. PICK c \in Conns : c = job[w].conn
    BY <1>4 DEF HandleFreed, ServerInv, TypeOK, Completions
  <2>2. /\ wpc[w] = "handle" /\ ~Alive(c) /\ dangling'.conn = c /\ UNCHANGED <<replies, outside>>
        /\ job[w].kind \in {"read", "write"}
    BY <1>4, <2>1 DEF HandleFreed, UseOfFreed, ServerInv, TypeOK, Completions
  <2>3. replies[c] = 0 => job[w].kind # "write"
    BY <2>1, <2>2 DEF ReadInv, OneWay, NoWrites
  <2>4. replies[c] = 0 => c \in outside
    BY <2>1, <2>2, <2>3, HandIsRead, ReaderFindsSession DEF ReadInv
  <2>5. replies[c] \in Nat
    BY DEF ServerInv, TypeOK
  <2> QED BY <2>2, <2>4, <2>5 DEF OnlySharedSessionsDangle
<1>5. CASE ContentsReply
  <2>1. PICK c \in Conns : c = Head(contents)
    <3>1. contents \in Seq(Conns) /\ contents # <<>>
      BY <1>5 DEF ContentsReply, ServerInv, TypeOK
    <3> QED BY <3>1
  <2>2. CASE dangling' = NoUse
    BY <1>2, <2>2
  <2>3. CASE dangling' # NoUse
    <3>1. replies' = [replies EXCEPT ![c] = @ + 1] /\ UseOfFreed("contents", c)
      BY <1>5, <2>1, <2>3, Zenon DEF ContentsReply, Intact
    <3>2. replies'[c] > 0
      <4>1. replies \in [Conns -> 0 .. MaxReplies]
        BY ConnTypes
      <4> QED BY <3>1, <4>1
    <3> QED BY <3>1, <3>2 DEF OnlySharedSessionsDangle, UseOfFreed
  <2> QED BY <2>2, <2>3
<1>6. CASE \/ RunReady \/ AddHeld \/ RefuseHeld \/ CheckStatus \/ ContentsDone
           \/ \E s \in Sessions : Accept(s)
           \/ \E c \in Conns : Client(c) \/ FinishRead(c) \/ FinishWrite(c) \/ OutsideClose(c)
           \/ \E w \in Workers : Dequeue(w)
  BY <1>2, <1>6 DEF RunReady, AddHeld, RefuseHeld, CheckStatus, ContentsDone, Accept, Client,
                    FinishRead, FinishWrite, OutsideClose, Dequeue, Intact
<1>7. CASE \E w \in Workers : \/ HandleZero(w) \/ HandleSent(w) \/ HandlePart(w)
                              \/ HandleBadPacket(w) \/ HandlePacket(w) \/ PutPackage(w)
  BY <1>2, <1>7 DEF HandleZero, HandleSent, HandlePart, HandleBadPacket, HandlePacket, PutPackage, Intact
<1>8. CASE UNCHANGED vars
  BY <1>1, <1>8 DEF vars
<1> QED BY <1>3, <1>4, <1>5, <1>6, <1>7, <1>8 DEF Next, AcceptThread, Handle

\* A worker or the accept thread only meets a freed session when ContentsProcess answered on
\* the connection or another thread closed it; else the session is freed by whoever has its
\* last read, or by an attach that failed.
THEOREM OnlySharedDangle == Spec => []OnlySharedSessionsDangle
<1>1. Init => OnlySharedSessionsDangle
  BY DEF Init, OnlySharedSessionsDangle
<1> QED BY <1>1, DangleStep, ServerInvariant, ReadInvariant, PTL DEF Spec

-----------------------------------------------------------------------------
(* The order of the packages.                                              *)

\* With one read coming, at most one completion of a last part is under way.
LEMMA OneRest ==
  ASSUME ServerInv, NEW c \in Conns, OneWay(c), replies[c] = 0
  PROVE  /\ reads[c] > 0 => RestOnPort(c) = {} /\ RestInHand(c) = {}
         /\ \A w \in RestInHand(c) : RestOnPort(c) = {} /\ RestInHand(c) = {w}
<1>1. RestOnPort(c) \subseteq ReadsIn(port, c) /\ RestInHand(c) \subseteq ReadsInHand(c)
  BY DEF RestOnPort, IsRestOf, ReadsIn, IsReadOf, RestInHand, ReadsInHand
<1>2. /\ reads[c] + Cardinality(ReadsIn(port, c)) + Cardinality(ReadsInHand(c)) <= 1
      /\ reads[c] \in Nat /\ Cardinality(ReadsIn(port, c)) \in Nat /\ Cardinality(ReadsInHand(c)) \in Nat
      /\ IsFiniteSet(ReadsIn(port, c)) /\ IsFiniteSet(ReadsInHand(c))
  BY ReadsFinite, ReadsSum DEF OneWay
<1>3. reads[c] > 0 => RestOnPort(c) = {} /\ RestInHand(c) = {}
  BY <1>1, <1>2, FS_EmptySet
<1>4. ASSUME NEW w \in RestInHand(c)
      PROVE  RestOnPort(c) = {} /\ RestInHand(c) = {w}
  <2>1. Cardinality(ReadsInHand(c)) # 0
    BY <1>1, <1>2, FS_EmptySet
  <2>2. Cardinality(ReadsIn(port, c)) = 0 /\ Cardinality(ReadsInHand(c)) = 1
    BY <1>2, <2>1
  <2>3. \E v : ReadsInHand(c) = {v}
    BY <1>2, <2>2, FS_Singleton
  <2> QED BY <1>1, <1>2, <2>2, <2>3, FS_EmptySet
<1> QED BY <1>3, <1>4

\* Where the packets of the connection are does not change, but for a rest that is lost
\* with the session.
LEMMA OrderSame ==
  ASSUME NEW c \in Conns, Order(c), taken'[c] = taken[c], swallowed'[c] = swallowed[c],
         delivered'[c] = delivered[c], PutNumbers(c)' = PutNumbers(c),
         \A u, v \in InPut(c)' : job'[u].n = job'[v].n => u = v,
         Alive(c)' => Alive(c), RestNumbers(c)' \subseteq RestNumbers(c),
         Alive(c)' => RestNumbers(c)' = RestNumbers(c)
  PROVE  Order(c)'
<1>1. Passed(c)' = Passed(c) /\ Out(c)' = Out(c)
  BY DEF Passed, Out
<1>2. \A n : Beyond(n, c)' <=> Beyond(n, c)
  BY <1>1 DEF Beyond
<1>3. \A n \in RestNumbers(c)' : Beyond(n, c)'
  BY <1>2 DEF Order
<1>4. \A n \in 1 .. taken'[c] :
        \/ n \in Out(c)' \cup swallowed'[c]
        \/ Beyond(n, c)' /\ (n \in RestNumbers(c)' \/ ~Alive(c)')
  BY <1>1, <1>2 DEF Order
<1> QED BY <1>1, <1>3, <1>4 DEF Order

LEMMA OrderKept ==
  ASSUME NEW c \in Conns, Order(c), taken'[c] = taken[c], swallowed'[c] = swallowed[c],
         delivered'[c] = delivered[c], UNCHANGED <<port, workerVars>>, Alive(c)' => Alive(c)
  PROVE  Order(c)'
<1>1. /\ InPut(c)' = InPut(c) /\ RestOnPort(c)' = RestOnPort(c) /\ RestInHand(c)' = RestInHand(c)
  BY DEF InPut, RestOnPort, RestInHand
<1>2. PutNumbers(c)' = PutNumbers(c) /\ RestNumbers(c)' = RestNumbers(c)
  BY <1>1 DEF PutNumbers, RestNumbers
<1>3. \A u, v \in InPut(c)' : job'[u].n = job'[v].n => u = v
  BY <1>1 DEF Order
<1> QED BY <1>2, <1>3, OrderSame

\* Nothing was read on the connection.
LEMMA OrderUntouched ==
  ASSUME NEW c \in Conns
  PROVE  (Untouched(c) => Order(c)) /\ (Untouched(c) => Order(c))'
<1>1. ASSUME Untouched(c)
      PROVE  Order(c)
  <2>1. taken[c] = 0 /\ delivered[c] = <<>>
    BY <1>1 DEF Untouched
  <2>2. Passed(c) = {} /\ InPut(c) = {} /\ RestOnPort(c) = {} /\ RestInHand(c) = {}
    BY <1>1 DEF Untouched, Passed, InPut, RestOnPort, RestInHand, IsRestOf
  <2>3. PutNumbers(c) = {} /\ Out(c) = {} /\ RestNumbers(c) = {}
    BY <2>2 DEF PutNumbers, Out, RestNumbers
  <2> QED BY <2>1, <2>2, <2>3 DEF Order
<1>2. Untouched(c) => Order(c)
  BY <1>1
<1> QED BY <1>2, PTL

LEMMA FinishOrder ==
  ASSUME ServerInv, ServerInv', NEW c \in Conns, OneWay(c), Order(c), replies[c] = 0,
         NEW d \in Conns, FinishRead(d) \/ FinishWrite(d)
  PROVE  Order(c)'
<1>0. /\ UNCHANGED <<members, ids, addr, workerVars, delivered>>
      /\ taken[c] \in Nat /\ taken'[c] \in Nat
  BY DEF FinishRead, FinishWrite, ServerInv, TypeOK
<1>1. PICK m : /\ port' = Append(port, m) /\ m.conn = d
               /\ \/ ~(m.kind = "read" /\ m.size = "rest") /\ taken' = taken /\ swallowed' = swallowed
                  \/ /\ m.kind = "read" /\ m.size = "rest" /\ m.n = taken[d] + 1
                     /\ \E last \in taken[d] + 1 .. sent[d] :
                          /\ taken' = [taken EXCEPT ![d] = last]
                          /\ swallowed' = [swallowed EXCEPT ![d] = @ \cup taken[d] + 2 .. last]
                     /\ Alive(d) /\ reads[d] > 0
  <2>1. CASE FinishWrite(d)
    BY <2>1 DEF FinishWrite, Completion
  <2>2. CASE FinishRead(d)
    <3>1. reads[d] > 0
      BY <2>2 DEF FinishRead
    <3>2. PICK z \in {"part", "rest", "zero", "error"} :
            /\ port' = Append(port, Completion(d, "read", z))
            /\ z # "rest" => taken' = taken /\ swallowed' = swallowed
            /\ z = "rest" =>
                 /\ Alive(d)
                 /\ \E last \in taken[d] + 1 .. sent[d] :
                      /\ taken' = [taken EXCEPT ![d] = last]
                      /\ swallowed' = [swallowed EXCEPT ![d] = @ \cup taken[d] + 2 .. last]
      BY <2>2, ReadEnds
    <3> DEFINE done == Completion(d, "read", z)
    <3>3. /\ done.conn = d /\ done.kind = "read" /\ done.size = z
          /\ z = "rest" => done.n = taken[d] + 1
      BY DEF Completion
    <3>4. port' = Append(port, done)
      BY <3>2
    <3> HIDE DEF done
    <3>5. CASE z = "rest"
      BY <3>1, <3>2, <3>3, <3>4, <3>5
    <3>6. CASE z # "rest"
      BY <3>2, <3>3, <3>4, <3>6
    <3> QED BY <3>5, <3>6
  <2> QED BY <2>1, <2>2
<1> DEFINE l == Len(port) + 1
<1>2. /\ \A i \in DOMAIN port : i \in DOMAIN port' /\ port'[i] = port[i] /\ i # l
      /\ \A i \in DOMAIN port' : i \in DOMAIN port \/ i = l
      /\ port'[l] = m /\ l \in DOMAIN port'
  BY <1>1, PortAppend
<1> HIDE DEF l
<1>3. /\ InPut(c)' = InPut(c) /\ RestInHand(c)' = RestInHand(c) /\ Passed(c)' = Passed(c)
      /\ PutNumbers(c)' = PutNumbers(c) /\ Out(c)' = Out(c) /\ Alive(c)' = Alive(c)
  BY <1>0 DEF InPut, RestInHand, Passed, PutNumbers, Out, Alive
<1>n. \A u, v \in InPut(c)' : job'[u].n = job'[v].n => u = v
  BY <1>0, <1>3 DEF Order
<1>4. CASE ~IsRestOf(m, c)
  <2>1. taken'[c] = taken[c] /\ swallowed'[c] = swallowed[c]
    <3>1. taken \in [Conns -> 0 .. MaxPackets] /\ swallowed \in [Conns -> SUBSET (1 .. MaxPackets)]
      BY DEF ServerInv, TypeOK
    <3>2. CASE taken' = taken /\ swallowed' = swallowed
      BY <3>2
    <3>3. CASE /\ c # d
               /\ \E last : /\ taken' = [taken EXCEPT ![d] = last]
                            /\ swallowed' = [swallowed EXCEPT ![d] = @ \cup taken[d] + 2 .. last]
      BY <3>1, <3>3
    <3> QED BY <1>1, <1>4, <3>2, <3>3 DEF IsRestOf
  <2>2. RestOnPort(c)' = RestOnPort(c)
    BY <1>2, <1>4 DEF RestOnPort
  <2>3. \A i \in RestOnPort(c) : port'[i] = port[i]
    BY <1>2 DEF RestOnPort
  <2>4. RestNumbers(c)' = RestNumbers(c)
    BY <1>0, <1>3, <2>2, <2>3 DEF RestNumbers
  <2> QED BY <1>0, <1>3, <1>n, <2>1, <2>4, OrderSame
<1>5. CASE IsRestOf(m, c)
  <2>0. PICK last \in taken[d] + 1 .. sent[d] :
          /\ taken' = [taken EXCEPT ![d] = last]
          /\ swallowed' = [swallowed EXCEPT ![d] = @ \cup taken[d] + 2 .. last]
    BY <1>1, <1>5 DEF IsRestOf
  <2>1. /\ c = d /\ m.n = taken[c] + 1 /\ Alive(c) /\ reads[c] > 0
        /\ taken'[c] = last /\ swallowed'[c] = swallowed[c] \cup taken[c] + 2 .. last
        /\ last \in Nat /\ taken[c] + 1 <= last
    <3>1. taken \in [Conns -> 0 .. MaxPackets] /\ swallowed \in [Conns -> SUBSET (1 .. MaxPackets)]
      BY DEF ServerInv, TypeOK
    <3>2. c = d /\ m.n = taken[c] + 1 /\ Alive(c) /\ reads[c] > 0
      BY <1>1, <1>5 DEF IsRestOf
    <3>3. taken'[c] = last /\ swallowed'[c] = swallowed[c] \cup taken[c] + 2 .. last
      BY <2>0, <3>1, <3>2
    <3>4. last \in Nat /\ taken[c] + 1 <= last
      <4>1. taken[c] \in Nat /\ sent[c] \in Nat
        BY DEF ServerInv, TypeOK
      <4> QED BY <2>0, <3>2, <4>1
    <3> QED BY <3>2, <3>3, <3>4
  <2>k. PICK k \in Nat : k = taken[c] + 1
    BY <1>0
  <2>2. RestOnPort(c) = {} /\ RestInHand(c) = {}
    BY <2>1, OneRest
  <2>3. RestOnPort(c)' = {l}
    BY <1>2, <1>5, <2>2 DEF RestOnPort
  <2>4. RestNumbers(c)' = {k} /\ RestNumbers(c) = {}
    BY <1>2, <1>3, <2>1, <2>2, <2>3, <2>k DEF RestNumbers
  <2>5. /\ \A n \in Out(c) : n \in 1 .. taken[c]
        /\ \A n \in 1 .. taken[c] : n \in Out(c) \cup swallowed[c]
    BY <2>1, <2>4 DEF Order
  <2>6. Beyond(k, c)'
    BY <1>0, <1>3, <2>1, <2>5, <2>k DEF Beyond
  <2>7. \A n \in Out(c)' : n \in 1 .. taken'[c]
    BY <1>0, <1>3, <2>1, <2>5
  <2>8. \A n \in 1 .. taken'[c] :
          \/ n \in Out(c)' \cup swallowed'[c]
          \/ Beyond(n, c)' /\ (n \in RestNumbers(c)' \/ ~Alive(c)')
    <3> SUFFICES ASSUME NEW n \in 1 .. taken'[c]
                 PROVE  n \in Out(c)' \cup swallowed'[c] \/ n = k
      BY <2>4, <2>6
    <3>1. n \in 1 .. taken[c] \/ n = taken[c] + 1 \/ n \in taken[c] + 2 .. last
      BY <1>0, <2>1
    <3> QED BY <1>3, <2>1, <2>5, <2>k, <3>1
  <2>9. Passed(c)' \cap PutNumbers(c)' = {}
    BY <1>3 DEF Order
  <2>10. \A i, j \in DOMAIN delivered'[c] : delivered'[c][i] = delivered'[c][j] => i = j
    BY <1>0 DEF Order
  <2>11. \A n \in RestNumbers(c)' : Beyond(n, c)'
    BY <2>4, <2>6
  <2> QED BY <1>n, <2>7, <2>8, <2>9, <2>10, <2>11 DEF Order
<1> QED BY <1>4, <1>5

LEMMA DequeueOrder ==
  ASSUME ServerInv, ServerInv', NEW c \in Conns, Order(c), NEW w \in Workers, Dequeue(w)
  PROVE  Order(c)'
<1>0. /\ UNCHANGED <<members, ids, addr, taken, swallowed, delivered>> /\ port # <<>> /\ port' = Tail(port)
      /\ wpc[w] = "wait"
      /\ IF Head(port).size = "error"
         THEN UNCHANGED workerVars
         ELSE job' = [job EXCEPT ![w] = Head(port)] /\ wpc' = [wpc EXCEPT ![w] = "handle"]
  BY DEF Dequeue
<1>1. /\ \A v \in Workers : v # w => wpc'[v] = wpc[v] /\ job'[v] = job[v]
      /\ Head(port).size # "error" => job'[w] = Head(port) /\ wpc'[w] = "handle"
      /\ Head(port).size = "error" => wpc'[w] = "wait"
  BY <1>0, WorkerTypes
<1>2. InPut(c)' = InPut(c) /\ \A v \in InPut(c) : job'[v] = job[v]
  BY <1>0, <1>1 DEF InPut
<1>3. PutNumbers(c)' = PutNumbers(c)
  BY <1>2 DEF PutNumbers
<1>4. Passed(c)' = Passed(c) /\ Alive(c)' = Alive(c)
  BY <1>0 DEF Passed, Alive
<1>5. /\ \A i \in RestOnPort(c)' : i + 1 \in RestOnPort(c) /\ port'[i] = port[i + 1]
      /\ \A i \in RestOnPort(c) : i = 1 \/ i - 1 \in RestOnPort(c)'
      /\ Head(port) = port[1]
  <2>1. /\ Len(port) \in Nat \ {0}
        /\ DOMAIN port = 1 .. Len(port) /\ DOMAIN port' = 1 .. Len(port) - 1
        /\ \A i \in DOMAIN port' : i + 1 \in DOMAIN port /\ port'[i] = port[i + 1]
        /\ Head(port) = port[1]
    BY <1>0, PortTail
  <2>2. ASSUME NEW i \in RestOnPort(c), i # 1
        PROVE  i - 1 \in RestOnPort(c)'
    <3>1. i \in DOMAIN port /\ IsRestOf(port[i], c)
      BY DEF RestOnPort
    <3>2. i - 1 \in DOMAIN port' /\ (i - 1) + 1 = i
      BY <2>1, <2>2, <3>1
    <3>3. port'[i - 1] = port[i]
      BY <2>1, <3>2
    <3> QED BY <3>1, <3>2, <3>3 DEF RestOnPort
  <2> QED BY <2>1, <2>2 DEF RestOnPort
<1>6. /\ \A v \in RestInHand(c) : v # w /\ v \in RestInHand(c)' /\ job'[v] = job[v]
      /\ \A v \in RestInHand(c)' : v = w \/ v \in RestInHand(c)
      /\ w \in RestInHand(c)' => 1 \in RestOnPort(c) /\ job'[w] = port[1]
      /\ 1 \in RestOnPort(c) => w \in RestInHand(c)'
  <2>1. 1 \in DOMAIN port
    BY <1>0, PortTail
  <2> QED BY <1>0, <1>1, <1>5, <2>1 DEF RestInHand, RestOnPort, IsRestOf
<1>7. RestNumbers(c)' = RestNumbers(c)
  <2>1. ASSUME NEW n \in RestNumbers(c)'
        PROVE  n \in RestNumbers(c)
    <3>1. CASE \E i \in RestOnPort(c)' : n = port'[i].n
      BY <1>5, <3>1 DEF RestNumbers
    <3>2. CASE \E v \in RestInHand(c)' : n = job'[v].n
      BY <1>6, <3>2 DEF RestNumbers
    <3> QED BY <3>1, <3>2 DEF RestNumbers
  <2>2. ASSUME NEW n \in RestNumbers(c)
        PROVE  n \in RestNumbers(c)'
    <3>1. ASSUME NEW i \in RestOnPort(c), n = port[i].n
          PROVE  n \in RestNumbers(c)'
      <4>1. CASE i = 1
        BY <1>6, <3>1, <4>1 DEF RestNumbers
      <4>2. CASE i # 1
        <5>1. i - 1 \in RestOnPort(c)' /\ port'[i - 1] = port[(i - 1) + 1] /\ (i - 1) + 1 = i
          <6>1. i \in Nat
            BY <1>0, PortTail DEF RestOnPort
          <6> QED BY <1>5, <4>2, <6>1
        <5> QED BY <3>1, <5>1 DEF RestNumbers
      <4> QED BY <4>1, <4>2
    <3>2. ASSUME NEW v \in RestInHand(c), n = job[v].n
          PROVE  n \in RestNumbers(c)'
      BY <1>6, <3>2 DEF RestNumbers
    <3> QED BY <3>1, <3>2 DEF RestNumbers
  <2> QED BY <2>1, <2>2
<1>8. \A u, v \in InPut(c)' : job'[u].n = job'[v].n => u = v
  BY <1>2 DEF Order
<1> QED BY <1>0, <1>3, <1>4, <1>7, <1>8, OrderSame

LEMMA HandleOrder ==
  ASSUME ServerInv, ServerInv', NEW c \in Conns, OneWay(c), Order(c), replies[c] = 0,
         NEW w \in Workers, Handle(w)
  PROVE  Order(c)'
<1>0. /\ UNCHANGED <<addr, taken, swallowed, port>>
      /\ job[w] \in Completions /\ wpc[w] \in {"handle", "put"} /\ job[w].conn \in Conns
      /\ taken[c] \in Nat /\ delivered[c] \in Seq(1 .. MaxPackets)
  <2>1. wpc[w] # "wait"
    BY DEF Handle, HandleFreed, HandleZero, HandleSent, HandlePart, HandleBadPacket, HandlePacket,
           PutPackage, Handling
  <2>2. job[w] \in Completions /\ job[w].conn \in Conns /\ wpc[w] \in {"handle", "put"}
    BY <2>1 DEF ServerInv, TypeOK, Completions
  <2>3. taken[c] \in Nat /\ delivered[c] \in Seq(1 .. MaxPackets)
    BY DEF ServerInv, TypeOK
  <2>4. UNCHANGED <<addr, taken, swallowed, port>>
    BY DEF Handle, HandleFreed, HandleZero, HandleSent, HandlePart, HandleBadPacket, HandlePacket,
           PutPackage, CloseConn
  <2> QED BY <2>2, <2>3, <2>4
<1>1. RestOnPort(c)' = RestOnPort(c) /\ \A i \in RestOnPort(c) : port'[i] = port[i]
  BY <1>0 DEF RestOnPort
<1>2. ASSUME BackToWait(w)
      PROVE  /\ \A v \in Workers : v # w => wpc'[v] = wpc[v] /\ job'[v] = job[v]
             /\ InPut(c)' = {v \in InPut(c) : v # w}
             /\ RestInHand(c)' = {v \in RestInHand(c) : v # w}
             /\ \A v \in InPut(c)' : job'[v] = job[v]
             /\ \A v \in RestInHand(c)' : job'[v] = job[v]
  <2>1. /\ \A v \in Workers : v # w => wpc'[v] = wpc[v] /\ job'[v] = job[v]
        /\ wpc'[w] = "wait"
    BY <1>2 DEF BackToWait, ServerInv, TypeOK
  <2> QED BY <2>1 DEF InPut, RestInHand
<1>3. ASSUME wpc[w] = "handle", BackToWait(w), delivered' = delivered, Alive(c)' => Alive(c),
             w \in RestInHand(c) => ~Alive(c)'
      PROVE  Order(c)'
  <2>1. InPut(c)' = InPut(c)
    BY <1>2, <1>3 DEF InPut
  <2>2. PutNumbers(c)' = PutNumbers(c)
    BY <1>2, <1>3, <2>1 DEF PutNumbers
  <2>3. RestNumbers(c)' \subseteq RestNumbers(c)
    BY <1>1, <1>2, <1>3 DEF RestNumbers
  <2>4. Alive(c)' => RestNumbers(c)' = RestNumbers(c)
    <3>1. w \notin RestInHand(c) => RestInHand(c)' = RestInHand(c)
      BY <1>2, <1>3
    <3>2. w \notin RestInHand(c) => \A v \in RestInHand(c) : job'[v] = job[v]
      BY <1>2, <1>3
    <3> QED BY <1>1, <1>3, <3>1, <3>2 DEF RestNumbers
  <2>6. \A u, v \in InPut(c)' : job'[u].n = job'[v].n => u = v
    BY <1>2, <1>3, <2>1 DEF Order
  <2> QED BY <1>0, <1>3, <2>2, <2>3, <2>4, <2>6, OrderSame
<1>4. CASE HandleFreed(w)
  <2>1. /\ wpc[w] = "handle" /\ BackToWait(w) /\ UNCHANGED <<members, ids, delivered>>
        /\ ~Alive(job[w].conn)
    BY <1>4 DEF HandleFreed, UseOfFreed
  <2>2. Alive(c)' <=> Alive(c)
    BY <1>0, <2>1, AliveKept
  <2> QED BY <1>3, <2>1, <2>2 DEF RestInHand, IsRestOf
<1>5. CASE HandleZero(w) \/ HandleBadPacket(w)
  <2>1. wpc[w] = "handle" /\ BackToWait(w) /\ delivered' = delivered /\ CloseConn(job[w].conn)
    BY <1>5 DEF HandleZero, HandleBadPacket, Handling
  <2>2. Alive(c)' <=> Alive(c) /\ c # job[w].conn
    BY <1>0, <2>1, AliveClose
  <2> QED BY <1>3, <2>1, <2>2 DEF RestInHand, IsRestOf
<1>6. CASE HandleSent(w) \/ HandlePart(w)
  <2>1. /\ wpc[w] = "handle" /\ BackToWait(w) /\ UNCHANGED <<members, ids, delivered>>
        /\ ~IsRestOf(job[w], c)
    BY <1>6 DEF HandleSent, HandlePart, Handling, IsRestOf
  <2>2. Alive(c)' <=> Alive(c)
    BY <1>0, <2>1, AliveKept
  <2> QED BY <1>3, <2>1, <2>2 DEF RestInHand
<1>7. CASE HandlePacket(w)
  <2>0. /\ wpc[w] = "handle" /\ job[w].kind = "read" /\ job[w].size = "rest"
        /\ UNCHANGED <<members, ids, delivered, job>>
        /\ \A v \in Workers : v # w => wpc'[v] = wpc[v]
        /\ wpc'[w] = "put"
    <3>1. wpc' = [wpc EXCEPT ![w] = "put"]
      BY <1>7 DEF HandlePacket
    <3>2. /\ \A v \in Workers : v # w => wpc'[v] = wpc[v]
          /\ wpc'[w] = "put"
      BY <3>1 DEF ServerInv, TypeOK
    <3> QED BY <1>7, <3>2 DEF HandlePacket, Handling
  <2>1. Passed(c)' = Passed(c) /\ (Alive(c)' <=> Alive(c))
    BY <1>0, <2>0, AliveKept DEF Passed
  <2>2. CASE job[w].conn # c
    <3>1. InPut(c)' = InPut(c) /\ RestInHand(c)' = RestInHand(c)
      BY <2>0, <2>2 DEF InPut, RestInHand, IsRestOf
    <3>2. PutNumbers(c)' = PutNumbers(c)
      BY <2>0, <3>1 DEF PutNumbers
    <3>3. RestNumbers(c)' = RestNumbers(c)
      BY <1>1, <2>0, <3>1 DEF RestNumbers
    <3>4. \A u, v \in InPut(c)' : job'[u].n = job'[v].n => u = v
      BY <2>0, <3>1 DEF Order
    <3> QED BY <1>0, <2>0, <2>1, <3>2, <3>3, <3>4, OrderSame
  <2>3. CASE job[w].conn = c
    <3>1. w \in RestInHand(c)
      BY <2>0, <2>3 DEF RestInHand, IsRestOf
    <3>2. RestOnPort(c) = {} /\ RestInHand(c) = {w}
      BY <3>1, OneRest
    <3> DEFINE k == job[w].n
    <3>3. k \in RestNumbers(c) /\ RestNumbers(c) = {k}
      BY <3>1, <3>2 DEF RestNumbers
    <3>4. k \in 1 .. taken[c] /\ \A n \in Out(c) : n \in 1 .. taken[c] /\ n < k
      BY <3>3 DEF Order, Beyond
    <3>5. InPut(c)' = InPut(c) \cup {w} /\ RestInHand(c)' = {}
      BY <2>0, <2>3, <3>2 DEF InPut, RestInHand
    <3>6. PutNumbers(c)' = PutNumbers(c) \cup {k} /\ Out(c)' = Out(c) \cup {k}
      BY <2>0, <2>1, <3>5 DEF PutNumbers, Out
    <3>7. \A v \in InPut(c) : job[v].n # k
      <4>1. \A v \in InPut(c) : job[v].n \in Out(c)
        BY DEF PutNumbers, Out
      <4> QED BY <3>4, <4>1
    <3>8. \A u, v \in InPut(c)' : job'[u].n = job'[v].n => u = v
      BY <2>0, <3>5, <3>7 DEF Order
    <3> HIDE DEF k
    <3>9. \A n \in Out(c)' : n \in 1 .. taken'[c]
      BY <1>0, <3>4, <3>6
    <3>10. Passed(c)' \cap PutNumbers(c)' = {}
      <4>1. k \notin Passed(c)
        BY <3>4 DEF Out
      <4> QED BY <2>1, <3>6, <4>1 DEF Order
    <3>11. Alive(c)
      BY <1>7, <2>3 DEF HandlePacket
    <3>12. \A n \in 1 .. taken'[c] : n \in Out(c)' \cup swallowed'[c]
      BY <1>0, <3>3, <3>6, <3>11 DEF Order
    <3>13. \A i, j \in DOMAIN delivered'[c] : delivered'[c][i] = delivered'[c][j] => i = j
      BY <2>0 DEF Order
    <3>14. RestNumbers(c)' = {}
      <4>1. RestOnPort(c)' = {}
        BY <1>1, <3>2
      <4> QED BY <3>5, <4>1 DEF RestNumbers
    <3> QED BY <3>8, <3>9, <3>10, <3>12, <3>13, <3>14 DEF Order
  <2> QED BY <2>2, <2>3
<1>8. CASE PutPackage(w)
  <2>0. /\ wpc[w] = "put" /\ BackToWait(w) /\ UNCHANGED <<members, ids>>
        /\ delivered' = [delivered EXCEPT ![job[w].conn] = Append(@, job[w].n)]
    BY <1>8 DEF PutPackage
  <2>1. Alive(c)' <=> Alive(c)
    BY <1>0, <2>0, AliveKept
  <2>2. RestInHand(c)' = RestInHand(c)
    BY <1>2, <2>0 DEF RestInHand
  <2>3. RestNumbers(c)' = RestNumbers(c)
    <3>1. \A v \in RestInHand(c)' : job'[v] = job[v]
      BY <1>2, <2>0
    <3> QED BY <1>1, <2>2, <3>1 DEF RestNumbers
  <2>4. CASE job[w].conn # c
    <3>1. InPut(c)' = InPut(c) /\ \A v \in InPut(c) : job'[v] = job[v]
      BY <1>2, <2>0, <2>4 DEF InPut
    <3>2. PutNumbers(c)' = PutNumbers(c)
      BY <3>1 DEF PutNumbers
    <3>3. delivered'[c] = delivered[c]
      BY <2>0, <2>4 DEF ServerInv, TypeOK
    <3>5. \A u, v \in InPut(c)' : job'[u].n = job'[v].n => u = v
      BY <3>1 DEF Order
    <3> QED BY <1>0, <2>1, <2>3, <3>2, <3>3, <3>5, OrderSame
  <2>5. CASE job[w].conn = c
    <3> DEFINE n == job[w].n
    <3>1. w \in InPut(c) /\ n \in PutNumbers(c)
      BY <2>0, <2>5 DEF InPut, PutNumbers
    <3>2. n \in 1 .. taken[c] /\ n \notin Passed(c)
      BY <3>1 DEF Order, Out
    <3>3. delivered'[c] = Append(delivered[c], n)
      BY <2>0, <2>5 DEF ServerInv, TypeOK
    <3> HIDE DEF n
    <3>4. /\ \A i \in DOMAIN delivered[c] : /\ i \in DOMAIN delivered'[c] /\ i # Len(delivered[c]) + 1
                                           /\ delivered'[c][i] = delivered[c][i]
          /\ \A i \in DOMAIN delivered'[c] : i \in DOMAIN delivered[c] \/ i = Len(delivered[c]) + 1
          /\ delivered'[c][Len(delivered[c]) + 1] = n
          /\ Len(delivered[c]) + 1 \in DOMAIN delivered'[c]
      <4> DEFINE s == delivered[c]
      <4>1. s \in Seq(1 .. MaxPackets) /\ n \in Int /\ delivered'[c] = Append(s, n)
        BY <1>0, <3>2, <3>3
      <4>2. s \in Seq(Int) /\ Len(s) \in Nat /\ DOMAIN s = 1 .. Len(s)
        BY <4>1
      <4> HIDE DEF s
      <4>3. Append(s, n) \in Seq(Int) /\ Len(Append(s, n)) = Len(s) + 1
        BY <4>1, <4>2
      <4>4. DOMAIN delivered'[c] = 1 .. Len(s) + 1
        BY <4>1, <4>3
      <4>5. /\ \A i \in 1 .. Len(s) : delivered'[c][i] = s[i]
            /\ delivered'[c][Len(s) + 1] = n
        BY <4>1, <4>2
      <4>6. \A i : i \in 1 .. Len(s) + 1 <=> i \in 1 .. Len(s) \/ i = Len(s) + 1
        BY <4>2
      <4>7. Len(s) + 1 \notin 1 .. Len(s)
        BY <4>2
      <4> QED BY <4>2, <4>4, <4>5, <4>6, <4>7 DEF s
    <3>5. Passed(c)' = Passed(c) \cup {n}
      BY <3>4 DEF Passed
    <3>6. \A i, j \in DOMAIN delivered'[c] : delivered'[c][i] = delivered'[c][j] => i = j
      <4>1. \A i \in DOMAIN delivered[c] : delivered[c][i] # n
        BY <3>2 DEF Passed
      <4>2. \A i, j \in DOMAIN delivered[c] : delivered[c][i] = delivered[c][j] => i = j
        BY DEF Order
      <4> QED BY <3>4, <4>1, <4>2
    <3>7. PutNumbers(c)' = PutNumbers(c) \ {n}
      <4>1. \A v \in InPut(c) : v # w => job[v].n # n
        BY <3>1 DEF Order, n
      <4>2. PutNumbers(c)' = {job[v].n : v \in {u \in InPut(c) : u # w}}
        BY <1>2, <2>0 DEF PutNumbers
      <4>3. \A v \in InPut(c) : v = w => job[v].n = n
        BY DEF n
      <4> QED BY <4>1, <4>2, <4>3 DEF PutNumbers
    <3>8. \A u, v \in InPut(c)' : job'[u].n = job'[v].n => u = v
      BY <1>2, <2>0 DEF Order
    <3>9. Out(c)' = Out(c)
      BY <3>1, <3>5, <3>7 DEF Out
    <3>10. Passed(c)' \cap PutNumbers(c)' = {}
      BY <3>5, <3>7 DEF Order
    <3>11. \A k : Beyond(k, c)' <=> Beyond(k, c)
      BY <1>0, <3>9 DEF Beyond
    <3>12. \A k \in RestNumbers(c)' : Beyond(k, c)'
      BY <2>3, <3>11 DEF Order
    <3>13. \A k \in 1 .. taken'[c] :
             \/ k \in Out(c)' \cup swallowed'[c]
             \/ Beyond(k, c)' /\ (k \in RestNumbers(c)' \/ ~Alive(c)')
      BY <1>0, <2>1, <2>3, <3>9, <3>11 DEF Order
    <3>14. \A k \in Out(c)' : k \in 1 .. taken'[c]
      BY <1>0, <3>9 DEF Order
    <3> QED BY <3>6, <3>8, <3>10, <3>12, <3>13, <3>14 DEF Order
  <2> QED BY <2>4, <2>5
<1> QED BY <1>4, <1>5, <1>6, <1>7, <1>8 DEF Handle

LEMMA OrderStep ==
  ASSUME ServerInv, ServerInv', FreshInv', ReadInv, OrderInv, [Next]_vars
  PROVE  OrderInv'
<1> SUFFICES ASSUME NEW c \in Conns, replies'[c] = 0
             PROVE  Order(c)'
  BY DEF OrderInv
<1>0. replies[c] = 0 /\ OneWay(c) /\ Order(c)
  <2>1. CASE replies' = replies
    BY <2>1 DEF OrderInv, ReadInv
  <2>2. CASE ContentsReply
    <3>1. replies' = replies \/ replies' = [replies EXCEPT ![Head(contents)] = @ + 1]
      BY <2>2 DEF ContentsReply
    <3>2. replies \in [Conns -> 0 .. MaxReplies] /\ Head(contents) \in Conns
      <4>1. contents \in Seq(Conns) /\ contents # <<>>
        BY <2>2 DEF ContentsReply, ServerInv, TypeOK
      <4>2. Head(contents) \in Conns
        BY <4>1
      <4> QED BY <4>2, ConnTypes
    <3>3. replies[c] = 0
      <4>1. CASE replies' = replies
        BY <4>1
      <4>2. CASE replies' = [replies EXCEPT ![Head(contents)] = @ + 1]
        <5>1. replies[c] \in Nat /\ replies'[c] \in {replies[c], replies[c] + 1}
          BY <3>2, <4>2
        <5> QED BY <5>1
      <4> QED BY <3>1, <4>1, <4>2
    <3> QED BY <3>3 DEF OrderInv, ReadInv
  <2>3. CASE RunReady \/ AcceptThread \/ ContentsDone \/ \E s \in Sessions : Accept(s)
    BY <2>1, <2>3 DEF RunReady, AcceptThread, AddHeld, RefuseHeld, Attach, StandBy, CheckStatus,
                      ContentsDone, Accept
  <2>4. CASE \/ \E d \in Conns : Client(d) \/ FinishRead(d) \/ FinishWrite(d) \/ OutsideClose(d)
             \/ \E w \in Workers : Dequeue(w)
    BY <2>1, <2>4 DEF Client, FinishRead, FinishWrite, OutsideClose, Dequeue
  <2>5. CASE \E w \in Workers : Handle(w)
    BY <2>1, <2>5 DEF Handle, HandleFreed, HandleZero, HandleSent, HandlePart, HandleBadPacket,
                      HandlePacket, PutPackage
  <2> QED BY <2>1, <2>2, <2>3, <2>4, <2>5 DEF Next, vars
<1>1. CASE RunReady \/ RefuseHeld \/ Attach \/ StandBy \/ CheckStatus \/ ContentsDone
           \/ ContentsReply \/ UNCHANGED vars
  <2>1. UNCHANGED <<members, ids, addr, taken, swallowed, delivered, port, workerVars>>
    BY <1>1 DEF RunReady, RefuseHeld, Attach, StandBy, CheckStatus, ContentsDone, ContentsReply, vars
  <2> QED BY <1>0, <2>1, AliveKept, OrderKept
<1>2. ASSUME NEW s \in Sessions, Accept(s)
      PROVE  Order(c)'
  <2>1. UNCHANGED <<taken, swallowed, delivered, port, workerVars>>
    BY <1>2 DEF Accept
  <2> QED BY <1>0, <1>2, <2>1, AliveAccept, OrderKept
<1>3. CASE AddHeld
  <2>1. UNCHANGED <<taken, swallowed, delivered, port, workerVars>>
    BY <1>3 DEF AddHeld
  <2>2. CASE c # nextId
    BY <1>0, <1>3, <2>1, <2>2, AliveAdd, OrderKept
  <2>3. CASE c = nextId
    <3>1. FirstComing(c)'
      BY <1>3, <2>3 DEF AddHeld, FirstComing, ServerInv, TypeOK
    <3>2. Untouched(c)'
      BY <3>1 DEF FreshInv, Fresh
    <3> QED BY <3>2, OrderUntouched
  <2> QED BY <2>2, <2>3
<1>4. ASSUME NEW d \in Conns, Client(d) \/ OutsideClose(d)
      PROVE  Order(c)'
  <2>1. UNCHANGED <<addr, taken, swallowed, delivered, port, workerVars>>
    BY <1>4 DEF Client, OutsideClose, CloseConn
  <2>2. Alive(c)' => Alive(c)
    BY <1>4, <2>1, AliveKept, AliveClose DEF Client, OutsideClose
  <2> QED BY <1>0, <2>1, <2>2, OrderKept
<1> QED BY <1>0, <1>1, <1>2, <1>3, <1>4, FinishOrder, DequeueOrder, HandleOrder DEF Next, AcceptThread

THEOREM OrderInvariant == Spec => []OrderInv
<1>1. Init => OrderInv
  <2> SUFFICES ASSUME Init, NEW c \in Conns
               PROVE  Order(c)
    BY DEF OrderInv
  <2> QED BY ServerInit, OrderUntouched DEF Init, Untouched
<1> QED BY <1>1, OrderStep, ServerInvariant, FreshInvariant, ReadInvariant, PTL DEF Spec

\* Of a client that was not answered, no package is passed on twice, and one that was
\* overtaken by a later one is in the hands of a worker that is about to pass it on, or came
\* behind another packet in one receive.
THEOREM PackagesNearlyInOrder == Spec => []OvertakenPackageInHand
<1>1. ServerInv /\ OrderInv => OvertakenPackageInHand
  <2> SUFFICES ASSUME ServerInv, NEW c \in Conns, Order(c)
               PROVE  /\ Cardinality(Passed(c)) = Len(delivered[c])
                      /\ \A m \in Passed(c) : \A n \in 1 .. m - 1 :
                           n \notin Passed(c) \cup swallowed[c] =>
                             \E w \in Workers : wpc[w] = "put" /\ job[w].conn = c /\ job[w].n = n
    BY DEF OrderInv, OvertakenPackageInHand
  <2>1. Cardinality(Passed(c)) = Len(delivered[c])
    <3> DEFINE f == [i \in 1 .. Len(delivered[c]) |-> delivered[c][i]]
    <3>1. Len(delivered[c]) \in Nat /\ DOMAIN delivered[c] = 1 .. Len(delivered[c])
      BY DEF ServerInv, TypeOK
    <3>2. f \in [1 .. Len(delivered[c]) -> Passed(c)]
      BY <3>1 DEF Passed
    <3>3. \A i, j \in 1 .. Len(delivered[c]) : f[i] = f[j] => i = j
      BY <3>1 DEF Order
    <3>4. \A n \in Passed(c) : \E i \in 1 .. Len(delivered[c]) : f[i] = n
      BY <3>1 DEF Passed
    <3>5. f \in Bijection(1 .. Len(delivered[c]), Passed(c))
      BY <3>2, <3>3, <3>4, Zenon DEF Bijection, Injection, Surjection, IsInjective
    <3> QED BY <3>1, <3>5, FS_CountingElements, Zenon DEF ExistsBijection
  <2>2. ASSUME NEW m \in Passed(c), NEW n \in 1 .. m - 1, n \notin Passed(c) \cup swallowed[c]
        PROVE  \E w \in Workers : wpc[w] = "put" /\ job[w].conn = c /\ job[w].n = n
    <3>1. m \in Out(c) /\ m \in 1 .. taken[c] /\ taken[c] \in Nat
      BY DEF Order, Out, ServerInv, TypeOK
    <3>2. n \in 1 .. taken[c] /\ ~(m < n)
      BY <3>1
    <3>3. n \in PutNumbers(c)
      BY <2>2, <3>1, <3>2 DEF Order, Beyond, Out
    <3> QED BY <3>3 DEF PutNumbers, InPut
  <2> QED BY <2>1, <2>2
<1> QED BY <1>1, ServerInvariant, OrderInvariant, PTL
=============================================================================
