------------------------------ MODULE XmlForest ------------------------------
(***************************************************************************)
(* What the nodes of a document promise: ordered lists of children, with   *)
(* no pointers.  A node is made, comes into one list of children, and is   *)
(* deleted with everything below it; what is copied is copied with         *)
(* everything below it.                                                    *)
(***************************************************************************)
EXTENDS Integers, Sequences

CONSTANTS
  Doc,      \* the document
  Nodes,    \* names for its nodes
  Labels    \* the kinds and names that they can have

VARIABLES
  label,    \* per node: its kind and name, or Dead
  kids      \* per node: its children, in order

vars == <<label, kids>>

Addresses == Nodes \cup {Doc}
Dead == <<"free", "">>

Elements(s) == {s[i] : i \in DOMAIN s}
Insert(s, i, n) == SubSeq(s, 1, i - 1) \o <<n>> \o SubSeq(s, i, Len(s))
Without(s, i) == SubSeq(s, 1, i - 1) \o SubSeq(s, i + 1, Len(s))

Parents(n) == {p \in Addresses : n \in Elements(kids[p])}
Detached(n) == label[n] # Dead /\ n # Doc /\ Parents(n) = {}

\* What is deleted with n: the least set that has n and with every node its children.
Below(n) ==
  LET child == UNION {{<<p, m>> : m \in Elements(kids[p])} : p \in Addresses}
      closed == {S \in SUBSET Addresses : n \in S /\ \A c \in child : c[1] \in S => c[2] \in S}
  IN  {m \in Addresses : \A S \in closed : m \in S}

\* The nodes that a step makes.
Made == {n \in Nodes : label[n] = Dead /\ label'[n] # Dead}

Init ==
  /\ label = [n \in Addresses |-> IF n = Doc THEN <<"document", "">> ELSE Dead]
  /\ kids = [n \in Addresses |-> <<>>]

\* The nodes of S are deleted; p has the children s from now on.
Kill(S, p, s) ==
  /\ label' = [n \in Addresses |-> IF n \in S THEN Dead ELSE label[n]]
  /\ kids' = [n \in Addresses |-> IF n = p THEN s ELSE IF n \in S THEN <<>> ELSE kids[n]]

Create(n) ==
  /\ Made = {n} /\ label'[n] \in Labels
  /\ label' = [label EXCEPT ![n] = label'[n]]
  /\ UNCHANGED kids

\* A node that was made joins a list at its end.
Attach(p, n) ==
  /\ label' = label /\ Detached(n) /\ label[p] # Dead /\ p \notin Below(n)
  /\ kids' = [kids EXCEPT ![p] = Append(@, n)]

\* Both at once.
CreateAttached(p, n) ==
  /\ Made = {n} /\ label'[n] \in Labels /\ label[p] # Dead
  /\ label' = [label EXCEPT ![n] = label'[n]]
  /\ kids' = [kids EXCEPT ![p] = Append(@, n)]

\* A copy of src and of all below it, made of new nodes.
Copies(src, f) ==
  /\ \A x, y \in DOMAIN f : f[x] = f[y] => x = y
  /\ Made = {f[x] : x \in DOMAIN f}
  /\ \A x \in DOMAIN f : label'[f[x]] = label[x]

\* It becomes the i-th child of p, which has the children s otherwise; the nodes of gone,
\* which were children of p or below them, are deleted.
Copied(f, p, i, src, s, gone) ==
  LET k == kids
      from(n) == CHOOSE x \in DOMAIN f : f[x] = n
  IN  /\ label' = [n \in Addresses |->
                     IF n \in Made THEN label'[n] ELSE IF n \in gone THEN Dead ELSE label[n]]
      /\ kids' = [n \in Addresses |->
                    IF n \in Made THEN [j \in DOMAIN k[from(n)] |-> f[k[from(n)][j]]]
                    ELSE IF n = p THEN Insert(s, i, f[src])
                    ELSE IF n \in gone THEN <<>> ELSE k[n]]

InsertCopy(src, f) ==
  /\ Copies(src, f)
  /\ \E p \in Addresses :
       \/ \E i \in 1 .. Len(kids[p]) + 1 : Copied(f, p, i, src, kids[p], {})
       \/ \E i \in DOMAIN kids[p] :
            Copied(f, p, i, src, Without(kids[p], i), Below(kids[p][i]))

\* A child of p with everything below it, what is below p, or p itself, if it has not
\* joined a list.
Delete(p) ==
  \/ \E i \in DOMAIN kids[p] : Kill(Below(kids[p][i]), p, Without(kids[p], i))
  \/ Kill(Below(p) \ {p}, p, <<>>)
  \/ Detached(p) /\ Kill(Below(p), p, <<>>)

Next ==
  \/ \E n \in Made : Create(n) \/ \E p \in Addresses : CreateAttached(p, n)
  \/ /\ Made # {}
     /\ \E src \in Nodes : label[src] # Dead /\ \E f \in [Below(src) -> Made] : InsertCopy(src, f)
  \/ Made = {} /\ \E p \in Addresses : Delete(p) \/ \E n \in Nodes : Attach(p, n)

Spec == Init /\ [][Next]_vars
=============================================================================
