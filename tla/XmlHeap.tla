------------------------------- MODULE XmlHeap -------------------------------
(***************************************************************************)
(* The nodes of a TiXmlDocument and their links (tinyxml.h, tinyxml.cpp):  *)
(* every node has a parent, a first and a last child, a sibling before it  *)
(* and one after it, and an element has its attributes.  A heap is a       *)
(* record of these fields as functions of the node's address, and the      *)
(* operations are operators from heaps to heaps.                           *)
(*                                                                         *)
(* The address of a node that is deleted is free to be allocated again.    *)
(* All the fields of a free node are Null: nobody may read them.           *)
(***************************************************************************)
EXTENDS Integers, Sequences

CONSTANTS
  Doc,      \* the TiXmlDocument
  Nodes,    \* addresses for its nodes; their number is a bound
  Null

ASSUME HeapAssumption == Doc \notin Nodes /\ Null \notin Nodes \cup {Doc}

Addresses == Nodes \cup {Doc}
Pointers == Addresses \cup {Null}

\* TiXmlNode::NodeType, and "free" for memory that is no node.
Kinds == {"free", "document", "element", "comment", "unknown", "text", "cdata", "declaration"}

Inner(kind) == kind \in {"document", "element"}

LinkType(h) ==
  /\ DOMAIN h = {"kind", "name", "attrs", "parent", "first", "last", "prev", "next"}
  /\ h.kind \in [Addresses -> Kinds]
  /\ h.parent \in [Addresses -> Pointers]
  /\ h.first \in [Addresses -> Pointers] /\ h.last \in [Addresses -> Pointers]
  /\ h.prev \in [Addresses -> Pointers] /\ h.next \in [Addresses -> Pointers]

HeapType(h) ==
  /\ LinkType(h)
  /\ h.name \in [Addresses -> STRING]
  /\ h.attrs \in [Addresses -> Seq([name : STRING, value : STRING])]

Live(h) == {n \in Addresses : h.kind[n] # "free"}
FreeNodes(h) == {n \in Nodes : h.kind[n] = "free"}

\* TiXmlDocument::TiXmlDocument.
EmptyHeap ==
  [kind |-> [n \in Addresses |-> IF n = Doc THEN "document" ELSE "free"],
   name |-> [n \in Addresses |-> ""],
   attrs |-> [n \in Addresses |-> <<>>],
   parent |-> [n \in Addresses |-> Null], first |-> [n \in Addresses |-> Null],
   last |-> [n \in Addresses |-> Null], prev |-> [n \in Addresses |-> Null],
   next |-> [n \in Addresses |-> Null]]

-----------------------------------------------------------------------------
(* Nodes: allocation, links, deletion.                                     *)

\* A constructor, with the parent that Identify sets: n is in no list of children.
New(h, n, kind, name, parent) ==
  [h EXCEPT !.kind = [@ EXCEPT ![n] = kind],
            !.name = [@ EXCEPT ![n] = name],
            !.parent = [@ EXCEPT ![n] = parent]]

\* The node n, which is in no list, comes between the children b and a of p.  Null for b
\* stands for the front of the list, Null for a for its end.
Splice(h, p, b, a, n) ==
  [h EXCEPT
     !.parent = [@ EXCEPT ![n] = p],
     !.prev = [m \in Addresses |-> IF m = n THEN b ELSE IF m = a THEN n ELSE h.prev[m]],
     !.next = [m \in Addresses |-> IF m = n THEN a ELSE IF m = b THEN n ELSE h.next[m]],
     !.first = [m \in Addresses |-> IF m = p /\ b = Null THEN n ELSE h.first[m]],
     !.last = [m \in Addresses |-> IF m = p /\ a = Null THEN n ELSE h.last[m]]]

LinkEndChild(h, p, n) == Splice(h, p, h.last[p], Null, n)

LinkBefore(h, x, n) == Splice(h, h.parent[x], h.prev[x], x, n)

\* Mutant: the child after x keeps x as the one before it.
LinkAfterForgetsPrev(h, x, n) ==
  [Splice(h, h.parent[x], x, h.next[x], n) EXCEPT
     !.prev = [m \in Addresses |-> IF m = n THEN x ELSE h.prev[m]]]

LinkAfter(h, x, n) == Splice(h, h.parent[x], x, h.next[x], n)

\* The first half of RemoveChild; x keeps its own pointers.
Unlink(h, x) ==
  [h EXCEPT
     !.prev = [m \in Addresses |-> IF m = h.next[x] THEN h.prev[x] ELSE @[m]],
     !.next = [m \in Addresses |-> IF m = h.prev[x] THEN h.next[x] ELSE @[m]],
     !.first = [m \in Addresses |->
                  IF m = h.parent[x] /\ h.prev[x] = Null THEN h.next[x] ELSE @[m]],
     !.last = [m \in Addresses |->
                  IF m = h.parent[x] /\ h.next[x] = Null THEN h.prev[x] ELSE @[m]]]

Closed(h, S) == \A m \in Addresses : h.parent[m] \in S => m \in S

\* The node and what is below it: what ~TiXmlNode deletes.
Subtree(h, n) ==
  LET closed == {S \in SUBSET Addresses : n \in S /\ Closed(h, S)}
  IN  {m \in Addresses : \A S \in closed : m \in S}

Free(h, S) ==
  [kind |-> [n \in Addresses |-> IF n \in S THEN "free" ELSE h.kind[n]],
   name |-> [n \in Addresses |-> IF n \in S THEN "" ELSE h.name[n]],
   attrs |-> [n \in Addresses |-> IF n \in S THEN <<>> ELSE h.attrs[n]],
   parent |-> [n \in Addresses |-> IF n \in S THEN Null ELSE h.parent[n]],
   first |-> [n \in Addresses |-> IF n \in S THEN Null ELSE h.first[n]],
   last |-> [n \in Addresses |-> IF n \in S THEN Null ELSE h.last[n]],
   prev |-> [n \in Addresses |-> IF n \in S THEN Null ELSE h.prev[n]],
   next |-> [n \in Addresses |-> IF n \in S THEN Null ELSE h.next[n]]]

RemoveChild(h, x) == Free(Unlink(h, x), Subtree(h, x))

\* The node n, which is in no list, takes the place of x, which is deleted.
ReplaceLink(h, x, n) ==
  Free(Splice(h, h.parent[x], h.prev[x], h.next[x], n), Subtree(h, x))

\* TiXmlNode::Clear.
Clear(h, p) ==
  [Free(h, Subtree(h, p) \ {p}) EXCEPT
     !.first = [@ EXCEPT ![p] = Null], !.last = [@ EXCEPT ![p] = Null]]

-----------------------------------------------------------------------------
(* Attributes: TiXmlAttributeSet, a ring with a sentinel, in its order.    *)

NameOf(attrs) == {attrs[i].name : i \in DOMAIN attrs}

\* FindOrCreate, which goes through the ring, and SetValue.
SetAttr(attrs, name, value) ==
  IF name \in NameOf(attrs)
  THEN [i \in DOMAIN attrs |->
          IF attrs[i].name = name THEN [name |-> name, value |-> value] ELSE attrs[i]]
  ELSE Append(attrs, [name |-> name, value |-> value])

Unnamed(attr) == attr.name = "" /\ attr.value = ""

\* What First and Next lead through: Next takes an attribute that has neither name nor
\* value for the sentinel.
Iterated(attrs) ==
  LET end == {i \in DOMAIN attrs : i > 1 /\ Unnamed(attrs[i])}
  IN  IF end = {} THEN attrs
      ELSE SubSeq(attrs, 1, (CHOOSE i \in end : \A j \in end : i <= j) - 1)

-----------------------------------------------------------------------------
(* Copies.                                                                 *)

Injections(S, T) == {f \in [S -> T] : \A x, y \in S : f[x] = f[y] => x = y}

\* Where a copy of the subtree can go.
Rooms(h, src) == Injections(Subtree(h, src), FreeNodes(h))

\* Mutant: the copy has the children of the node that was copied, not copies of them.
CloneShallow(h, src, f) ==
  [h EXCEPT !.kind = [@ EXCEPT ![f[src]] = h.kind[src]],
            !.name = [@ EXCEPT ![f[src]] = h.name[src]],
            !.attrs = [@ EXCEPT ![f[src]] = Iterated(h.attrs[src])],
            !.first = [@ EXCEPT ![f[src]] = h.first[src]],
            !.last = [@ EXCEPT ![f[src]] = h.last[src]]]

\* Clone and CopyTo: every node of the subtree is copied, its attributes as First and
\* Next find them, and each copy is linked as the original was.
Clone(h, src, f) ==
  LET Copy == {f[k] : k \in DOMAIN f}
      From(m) == CHOOSE k \in DOMAIN f : f[k] = m
      To(k) == IF k \in DOMAIN f THEN f[k] ELSE Null
      Moved(g) == [m \in Addresses |-> IF m \in Copy THEN To(g[From(m)]) ELSE g[m]]
      Top(g) == [m \in Addresses |-> IF m = f[src] THEN Null ELSE Moved(g)[m]]
  IN  [kind |-> [m \in Addresses |-> IF m \in Copy THEN h.kind[From(m)] ELSE h.kind[m]],
       name |-> [m \in Addresses |-> IF m \in Copy THEN h.name[From(m)] ELSE h.name[m]],
       attrs |-> [m \in Addresses |->
                    IF m \in Copy THEN Iterated(h.attrs[From(m)]) ELSE h.attrs[m]],
       parent |-> Top(h.parent), first |-> Moved(h.first), last |-> Moved(h.last),
       prev |-> Top(h.prev), next |-> Top(h.next)]

-----------------------------------------------------------------------------
(* Navigation.                                                             *)

\* The children of p by the next pointers, and from the last by the prev pointers.
Children(h, p) ==
  LET chain[n \in Pointers] == IF n = Null THEN <<>> ELSE <<n>> \o chain[h.next[n]]
  IN  chain[h.first[p]]

ChildrenBack(h, p) ==
  LET chain[n \in Pointers] == IF n = Null THEN <<>> ELSE chain[h.prev[n]] \o <<n>>
  IN  chain[h.last[p]]

\* FirstChild, NextSibling and their Element forms: the first from n on that has the name
\* (any, if the name is ""), and is an element if only elements are asked for.
Fits(h, n, name, elements) ==
  /\ name # "" => h.name[n] = name
  /\ elements => h.kind[n] = "element"

Forward(h, start, name, elements) ==
  LET from[n \in Pointers] ==
        IF n = Null \/ Fits(h, n, name, elements) THEN n ELSE from[h.next[n]]
  IN  from[start]

FirstChild(h, p, name) == Forward(h, h.first[p], name, FALSE)
NextSibling(h, n, name) == Forward(h, h.next[n], name, FALSE)
FirstChildElement(h, p, name) == Forward(h, h.first[p], name, TRUE)

\* Mutant: the sibling next to the node is passed over.
NextSiblingElementSkips(h, n, name) ==
  Forward(h, IF h.next[n] = Null THEN Null ELSE h.next[h.next[n]], name, TRUE)

NextSiblingElement(h, n, name) == Forward(h, h.next[n], name, TRUE)

\* TiXmlHandle::Child(value, count), which walks FirstChild and NextSibling.
Child(h, p, name, count) ==
  LET walk[i \in 0 .. count] ==
        IF i = 0 THEN FirstChild(h, p, name)
        ELSE IF walk[i - 1] = Null THEN Null ELSE NextSibling(h, walk[i - 1], name)
  IN  walk[count]

\* TiXmlHandle::ChildElement(value, count), which walks FirstChildElement and
\* NextSiblingElement.
ChildElement(h, p, name, count) ==
  LET walk[i \in 0 .. count] ==
        IF i = 0 THEN FirstChildElement(h, p, name)
        ELSE IF walk[i - 1] = Null THEN Null ELSE NextSiblingElement(h, walk[i - 1], name)
  IN  walk[count]

-----------------------------------------------------------------------------
(* What holds of the links.  A node of U has been made and is in no list:  *)
(* its Parse has not returned.                                             *)

\* Nobody may read a free node; a parent is no free node.
FreeBlank(h, n) ==
  h.kind[n] = "free" =>
    /\ h.parent[n] = Null /\ h.first[n] = Null /\ h.last[n] = Null
    /\ h.prev[n] = Null /\ h.next[n] = Null

ParentLive(h, n) == h.parent[n] # Null => h.parent[n] \in Live(h)

\* The ends of a list of children; it is empty from both.
FirstLinked(h, U, n) ==
  h.first[n] # Null =>
    h.parent[h.first[n]] = n /\ h.prev[h.first[n]] = Null /\ h.first[n] \notin U

LastLinked(h, U, n) ==
  h.last[n] # Null =>
    h.parent[h.last[n]] = n /\ h.next[h.last[n]] = Null /\ h.last[n] \notin U

BothEnds(h, n) == h.first[n] = Null <=> h.last[n] = Null

\* Its inside.
NextLinked(h, U, n) ==
  h.next[n] # Null =>
    h.prev[h.next[n]] = n /\ h.parent[h.next[n]] = h.parent[n] /\ h.next[n] \notin U

PrevLinked(h, U, n) ==
  h.prev[n] # Null =>
    h.next[h.prev[n]] = n /\ h.parent[h.prev[n]] = h.parent[n] /\ h.prev[n] \notin U

\* Who has a parent is in its list, but for U; who is in no list has no siblings.
Listed(h, U, n) ==
  h.parent[n] # Null /\ n \notin U =>
    /\ h.prev[n] = Null => h.first[h.parent[n]] = n
    /\ h.next[n] = Null => h.last[h.parent[n]] = n

Loose(h, U, n) == n \in U \/ h.parent[n] = Null => h.prev[n] = Null /\ h.next[n] = Null

NodeLinked(h, U, n) ==
  /\ FreeBlank(h, n) /\ ParentLive(h, n)
  /\ FirstLinked(h, U, n) /\ LastLinked(h, U, n) /\ BothEnds(h, n)
  /\ NextLinked(h, U, n) /\ PrevLinked(h, U, n)
  /\ Listed(h, U, n) /\ Loose(h, U, n)

LinksConsistent(h, U) == \A n \in Addresses : NodeLinked(h, U, n)

\* Whoever follows the pointers of f never comes round.
NoRing(f) == \A S \in SUBSET Addresses : S # {} => \E n \in S : f[n] \notin S
=============================================================================
