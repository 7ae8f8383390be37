------------------------- MODULE XmlDocument_proofs -------------------------
(***************************************************************************)
(* Proofs about XmlDocument, for any number of nodes and files of any      *)
(* length: the links of a document are those of a tree at every moment of  *)
(* a load and after every change, its nodes are the ordered lists of       *)
(* XmlForest, and what was read of a file without an error is in it.       *)
(*                                                                         *)
(* The operators of XmlHeap are described by what they make of the         *)
(* pointers of each node; one lemma per operator says that it keeps        *)
(* Linked and NoRing, and the actions are made of them.                    *)
(***************************************************************************)
EXTENDS XmlDocument, FiniteSetTheorems, NaturalsInduction, WellFoundedInduction, TLAPS

USE HeapAssumption DEF Live

LEMMA NullIsNone == Null \notin Addresses /\ Doc \in Addresses /\ Nodes \subseteq Addresses
BY DEF Addresses

\* The document is the root, and the links agree.
Linked(h, U) ==
  /\ LinkType(h) /\ LinksConsistent(h, U)
  /\ h.kind[Doc] = "document" /\ h.parent[Doc] = Null

\* Whose Parse has not returned, each once.
StackInv ==
  /\ open \in Seq(Nodes)
  /\ \A i, j \in DOMAIN open : open[i] = open[j] => i = j
  /\ \A i \in DOMAIN open : heap.kind[open[i]] # "free" /\ heap.parent[open[i]] # Null

ModeInv ==
  /\ mode \notin {"load", "reload"} => open = <<>>
  /\ inTag => open # <<>> /\ heap.kind[Top] = "element"

Sound(h, U) == Linked(h, U) /\ NoRing(h.parent) /\ NoRing(h.next)

DocInv == Sound(heap, Unlinked) /\ StackInv /\ ModeInv

\* A text that is read is the innermost node, and nothing is below it.
TextInv ==
  /\ \A i \in DOMAIN open : heap.kind[open[i]] = "text" => i = Len(open)
  /\ InText => \A m \in Addresses : heap.parent[m] # Top

-----------------------------------------------------------------------------
(* What is below a node.                                                   *)

LEMMA SubtreeIs ==
  ASSUME NEW h, NEW x \in Addresses
  PROVE  /\ Subtree(h, x) \subseteq Addresses /\ x \in Subtree(h, x)
         /\ Closed(h, Subtree(h, x))
         /\ \A m \in Subtree(h, x) : m # x => h.parent[m] \in Subtree(h, x)
<1> DEFINE T == Subtree(h, x)
<1>1. T \subseteq Addresses /\ x \in T
  BY DEF Subtree
<1>2. Closed(h, T)
  <2> SUFFICES ASSUME NEW m \in Addresses, h.parent[m] \in T,
                      NEW S \in SUBSET Addresses, x \in S, Closed(h, S)
               PROVE  m \in S
    BY DEF Subtree, Closed
  <2>1. h.parent[m] \in S BY DEF Subtree
  <2> QED BY <2>1 DEF Closed
<1>3. ASSUME NEW m \in T, m # x, h.parent[m] \notin T PROVE FALSE
  <2> DEFINE S == T \ {m}
  <2>1. S \in SUBSET Addresses /\ x \in S BY <1>1, <1>3
  <2>2. Closed(h, S)
    <3> SUFFICES ASSUME NEW k \in Addresses, h.parent[k] \in S PROVE k \in S BY DEF Closed
    <3>1. k \in T BY <1>2 DEF Closed
    <3> QED BY <1>3, <3>1
  <2>3. m \in S BY <1>3, <2>1, <2>2 DEF Subtree
  <2> QED BY <2>3
<1> QED BY <1>1, <1>2, <1>3

\* The parent of a node is not below it.
LEMMA ParentOutside ==
  ASSUME NEW h, NoRing(h.parent), NEW x \in Addresses
  PROVE  h.parent[x] \notin Subtree(h, x)
<1> SUFFICES ASSUME h.parent[x] \in Subtree(h, x) PROVE FALSE OBVIOUS
<1>1. \A m \in Subtree(h, x) : h.parent[m] \in Subtree(h, x) BY SubtreeIs
<1>2. Subtree(h, x) \in SUBSET Addresses /\ Subtree(h, x) # {} BY SubtreeIs
<1> QED BY <1>1, <1>2 DEF NoRing

-----------------------------------------------------------------------------
(* A node comes into a list.                                               *)

\* g is h with the node n between b and a under p.
Spliced(h, g, p, b, a, n) ==
  /\ LinkType(g)
  /\ \A m \in Addresses :
       /\ g.kind[m] = h.kind[m]
       /\ g.parent[m] = IF m = n THEN p ELSE h.parent[m]
       /\ g.prev[m] = IF m = n THEN b ELSE IF m = a THEN n ELSE h.prev[m]
       /\ g.next[m] = IF m = n THEN a ELSE IF m = b THEN n ELSE h.next[m]
       /\ g.first[m] = IF m = p /\ b = Null THEN n ELSE h.first[m]
       /\ g.last[m] = IF m = p /\ a = Null THEN n ELSE h.last[m]

LEMMA SpliceIs ==
  ASSUME NEW h, LinkType(h), NEW p \in Addresses, NEW b \in Pointers, NEW a \in Pointers,
         NEW n \in Addresses
  PROVE  Spliced(h, Splice(h, p, b, a, n), p, b, a, n)
BY DEF Spliced, Splice, LinkType, Pointers

\* b and a are next to each other under p.
Gap(h, U, p, b, a) ==
  /\ IF b = Null THEN h.first[p] = a ELSE h.parent[b] = p /\ h.next[b] = a /\ b \notin U
  /\ IF a = Null THEN h.last[p] = b ELSE h.parent[a] = p /\ h.prev[a] = b /\ a \notin U

LEMMA EndGap ==
  ASSUME NEW h, NEW U, Linked(h, U), NEW p \in Addresses
  PROVE  Gap(h, U, p, h.last[p], Null) /\ h.last[p] \in Pointers
BY DEF Gap, Linked, LinksConsistent, NodeLinked, LastLinked, BothEnds, LinkType

LEMMA BeforeGap ==
  ASSUME NEW h, NEW U, Linked(h, U), NEW x \in Addresses, h.parent[x] # Null, x \notin U
  PROVE  Gap(h, U, h.parent[x], h.prev[x], x) /\ h.prev[x] \in Pointers
BY NullIsNone DEF Gap, Linked, LinksConsistent, NodeLinked, PrevLinked, Listed, LinkType

LEMMA AfterGap ==
  ASSUME NEW h, NEW U, Linked(h, U), NEW x \in Addresses, h.parent[x] # Null, x \notin U
  PROVE  Gap(h, U, h.parent[x], x, h.next[x]) /\ h.next[x] \in Pointers
BY NullIsNone DEF Gap, Linked, LinksConsistent, NodeLinked, NextLinked, Listed, LinkType

LEMMA SpliceKeeps ==
  ASSUME NEW h, NEW U, Linked(h, U), NEW n \in Nodes, n \in U, h.kind[n] # "free",
         NEW p \in Addresses, h.kind[p] # "free",
         NEW b \in Pointers, NEW a \in Pointers, Gap(h, U, p, b, a),
         NEW g, Spliced(h, g, p, b, a, n)
  PROVE  Linked(g, U \ {n})
<1>1. \A m \in Addresses : NodeLinked(h, U, m) BY DEF Linked, LinksConsistent
<1>2. /\ n \in Addresses /\ Null \notin Addresses /\ p # Null
      /\ b # Null => b \in Addresses
      /\ a # Null => a \in Addresses
      /\ \A m \in Addresses :
           /\ h.next[m] # Null => h.next[m] \in Addresses
           /\ h.prev[m] # Null => h.prev[m] \in Addresses
           /\ h.first[m] # Null => h.first[m] \in Addresses
           /\ h.last[m] # Null => h.last[m] \in Addresses
           /\ h.parent[m] # Null => h.parent[m] \in Addresses
  BY NullIsNone DEF Pointers, Linked, LinkType
<1>3. b # n /\ a # n BY <1>2 DEF Gap
<1>4. ASSUME NEW m \in Addresses PROVE NodeLinked(g, U \ {n}, m)
  <2>1. FreeBlank(g, m) /\ ParentLive(g, m)
    BY <1>1, <1>2, <1>3 DEF NodeLinked, FreeBlank, ParentLive, Spliced, Gap
  <2>2. FirstLinked(g, U \ {n}, m)
    BY <1>1, <1>2, <1>3 DEF NodeLinked, FirstLinked, Spliced, Gap
  <2>3. LastLinked(g, U \ {n}, m)
    BY <1>1, <1>2, <1>3 DEF NodeLinked, LastLinked, Spliced, Gap
  <2>4. BothEnds(g, m)
    BY <1>1, <1>2, <1>3 DEF NodeLinked, BothEnds, Spliced, Gap
  <2>5. NextLinked(g, U \ {n}, m)
    BY <1>1, <1>2, <1>3 DEF NodeLinked, NextLinked, Spliced, Gap
  <2>6. PrevLinked(g, U \ {n}, m)
    BY <1>1, <1>2, <1>3 DEF NodeLinked, PrevLinked, Spliced, Gap
  <2>7. Listed(g, U \ {n}, m)
    BY <1>1, <1>2, <1>3 DEF NodeLinked, Listed, Spliced, Gap
  <2>8. Loose(g, U \ {n}, m)
    BY <1>1, <1>2, <1>3 DEF NodeLinked, Loose, Spliced, Gap
  <2> QED BY <2>1, <2>2, <2>3, <2>4, <2>5, <2>6, <2>7, <2>8 DEF NodeLinked
<1>5. LinkType(g) /\ g.kind[Doc] = "document" /\ g.parent[Doc] = Null
  BY NullIsNone DEF Spliced, Linked
<1> QED BY <1>4, <1>5 DEF Linked, LinksConsistent

\* It makes no ring if p is the parent of n already, or not below it.
LEMMA SpliceNoRing ==
  ASSUME NEW h, NoRing(h.parent), NEW p \in Addresses, NEW b, NEW a, NEW n \in Addresses,
         NEW g, Spliced(h, g, p, b, a, n),
         NEW D \in SUBSET Addresses, h.parent[n] = p \/ (n \in D /\ p \notin D /\ Closed(h, D))
  PROVE  NoRing(g.parent)
<1> SUFFICES ASSUME NEW S \in SUBSET Addresses, S # {}
             PROVE  \E m \in S : g.parent[m] \notin S
  BY DEF NoRing
<1>0. \A m \in Addresses : g.parent[m] = IF m = n THEN p ELSE h.parent[m] BY DEF Spliced
<1>1. CASE h.parent[n] = p
  <2>1. \A m \in Addresses : g.parent[m] = h.parent[m] BY <1>0, <1>1
  <2> QED BY <2>1 DEF NoRing
<1>2. CASE n \in D /\ p \notin D /\ Closed(h, D)
  <2>1. CASE S \subseteq D
    <3>1. PICK m \in S : h.parent[m] \notin S BY DEF NoRing
    <3> QED BY <1>0, <1>2, <2>1, <3>1
  <2>2. CASE ~(S \subseteq D)
    <3>1. S \ D \in SUBSET Addresses /\ S \ D # {} BY <2>2
    <3>2. PICK m \in S \ D : h.parent[m] \notin S \ D BY <3>1 DEF NoRing
    <3>3. h.parent[m] \notin D BY <1>2, <3>2 DEF Closed
    <3> QED BY <1>0, <1>2, <3>2, <3>3
  <2> QED BY <2>1, <2>2
<1> QED BY <1>1, <1>2


LEMMA SpliceNoSiblingRing ==
  ASSUME NEW h, NEW U, Linked(h, U), NoRing(h.next), NEW n \in U, n \in Addresses,
         NEW p, NEW b \in Pointers, NEW a \in Pointers, Gap(h, U, p, b, a),
         NEW g, Spliced(h, g, p, b, a, n)
  PROVE  NoRing(g.next)
<1> SUFFICES ASSUME NEW S \in SUBSET Addresses, S # {}
             PROVE  \E m \in S : g.next[m] \notin S
  BY DEF NoRing
<1>0. \A m \in Addresses : g.next[m] = IF m = n THEN a ELSE IF m = b THEN n ELSE h.next[m]
  BY DEF Spliced
<1>1. CASE n \notin S
  <2>1. PICK m \in S : h.next[m] \notin S BY DEF NoRing
  <2> QED BY <1>0, <1>1, <2>1
<1>2. CASE n \in S /\ a \notin S
  BY <1>0, <1>2
<1>3. CASE n \in S /\ a \in S
  <2>1. S \ {n} \in SUBSET Addresses /\ S \ {n} # {} /\ a # Null
    BY <1>3, NullIsNone DEF Gap
  <2>2. PICK m \in S \ {n} : h.next[m] \notin S \ {n} BY <2>1 DEF NoRing
  <2>3. h.next[m] # n
    BY NullIsNone DEF Linked, LinksConsistent, NodeLinked, NextLinked
  <2>4. m # b
    BY <1>3, <2>1, <2>2, <2>3, NullIsNone DEF Gap
  <2> QED BY <1>0, <2>2, <2>3, <2>4
<1> QED BY <1>1, <1>2, <1>3

-----------------------------------------------------------------------------
(* Nodes are deleted.                                                      *)

\* g is h without the nodes of S.
Freed(h, g, S) ==
  /\ LinkType(g)
  /\ \A m \in Addresses :
       IF m \in S
       THEN /\ g.kind[m] = "free" /\ g.parent[m] = Null
            /\ g.first[m] = Null /\ g.last[m] = Null /\ g.prev[m] = Null /\ g.next[m] = Null
       ELSE /\ g.kind[m] = h.kind[m] /\ g.parent[m] = h.parent[m]
            /\ g.first[m] = h.first[m] /\ g.last[m] = h.last[m]
            /\ g.prev[m] = h.prev[m] /\ g.next[m] = h.next[m]

\* No pointer of m leads into S.
PointsOutside(h, S, m) ==
  /\ h.parent[m] \notin S
  /\ h.first[m] \notin S /\ h.last[m] \notin S /\ h.prev[m] \notin S /\ h.next[m] \notin S

LEMMA FreeIs ==
  ASSUME NEW h, LinkType(h), NEW S \in SUBSET Addresses
  PROVE  Freed(h, Free(h, S), S)
BY DEF Freed, Free, LinkType, Pointers, Kinds

LEMMA FreeKeeps ==
  ASSUME NEW h, LinkType(h), NEW U, NEW S \in SUBSET Addresses, NEW g, Freed(h, g, S),
         Doc \notin S, h.kind[Doc] = "document", h.parent[Doc] = Null,
         \A m \in Addresses \ S : NodeLinked(h, U, m) /\ PointsOutside(h, S, m)
  PROVE  Linked(g, U)
<1>1. ASSUME NEW m \in S PROVE NodeLinked(g, U, m)
  <2>1. /\ g.kind[m] = "free" /\ g.parent[m] = Null
        /\ g.first[m] = Null /\ g.last[m] = Null /\ g.prev[m] = Null /\ g.next[m] = Null
    BY <1>1 DEF Freed
  <2> QED
    BY <2>1 DEF NodeLinked, FreeBlank, ParentLive, FirstLinked, LastLinked, BothEnds, NextLinked,
                PrevLinked, Listed, Loose
<1>2. ASSUME NEW m \in Addresses, m \notin S PROVE NodeLinked(g, U, m)
  <2>1. NodeLinked(h, U, m) /\ PointsOutside(h, S, m) BY <1>2
  <2>2. /\ h.next[m] # Null => h.next[m] \in Addresses
        /\ h.prev[m] # Null => h.prev[m] \in Addresses
        /\ h.first[m] # Null => h.first[m] \in Addresses
        /\ h.last[m] # Null => h.last[m] \in Addresses
        /\ h.parent[m] # Null => h.parent[m] \in Addresses
    BY <1>2 DEF LinkType, Pointers
  <2>3. FreeBlank(g, m) /\ ParentLive(g, m)
    BY <1>2, <2>1, <2>2 DEF NodeLinked, FreeBlank, ParentLive, Freed, PointsOutside
  <2>4. FirstLinked(g, U, m) /\ LastLinked(g, U, m)
    BY <1>2, <2>1, <2>2 DEF NodeLinked, FirstLinked, LastLinked, Freed, PointsOutside
  <2>5. BothEnds(g, m)
    BY <1>2, <2>1 DEF NodeLinked, BothEnds, Freed
  <2>6. NextLinked(g, U, m) /\ PrevLinked(g, U, m)
    BY <1>2, <2>1, <2>2 DEF NodeLinked, NextLinked, PrevLinked, Freed, PointsOutside
  <2>7. Listed(g, U, m)
    BY <1>2, <2>1, <2>2 DEF NodeLinked, Listed, Freed, PointsOutside
  <2>8. Loose(g, U, m)
    BY <1>2, <2>1 DEF NodeLinked, Loose, Freed
  <2> QED BY <2>3, <2>4, <2>5, <2>6, <2>7, <2>8 DEF NodeLinked
<1>3. LinkType(g) /\ g.kind[Doc] = "document" /\ g.parent[Doc] = Null
  BY NullIsNone DEF Freed
<1> QED BY <1>1, <1>2, <1>3 DEF Linked, LinksConsistent

LEMMA FreeNoRing ==
  ASSUME NEW h, NoRing(h.parent), NEW S, NEW g, Freed(h, g, S)
  PROVE  NoRing(g.parent)
<1> SUFFICES ASSUME NEW T \in SUBSET Addresses, T # {}
             PROVE  \E m \in T : g.parent[m] \notin T
  BY DEF NoRing
<1>1. PICK m \in T : h.parent[m] \notin T BY DEF NoRing
<1>2. g.parent[m] = h.parent[m] \/ g.parent[m] = Null BY DEF Freed
<1> QED BY <1>1, <1>2, NullIsNone

-----------------------------------------------------------------------------
(* RemoveChild.                                                            *)

\* g is h where the siblings of x and its parent pass it over.
Bypassed(h, g, x) ==
  /\ LinkType(g)
  /\ \A m \in Addresses :
       /\ g.kind[m] = h.kind[m] /\ g.parent[m] = h.parent[m]
       /\ g.prev[m] = IF m = h.next[x] THEN h.prev[x] ELSE h.prev[m]
       /\ g.next[m] = IF m = h.prev[x] THEN h.next[x] ELSE h.next[m]
       /\ g.first[m] = IF m = h.parent[x] /\ h.prev[x] = Null THEN h.next[x] ELSE h.first[m]
       /\ g.last[m] = IF m = h.parent[x] /\ h.next[x] = Null THEN h.prev[x] ELSE h.last[m]

LEMMA UnlinkIs ==
  ASSUME NEW h, LinkType(h), NEW x \in Addresses
  PROVE  Bypassed(h, Unlink(h, x), x)
BY DEF Bypassed, Unlink, LinkType, Pointers

LEMMA RemoveKeeps ==
  ASSUME NEW h, NEW U, Linked(h, U), NoRing(h.parent), NoRing(h.next),
         NEW x \in Addresses, h.parent[x] # Null, x \notin U
  PROVE  /\ Linked(RemoveChild(h, x), U)
         /\ NoRing(RemoveChild(h, x).parent) /\ NoRing(RemoveChild(h, x).next)
<1> DEFINE S == Subtree(h, x)
           g == Unlink(h, x)
<1>1. \A m \in Addresses : NodeLinked(h, U, m) BY DEF Linked, LinksConsistent
<1>2. /\ Null \notin Addresses
      /\ \A m \in Addresses :
           /\ h.next[m] # Null => h.next[m] \in Addresses
           /\ h.prev[m] # Null => h.prev[m] \in Addresses
           /\ h.first[m] # Null => h.first[m] \in Addresses
           /\ h.last[m] # Null => h.last[m] \in Addresses
           /\ h.parent[m] # Null => h.parent[m] \in Addresses
  BY NullIsNone DEF Pointers, Linked, LinkType
<1>3. /\ S \in SUBSET Addresses /\ x \in S /\ h.parent[x] \notin S
      /\ \A m \in Addresses : h.parent[m] \in S => m \in S
      /\ \A m \in S : m # x => h.parent[m] \in S
  BY SubtreeIs, ParentOutside DEF Closed
<1>4. Bypassed(h, g, x) BY UnlinkIs DEF Linked
<1>5. /\ NextLinked(h, U, x) /\ PrevLinked(h, U, x) /\ Listed(h, U, x)
      /\ h.next[x] # x /\ h.prev[x] # x
  <2>1. NextLinked(h, U, x) /\ PrevLinked(h, U, x) /\ Listed(h, U, x) BY <1>1 DEF NodeLinked
  <2>2. h.next[x] # x
    <3>1. {x} \in SUBSET Addresses /\ {x} # {} OBVIOUS
    <3> QED BY <3>1 DEF NoRing
  <2> QED BY <1>2, <2>1, <2>2 DEF PrevLinked
<1>6. Doc \notin S /\ g.kind[Doc] = "document" /\ g.parent[Doc] = Null
  BY <1>2, <1>3, <1>4, NullIsNone DEF Bypassed, Linked
<1> HIDE DEF S, g
\* The siblings of x stay, and nobody who stays points into S any more.
<1>7. /\ h.next[x] # Null => h.next[x] \notin S
      /\ h.prev[x] # Null => h.prev[x] \notin S
  BY <1>2, <1>3, <1>5 DEF NextLinked, PrevLinked
<1>8. ASSUME NEW m \in Addresses, m \notin S PROVE NodeLinked(g, U, m) /\ PointsOutside(g, S, m)
  <2>1. FreeBlank(g, m) /\ ParentLive(g, m)
    BY <1>1, <1>2, <1>3, <1>4, <1>5, <1>8
      DEF NodeLinked, FreeBlank, ParentLive, Bypassed, NextLinked, PrevLinked
  <2>2. FirstLinked(g, U, m)
    BY <1>1, <1>2, <1>3, <1>4, <1>5, <1>8 DEF NodeLinked, FirstLinked, Bypassed, NextLinked, PrevLinked
  <2>3. LastLinked(g, U, m)
    BY <1>1, <1>2, <1>3, <1>4, <1>5, <1>8 DEF NodeLinked, LastLinked, Bypassed, NextLinked, PrevLinked
  <2>4. BothEnds(g, m)
    BY <1>1, <1>2, <1>3, <1>4, <1>5, <1>8 DEF NodeLinked, BothEnds, Bypassed, Listed
  <2>5. NextLinked(g, U, m)
    BY <1>1, <1>2, <1>3, <1>4, <1>5, <1>8 DEF NodeLinked, Bypassed, NextLinked, PrevLinked
  <2>6. PrevLinked(g, U, m)
    BY <1>1, <1>2, <1>3, <1>4, <1>5, <1>8 DEF NodeLinked, Bypassed, NextLinked, PrevLinked
  <2>7. Listed(g, U, m)
    BY <1>1, <1>2, <1>3, <1>4, <1>5, <1>8 DEF NodeLinked, Bypassed, NextLinked, PrevLinked, Listed
  <2>8. Loose(g, U, m)
    BY <1>1, <1>2, <1>3, <1>4, <1>5, <1>8 DEF NodeLinked, Bypassed, NextLinked, PrevLinked, Loose
  <2>9. PointsOutside(g, S, m)
    BY <1>1, <1>2, <1>3, <1>4, <1>5, <1>7, <1>8
    DEF NodeLinked, Bypassed, NextLinked, PrevLinked, FirstLinked, LastLinked, PointsOutside
  <2> QED BY <2>1, <2>2, <2>3, <2>4, <2>5, <2>6, <2>7, <2>8, <2>9 DEF NodeLinked
<1>9. Freed(g, RemoveChild(h, x), S) BY <1>3, <1>4, FreeIs DEF RemoveChild, g, S, Bypassed
<1>10. NoRing(RemoveChild(h, x).parent)
  <2>1. NoRing(g.parent) BY <1>4 DEF Bypassed, NoRing
  <2> QED BY <1>9, <2>1, FreeNoRing
<1>11. NoRing(RemoveChild(h, x).next)
  <2> DEFINE r == RemoveChild(h, x)
  <2>1. \A m \in Addresses :
          r.next[m] = IF m \in S THEN Null ELSE IF m = h.prev[x] THEN h.next[x] ELSE h.next[m]
    BY <1>4, <1>9 DEF Freed, Bypassed
  <2> HIDE DEF r
  <2> SUFFICES ASSUME NEW T \in SUBSET Addresses, T # {}
               PROVE  \E m \in T : r.next[m] \notin T
    BY DEF NoRing, r
  <2>2. CASE \E m \in T : m \in S BY <2>1, <2>2, <1>2
  <2>3. CASE T \cap S = {} /\ h.prev[x] \in T
    <3>1. T \cup {x} \in SUBSET Addresses /\ T \cup {x} # {} OBVIOUS
    <3>2. PICK m \in T \cup {x} : h.next[m] \notin T \cup {x} BY <3>1 DEF NoRing
    <3>3. CASE m = x BY <2>1, <2>3, <3>2, <3>3
    <3>4. CASE m # x
      <4>1. m # h.prev[x] BY <1>2, <1>5, <2>3, <3>2 DEF PrevLinked
      <4> QED BY <2>1, <2>3, <3>2, <3>4, <4>1
    <3> QED BY <3>3, <3>4
  <2>4. CASE T \cap S = {} /\ h.prev[x] \notin T
    <3>1. PICK m \in T : h.next[m] \notin T BY DEF NoRing
    <3> QED BY <2>1, <2>4, <3>1
  <2> QED BY <2>2, <2>3, <2>4
<1>12. LinkType(g) BY <1>4 DEF Bypassed
<1> QED BY <1>3, <1>6, <1>8, <1>9, <1>10, <1>11, <1>12, FreeKeeps

LEMMA FreeNoSiblingRing ==
  ASSUME NEW h, NoRing(h.next), NEW S, NEW g, Freed(h, g, S)
  PROVE  NoRing(g.next)
<1> SUFFICES ASSUME NEW T \in SUBSET Addresses, T # {}
             PROVE  \E m \in T : g.next[m] \notin T
  BY DEF NoRing
<1>1. PICK m \in T : h.next[m] \notin T BY DEF NoRing
<1>2. g.next[m] = h.next[m] \/ g.next[m] = Null BY DEF Freed
<1> QED BY <1>1, <1>2, NullIsNone

-----------------------------------------------------------------------------
(* Clear and ReplaceChild.                                                 *)

LEMMA ClearKeeps ==
  ASSUME NEW h, Linked(h, {}), NoRing(h.parent), NoRing(h.next),
         NEW p \in Addresses
  PROVE  /\ Linked(Clear(h, p), {})
         /\ NoRing(Clear(h, p).parent) /\ NoRing(Clear(h, p).next)
<1> DEFINE S == Subtree(h, p)
           bare == [h EXCEPT !.first = [@ EXCEPT ![p] = Null], !.last = [@ EXCEPT ![p] = Null]]
<1>1. \A m \in Addresses : NodeLinked(h, {}, m) BY DEF Linked, LinksConsistent
<1>2. /\ Null \notin Addresses
      /\ \A m \in Addresses :
           /\ h.next[m] # Null => h.next[m] \in Addresses
           /\ h.prev[m] # Null => h.prev[m] \in Addresses
           /\ h.first[m] # Null => h.first[m] \in Addresses
           /\ h.last[m] # Null => h.last[m] \in Addresses
           /\ h.parent[m] # Null => h.parent[m] \in Addresses
  BY NullIsNone DEF Pointers, Linked, LinkType
<1>3. /\ S \in SUBSET Addresses /\ p \in S /\ h.parent[p] \notin S
      /\ \A m \in Addresses : h.parent[m] \in S => m \in S
      /\ \A m \in S : m # p => h.parent[m] \in S
  BY SubtreeIs, ParentOutside DEF Closed
<1>4. /\ LinkType(bare) /\ bare.kind = h.kind /\ bare.parent = h.parent
      /\ bare.prev = h.prev /\ bare.next = h.next
      /\ \A m \in Addresses :
           /\ bare.first[m] = IF m = p THEN Null ELSE h.first[m]
           /\ bare.last[m] = IF m = p THEN Null ELSE h.last[m]
  BY DEF Linked, LinkType, Pointers
<1>5. Doc \notin S \ {p}
  BY <1>2, <1>3 DEF Linked
<1> HIDE DEF S, bare
<1>6. Freed(bare, Clear(h, p), S \ {p})
  <2> DEFINE T == S \ {p}
             f == Free(h, T)
             c == [f EXCEPT !.first = [@ EXCEPT ![p] = Null], !.last = [@ EXCEPT ![p] = Null]]
  <2>1. Freed(h, f, T) /\ p \notin T
    BY <1>3, FreeIs DEF Linked
  <2>2. Clear(h, p) = c BY DEF Clear, S
  <2>3. LinkType(f) BY <2>1 DEF Freed
  <2> HIDE DEF T, f
  <2>4. /\ LinkType(c) /\ c.kind = f.kind /\ c.parent = f.parent /\ c.prev = f.prev /\ c.next = f.next
        /\ \A m \in Addresses :
             /\ c.first[m] = IF m = p THEN Null ELSE f.first[m]
             /\ c.last[m] = IF m = p THEN Null ELSE f.last[m]
    BY <2>3 DEF LinkType, Pointers
  <2> HIDE DEF c
  <2>5. Freed(bare, c, T) BY <1>4, <2>1, <2>4 DEF Freed
  <2> QED BY <2>2, <2>5 DEF T
<1>7. ASSUME NEW m \in Addresses, m \notin S \ {p}
      PROVE  NodeLinked(bare, {}, m) /\ PointsOutside(bare, S \ {p}, m)
  <2>1. h.parent[m] # p
    BY <1>3, <1>7
  <2>2. FreeBlank(bare, m) /\ ParentLive(bare, m)
    BY <1>1, <1>4, <1>7 DEF NodeLinked, FreeBlank, ParentLive
  <2>3. FirstLinked(bare, {}, m) /\ LastLinked(bare, {}, m) /\ BothEnds(bare, m)
    BY <1>1, <1>4, <1>7 DEF NodeLinked, FirstLinked, LastLinked, BothEnds
  <2>4. NextLinked(bare, {}, m) /\ PrevLinked(bare, {}, m) /\ Loose(bare, {}, m)
    BY <1>1, <1>4, <1>7 DEF NodeLinked, NextLinked, PrevLinked, Loose
  <2>5. Listed(bare, {}, m)
    BY <1>1, <1>2, <1>4, <1>7, <2>1 DEF NodeLinked, Listed
  <2>6. PointsOutside(bare, S \ {p}, m)
    BY <1>1, <1>2, <1>3, <1>4, <1>7
    DEF NodeLinked, NextLinked, PrevLinked, FirstLinked, LastLinked, Loose, PointsOutside
  <2> QED BY <2>2, <2>3, <2>4, <2>5, <2>6 DEF NodeLinked
<1>8. NoRing(bare.parent) /\ NoRing(bare.next) BY <1>4
<1>9. bare.kind[Doc] = "document" /\ bare.parent[Doc] = Null BY <1>4 DEF Linked
<1>10. Linked(Clear(h, p), {}) BY <1>3, <1>4, <1>5, <1>6, <1>7, <1>9, FreeKeeps
<1> QED BY <1>6, <1>8, <1>10, FreeNoRing, FreeNoSiblingRing

\* ReplaceChild removes the one node and puts the other into the gap.
\* That comes to the same whatever is done first.
LEMMA ReplaceIs ==
  ASSUME NEW h, NEW n \in Nodes, Linked(h, {n}), NoRing(h.parent), NoRing(h.next),
         h.parent[n] = Null, NEW x \in Addresses, h.parent[x] # Null
  PROVE  /\ Spliced(RemoveChild(h, x), ReplaceLink(h, x, n), h.parent[x], h.prev[x], h.next[x], n)
         /\ Gap(RemoveChild(h, x), {n}, h.parent[x], h.prev[x], h.next[x])
         /\ h.parent[x] \in Addresses /\ h.prev[x] \in Pointers /\ h.next[x] \in Pointers
         /\ h.kind[h.parent[x]] # "free" /\ h.parent[x] \notin Subtree(h, x)
         /\ n \notin Subtree(h, x) /\ h.prev[x] \notin Subtree(h, x)
         /\ Bypassed(h, Unlink(h, x), x) /\ Freed(Unlink(h, x), RemoveChild(h, x), Subtree(h, x))
<1> DEFINE S == Subtree(h, x)
           p == h.parent[x]
           b == h.prev[x]
           a == h.next[x]
           g == RemoveChild(h, x)
           r == ReplaceLink(h, x, n)
<1>1. /\ n \in Addresses /\ Null \notin Addresses /\ n # x
      /\ p \in Addresses /\ b \in Pointers /\ a \in Pointers /\ h.kind[p] # "free"
      /\ NodeLinked(h, {n}, x)
  BY NullIsNone DEF Pointers, Linked, LinkType, LinksConsistent, NodeLinked, ParentLive
<1>2. /\ S \in SUBSET Addresses /\ x \in S /\ p \notin S
      /\ \A m \in S : m # x => h.parent[m] \in S
  BY SubtreeIs, ParentOutside
<1>3. n \notin S
  BY <1>1, <1>2
<1>4. Gap(h, {n}, p, b, x) /\ Gap(h, {n}, p, x, a)
  BY <1>1, BeforeGap, AfterGap
<1>5. /\ b # Null => b \in Addresses /\ h.parent[b] = p /\ h.next[b] = x /\ b # n
      /\ a # Null => a \in Addresses /\ h.parent[a] = p /\ h.prev[a] = x /\ a # n
  BY <1>1, <1>4 DEF Gap, Pointers
<1>6. a # x /\ b # x
  <2>1. {x} \in SUBSET Addresses /\ {x} # {} OBVIOUS
  <2>2. a # x BY <2>1 DEF NoRing
  <2> QED BY <1>1, <1>5, <2>2
<1>7. a \notin S /\ b \notin S
  BY <1>1, <1>2, <1>5, <1>6
<1>9. Bypassed(h, Unlink(h, x), x) /\ Freed(Unlink(h, x), g, S)
  BY <1>2, UnlinkIs, FreeIs DEF RemoveChild, Linked, Bypassed
<1>10. Spliced(h, Splice(h, p, b, a, n), p, b, a, n) /\ Freed(Splice(h, p, b, a, n), r, S)
  <2> DEFINE s == Splice(h, p, b, a, n)
  <2>1. Spliced(h, s, p, b, a, n) BY <1>1, SpliceIs DEF Linked
  <2>2. r = Free(s, S) BY DEF ReplaceLink
  <2> HIDE DEF s, r
  <2>3. Freed(s, r, S) BY <1>2, <2>1, <2>2, FreeIs DEF Spliced
  <2> QED BY <2>1, <2>3 DEF s
<1> HIDE DEF S, p, b, a, g, r
<1>11. Spliced(g, r, p, b, a, n)
  <2>1. LinkType(r) BY <1>10 DEF Freed
  <2>2. ASSUME NEW m \in Addresses, m \in S
        PROVE  /\ m # n /\ m # a /\ m # b /\ m # p
               /\ r.kind[m] = g.kind[m] /\ r.parent[m] = g.parent[m]
               /\ r.prev[m] = g.prev[m] /\ r.next[m] = g.next[m]
               /\ r.first[m] = g.first[m] /\ r.last[m] = g.last[m]
    BY <1>2, <1>3, <1>7, <1>9, <1>10, <2>2 DEF Freed
  <2>3. ASSUME NEW m \in Addresses, m \notin S
        PROVE  /\ r.kind[m] = g.kind[m]
               /\ r.parent[m] = IF m = n THEN p ELSE g.parent[m]
               /\ r.prev[m] = IF m = n THEN b ELSE IF m = a THEN n ELSE g.prev[m]
               /\ r.next[m] = IF m = n THEN a ELSE IF m = b THEN n ELSE g.next[m]
               /\ r.first[m] = IF m = p /\ b = Null THEN n ELSE g.first[m]
               /\ r.last[m] = IF m = p /\ a = Null THEN n ELSE g.last[m]
    <3> DEFINE s == Splice(h, p, b, a, n)
               u == Unlink(h, x)
    <3>1. /\ r.kind[m] = s.kind[m] /\ r.parent[m] = s.parent[m]
          /\ r.prev[m] = s.prev[m] /\ r.next[m] = s.next[m]
          /\ r.first[m] = s.first[m] /\ r.last[m] = s.last[m]
          /\ g.kind[m] = u.kind[m] /\ g.parent[m] = u.parent[m]
          /\ g.prev[m] = u.prev[m] /\ g.next[m] = u.next[m]
          /\ g.first[m] = u.first[m] /\ g.last[m] = u.last[m]
      BY <1>9, <1>10, <2>3 DEF Freed
    <3> HIDE DEF s, u
    <3>2. /\ u.kind[m] = h.kind[m] /\ u.parent[m] = h.parent[m]
          /\ u.prev[m] = IF m = a THEN b ELSE h.prev[m]
          /\ u.next[m] = IF m = b THEN a ELSE h.next[m]
          /\ u.first[m] = IF m = p /\ b = Null THEN a ELSE h.first[m]
          /\ u.last[m] = IF m = p /\ a = Null THEN b ELSE h.last[m]
      BY <1>9 DEF Bypassed, p, b, a, u
    <3>3. /\ s.kind[m] = h.kind[m]
          /\ s.parent[m] = IF m = n THEN p ELSE h.parent[m]
          /\ s.prev[m] = IF m = n THEN b ELSE IF m = a THEN n ELSE h.prev[m]
          /\ s.next[m] = IF m = n THEN a ELSE IF m = b THEN n ELSE h.next[m]
          /\ s.first[m] = IF m = p /\ b = Null THEN n ELSE h.first[m]
          /\ s.last[m] = IF m = p /\ a = Null THEN n ELSE h.last[m]
      BY <1>10 DEF Spliced, s
    <3> QED BY <3>1, <3>2, <3>3
  <2> QED BY <2>1, <2>2, <2>3 DEF Spliced
<1>12. Gap(g, {n}, p, b, a)
  BY <1>1, <1>2, <1>4, <1>5, <1>7, <1>9 DEF Gap, Freed, Bypassed, p, b, a
<1> QED BY <1>1, <1>2, <1>3, <1>7, <1>9, <1>11, <1>12 DEF S, p, b, a, g, r

LEMMA ReplaceKeeps ==
  ASSUME NEW h, NEW n \in Nodes, Linked(h, {n}), NoRing(h.parent), NoRing(h.next),
         h.kind[n] # "free", h.parent[n] = Null,
         NEW x \in Addresses, h.parent[x] # Null,
         NEW D \in SUBSET Addresses, n \in D, h.parent[x] \notin D, Closed(h, D)
  PROVE  /\ Linked(ReplaceLink(h, x, n), {})
         /\ NoRing(ReplaceLink(h, x, n).parent) /\ NoRing(ReplaceLink(h, x, n).next)
<1> DEFINE S == Subtree(h, x)
           p == h.parent[x]
           b == h.prev[x]
           a == h.next[x]
           g == RemoveChild(h, x)
           r == ReplaceLink(h, x, n)
<1>1. n \in Addresses /\ Null \notin Addresses BY NullIsNone
<1>2. Linked(g, {n}) /\ NoRing(g.parent) /\ NoRing(g.next)
  <2>1. n # x BY <1>1
  <2> QED BY <2>1, RemoveKeeps
<1>3. Bypassed(h, Unlink(h, x), x) /\ Freed(Unlink(h, x), g, S) BY ReplaceIs
<1>4. Spliced(g, r, p, b, a, n) BY ReplaceIs
<1>5. /\ Gap(g, {n}, p, b, a) /\ p \in Addresses /\ b \in Pointers /\ a \in Pointers
       /\ h.kind[p] # "free" /\ p \notin S /\ n \notin S
  BY ReplaceIs
<1> HIDE DEF S, p, b, a, g, r
<1>6. g.kind[n] # "free" /\ g.kind[p] # "free"
  BY <1>1, <1>3, <1>5 DEF Freed, Bypassed
<1>7. p \notin D /\ Closed(g, D)
  BY <1>3, NullIsNone DEF Closed, Freed, Bypassed, p
<1>8. Linked(r, {})
  <2>1. {n} \ {n} = {} OBVIOUS
  <2> QED BY <1>1, <1>2, <1>4, <1>5, <1>6, <2>1, SpliceKeeps
<1>9. NoRing(r.parent)
  BY <1>1, <1>2, <1>4, <1>5, <1>7, SpliceNoRing
<1>10. NoRing(r.next)
  BY <1>1, <1>2, <1>4, <1>5, SpliceNoSiblingRing
<1> QED BY <1>8, <1>9, <1>10 DEF r

-----------------------------------------------------------------------------
(* A node is made.                                                         *)

\* g is h with a new node n of that kind, whose parent is p and who is in no list.
Made(h, g, n, kind, p) ==
  /\ LinkType(g)
  /\ \A m \in Addresses :
       /\ g.kind[m] = IF m = n THEN kind ELSE h.kind[m]
       /\ g.parent[m] = IF m = n THEN p ELSE h.parent[m]
       /\ g.prev[m] = h.prev[m] /\ g.next[m] = h.next[m]
       /\ g.first[m] = h.first[m] /\ g.last[m] = h.last[m]

LEMMA NewIs ==
  ASSUME NEW h, LinkType(h), NEW n \in Addresses, NEW kind \in Kinds, NEW name, NEW p \in Pointers
  PROVE  Made(h, New(h, n, kind, name, p), n, kind, p)
BY DEF Made, New, LinkType

\* Nobody knows the address of a free node.
LEMMA FreeUnknown ==
  ASSUME NEW h, NEW U, Linked(h, U), NEW n \in FreeNodes(h)
  PROVE  /\ n \in Addresses /\ n # Doc
         /\ h.parent[n] = Null /\ h.first[n] = Null /\ h.last[n] = Null
         /\ h.prev[n] = Null /\ h.next[n] = Null
         /\ \A m \in Addresses :
              /\ h.parent[m] # n /\ h.first[m] # n /\ h.last[m] # n
              /\ h.prev[m] # n /\ h.next[m] # n
<1>1. /\ n \in Addresses /\ n # Doc /\ n # Null /\ h.kind[n] = "free" /\ Null \notin Addresses
      /\ \A m \in Addresses : NodeLinked(h, U, m)
  BY NullIsNone DEF FreeNodes, Linked, LinksConsistent
<1>2. /\ h.parent[n] = Null /\ h.first[n] = Null /\ h.last[n] = Null
      /\ h.prev[n] = Null /\ h.next[n] = Null
  BY <1>1 DEF NodeLinked, FreeBlank
<1>3. ASSUME NEW m \in Addresses
      PROVE  /\ h.parent[m] # n /\ h.first[m] # n /\ h.last[m] # n
             /\ h.prev[m] # n /\ h.next[m] # n
  BY <1>1, <1>2 DEF NodeLinked, ParentLive, FirstLinked, LastLinked, NextLinked, PrevLinked
<1> QED BY <1>1, <1>2, <1>3

LEMMA NewKeeps ==
  ASSUME NEW h, NEW U, Linked(h, U), NoRing(h.parent), NoRing(h.next),
         NEW n \in FreeNodes(h), NEW kind \in Kinds, kind # "free",
         NEW p \in Pointers, p # Null => h.kind[p] # "free",
         NEW g, Made(h, g, n, kind, p)
  PROVE  Linked(g, U \cup {n}) /\ NoRing(g.parent) /\ NoRing(g.next)
<1>1. /\ \A m \in Addresses : NodeLinked(h, U, m)
      /\ h.kind[n] = "free" /\ p # n
      /\ Null \notin Addresses /\ (p # Null => p \in Addresses)
  BY NullIsNone DEF Linked, LinksConsistent, FreeNodes, Pointers
<1>2. /\ n \in Addresses /\ n # Doc
      /\ h.parent[n] = Null /\ h.first[n] = Null /\ h.last[n] = Null
      /\ h.prev[n] = Null /\ h.next[n] = Null
      /\ \A m \in Addresses :
           /\ h.parent[m] # n /\ h.first[m] # n /\ h.last[m] # n
           /\ h.prev[m] # n /\ h.next[m] # n
  BY FreeUnknown
<1>3. \A m \in Addresses :
        /\ h.next[m] # Null => h.next[m] \in Addresses
        /\ h.prev[m] # Null => h.prev[m] \in Addresses
        /\ h.first[m] # Null => h.first[m] \in Addresses
        /\ h.last[m] # Null => h.last[m] \in Addresses
        /\ h.parent[m] # Null => h.parent[m] \in Addresses
  BY DEF Linked, LinkType, Pointers
<1>4. ASSUME NEW m \in Addresses PROVE NodeLinked(g, U \cup {n}, m)
  <2>1. FreeBlank(g, m) /\ ParentLive(g, m)
    BY <1>1, <1>2, <1>3 DEF NodeLinked, FreeBlank, ParentLive, Made
  <2>2. FirstLinked(g, U \cup {n}, m) /\ LastLinked(g, U \cup {n}, m) /\ BothEnds(g, m)
    BY <1>1, <1>2, <1>3 DEF NodeLinked, FirstLinked, LastLinked, BothEnds, Made
  <2>3. NextLinked(g, U \cup {n}, m) /\ PrevLinked(g, U \cup {n}, m)
    BY <1>1, <1>2, <1>3 DEF NodeLinked, NextLinked, PrevLinked, Made
  <2>4. Listed(g, U \cup {n}, m) /\ Loose(g, U \cup {n}, m)
    BY <1>1, <1>2, <1>3 DEF NodeLinked, Listed, Loose, Made
  <2> QED BY <2>1, <2>2, <2>3, <2>4 DEF NodeLinked
<1>5. Linked(g, U \cup {n})
  BY <1>2, <1>4, NullIsNone DEF Linked, LinksConsistent, Made
<1>6. NoRing(g.next) BY DEF NoRing, Made
<1>7. NoRing(g.parent)
  <2> SUFFICES ASSUME NEW S \in SUBSET Addresses, S # {}
               PROVE  \E m \in S : g.parent[m] \notin S
    BY DEF NoRing
  <2>0. \A m \in Addresses : g.parent[m] = IF m = n THEN p ELSE h.parent[m] BY DEF Made
  <2>1. CASE S = {n} BY <1>1, <2>0, <2>1
  <2>2. CASE S # {n}
    <3>1. S \ {n} \in SUBSET Addresses /\ S \ {n} # {} BY <2>2
    <3>2. PICK m \in S \ {n} : h.parent[m] \notin S \ {n} BY <3>1 DEF NoRing
    <3> QED BY <1>2, <2>0, <3>2
  <2> QED BY <2>1, <2>2
<1> QED BY <1>5, <1>6, <1>7

-----------------------------------------------------------------------------
(* Copies.                                                                 *)

\* g is h with a copy of what is below src, in the places f.
Cloned(h, g, src, f) ==
  LET S == Subtree(h, src)
  IN  /\ LinkType(g)
      /\ \A k \in S :
           /\ g.kind[f[k]] = h.kind[k]
           /\ g.parent[f[k]] = IF k = src THEN Null ELSE f[h.parent[k]]
           /\ g.first[f[k]] = IF h.first[k] = Null THEN Null ELSE f[h.first[k]]
           /\ g.last[f[k]] = IF h.last[k] = Null THEN Null ELSE f[h.last[k]]
           /\ g.prev[f[k]] = IF k = src \/ h.prev[k] = Null THEN Null ELSE f[h.prev[k]]
           /\ g.next[f[k]] = IF k = src \/ h.next[k] = Null THEN Null ELSE f[h.next[k]]
      /\ \A m \in Addresses : (\A k \in S : f[k] # m) =>
           /\ g.kind[m] = h.kind[m] /\ g.parent[m] = h.parent[m]
           /\ g.first[m] = h.first[m] /\ g.last[m] = h.last[m]
           /\ g.prev[m] = h.prev[m] /\ g.next[m] = h.next[m]

\* The family of a node that is below src is below src.
LEMMA FamilyBelow ==
  ASSUME NEW h, Linked(h, {}), NoRing(h.parent), NEW src \in Addresses
  PROVE  \A k \in Subtree(h, src) :
           /\ k \in Addresses
           /\ h.first[k] # Null => h.first[k] \in Subtree(h, src) /\ h.first[k] # src
           /\ h.last[k] # Null => h.last[k] \in Subtree(h, src) /\ h.last[k] # src
           /\ k # src => /\ h.parent[k] \in Subtree(h, src)
                         /\ h.prev[k] # Null => h.prev[k] \in Subtree(h, src) /\ h.prev[k] # src
                         /\ h.next[k] # Null => h.next[k] \in Subtree(h, src) /\ h.next[k] # src
<1> SUFFICES ASSUME NEW k \in Subtree(h, src)
             PROVE  /\ k \in Addresses
                    /\ h.first[k] # Null => h.first[k] \in Subtree(h, src) /\ h.first[k] # src
                    /\ h.last[k] # Null => h.last[k] \in Subtree(h, src) /\ h.last[k] # src
                    /\ k # src =>
                         /\ h.parent[k] \in Subtree(h, src)
                         /\ h.prev[k] # Null => h.prev[k] \in Subtree(h, src) /\ h.prev[k] # src
                         /\ h.next[k] # Null => h.next[k] \in Subtree(h, src) /\ h.next[k] # src
  OBVIOUS
<1>1. /\ k \in Addresses /\ h.parent[src] \notin Subtree(h, src)
      /\ \A m \in Addresses : h.parent[m] \in Subtree(h, src) => m \in Subtree(h, src)
      /\ k # src => h.parent[k] \in Subtree(h, src)
  BY SubtreeIs, ParentOutside DEF Closed
<1>2. /\ NodeLinked(h, {}, k)
      /\ h.next[k] # Null => h.next[k] \in Addresses
      /\ h.prev[k] # Null => h.prev[k] \in Addresses
      /\ h.first[k] # Null => h.first[k] \in Addresses
      /\ h.last[k] # Null => h.last[k] \in Addresses
  BY <1>1 DEF Linked, LinksConsistent, LinkType, Pointers
<1> QED BY <1>1, <1>2 DEF NodeLinked, FirstLinked, LastLinked, NextLinked, PrevLinked

LEMMA CloneIs ==
  ASSUME NEW h, Linked(h, {}), NoRing(h.parent), NEW src \in Addresses, NEW f \in Rooms(h, src)
  PROVE  Cloned(h, Clone(h, src, f), src, f)
<1> DEFINE S == Subtree(h, src)
           Copy == {f[k] : k \in DOMAIN f}
           From(m) == CHOOSE k \in DOMAIN f : f[k] = m
           To(k) == IF k \in DOMAIN f THEN f[k] ELSE Null
           Moved(g) == [m \in Addresses |-> IF m \in Copy THEN To(g[From(m)]) ELSE g[m]]
           Top1(g) == [m \in Addresses |-> IF m = f[src] THEN Null ELSE Moved(g)[m]]
           g == Clone(h, src, f)
<1>1. /\ DOMAIN f = S /\ src \in S /\ S \subseteq Addresses
      /\ \A k \in S : f[k] \in Addresses
      /\ \A j, k \in S : f[j] = f[k] => j = k
  BY SubtreeIs, NullIsNone DEF Rooms, Injections, FreeNodes
<1>2. \A k \in S : f[k] \in Copy /\ From(f[k]) = k
  BY <1>1
<1>3. /\ DOMAIN g = {"kind", "name", "attrs", "parent", "first", "last", "prev", "next"}
      /\ g.kind = [m \in Addresses |-> IF m \in Copy THEN h.kind[From(m)] ELSE h.kind[m]]
      /\ g.parent = Top1(h.parent) /\ g.first = Moved(h.first) /\ g.last = Moved(h.last)
      /\ g.prev = Top1(h.prev) /\ g.next = Top1(h.next)
  BY DEF Clone
<1>4. g.kind \in [Addresses -> Kinds]
  <2>1. \A m \in Copy : From(m) \in Addresses BY <1>1, <1>2
  <2>2. h.kind \in [Addresses -> Kinds] BY DEF Linked, LinkType
  <2> HIDE DEF From, Copy, g
  <2> QED BY <1>3, <2>1, <2>2
<1>5. ASSUME NEW q \in [Addresses -> Pointers]
      PROVE  Moved(q) \in [Addresses -> Pointers] /\ Top1(q) \in [Addresses -> Pointers]
  <2>1. \A k : To(k) \in Pointers BY <1>1 DEF Pointers
  <2> HIDE DEF From, To, Copy
  <2>2. Moved(q) \in [Addresses -> Pointers] BY <2>1
  <2> HIDE DEF Moved
  <2> QED BY <2>2 DEF Pointers
<1>6. LinkType(g)
  <2>1. /\ h.parent \in [Addresses -> Pointers] /\ h.first \in [Addresses -> Pointers]
        /\ h.last \in [Addresses -> Pointers] /\ h.prev \in [Addresses -> Pointers]
        /\ h.next \in [Addresses -> Pointers]
    BY DEF Linked, LinkType
  <2> HIDE DEF Moved, Top1, g
  <2>2. /\ Top1(h.parent) \in [Addresses -> Pointers] /\ Top1(h.prev) \in [Addresses -> Pointers]
        /\ Top1(h.next) \in [Addresses -> Pointers]
    BY <1>5, <2>1
  <2>3. Moved(h.first) \in [Addresses -> Pointers] /\ Moved(h.last) \in [Addresses -> Pointers]
    BY <1>5, <2>1
  <2> QED BY <1>3, <1>4, <2>2, <2>3 DEF LinkType
<1>7. ASSUME NEW k \in S, NEW q
      PROVE  /\ Moved(q)[f[k]] = IF q[k] \in S THEN f[q[k]] ELSE Null
             /\ Top1(q)[f[k]] = IF k = src THEN Null ELSE Moved(q)[f[k]]
  <2>1. f[k] \in Copy /\ From(f[k]) = k /\ f[k] \in Addresses /\ (f[k] = f[src] <=> k = src)
    BY <1>1, <1>2
  <2> HIDE DEF From, Copy
  <2>2. Moved(q)[f[k]] = To(q[k]) BY <2>1
  <2> HIDE DEF Moved
  <2> QED BY <1>1, <2>1, <2>2
<1>8. ASSUME NEW m \in Addresses, \A k \in S : f[k] # m, NEW q
      PROVE  Moved(q)[m] = q[m] /\ Top1(q)[m] = q[m] /\ m \notin Copy
  <2>1. m \notin Copy /\ m # f[src] BY <1>1, <1>8
  <2> HIDE DEF From, Copy, To
  <2> QED BY <2>1
<1>9. Null \notin S
  BY <1>1, NullIsNone
<1>10. ASSUME NEW k \in S
       PROVE  /\ g.kind[f[k]] = h.kind[k]
              /\ g.parent[f[k]] = IF k = src THEN Null ELSE f[h.parent[k]]
              /\ g.first[f[k]] = IF h.first[k] = Null THEN Null ELSE f[h.first[k]]
              /\ g.last[f[k]] = IF h.last[k] = Null THEN Null ELSE f[h.last[k]]
              /\ g.prev[f[k]] = IF k = src \/ h.prev[k] = Null THEN Null ELSE f[h.prev[k]]
              /\ g.next[f[k]] = IF k = src \/ h.next[k] = Null THEN Null ELSE f[h.next[k]]
  <2>1. g.kind[f[k]] = h.kind[k]
    <3>1. f[k] \in Copy /\ From(f[k]) = k /\ f[k] \in Addresses BY <1>1, <1>2
    <3> HIDE DEF From, Copy
    <3> QED BY <1>3, <3>1
  <2>2. /\ h.first[k] # Null => h.first[k] \in S
        /\ h.last[k] # Null => h.last[k] \in S
        /\ k # src => /\ h.parent[k] \in S
                      /\ h.prev[k] # Null => h.prev[k] \in S
                      /\ h.next[k] # Null => h.next[k] \in S
    BY FamilyBelow
  <2> HIDE DEF S, Moved, Top1, g
  <2>3. g.first[f[k]] = IF h.first[k] = Null THEN Null ELSE f[h.first[k]]
    <3>1. Moved(h.first)[f[k]] = IF h.first[k] \in S THEN f[h.first[k]] ELSE Null BY <1>7
    <3>2. g.first[f[k]] = Moved(h.first)[f[k]] BY <1>3
    <3>3. h.first[k] = Null => h.first[k] \notin S BY <1>9
    <3> QED BY <2>2, <3>1, <3>2, <3>3
  <2>4. g.last[f[k]] = IF h.last[k] = Null THEN Null ELSE f[h.last[k]]
    <3>1. Moved(h.last)[f[k]] = IF h.last[k] \in S THEN f[h.last[k]] ELSE Null BY <1>7
    <3>2. g.last[f[k]] = Moved(h.last)[f[k]] BY <1>3
    <3>3. h.last[k] = Null => h.last[k] \notin S BY <1>9
    <3> QED BY <2>2, <3>1, <3>2, <3>3
  <2>5. g.parent[f[k]] = IF k = src THEN Null ELSE f[h.parent[k]]
    <3>1. Moved(h.parent)[f[k]] = IF h.parent[k] \in S THEN f[h.parent[k]] ELSE Null BY <1>7
    <3>2. g.parent[f[k]] = IF k = src THEN Null ELSE Moved(h.parent)[f[k]] BY <1>3, <1>7
    <3> QED BY <2>2, <3>1, <3>2
  <2>6. g.prev[f[k]] = IF k = src \/ h.prev[k] = Null THEN Null ELSE f[h.prev[k]]
    <3>1. Moved(h.prev)[f[k]] = IF h.prev[k] \in S THEN f[h.prev[k]] ELSE Null BY <1>7
    <3>2. g.prev[f[k]] = IF k = src THEN Null ELSE Moved(h.prev)[f[k]] BY <1>3, <1>7
    <3>3. h.prev[k] = Null => h.prev[k] \notin S BY <1>9
    <3> QED BY <2>2, <3>1, <3>2, <3>3
  <2>7. g.next[f[k]] = IF k = src \/ h.next[k] = Null THEN Null ELSE f[h.next[k]]
    <3>1. Moved(h.next)[f[k]] = IF h.next[k] \in S THEN f[h.next[k]] ELSE Null BY <1>7
    <3>2. g.next[f[k]] = IF k = src THEN Null ELSE Moved(h.next)[f[k]] BY <1>3, <1>7
    <3>3. h.next[k] = Null => h.next[k] \notin S BY <1>9
    <3> QED BY <2>2, <3>1, <3>2, <3>3
  <2> QED BY <2>1, <2>3, <2>4, <2>5, <2>6, <2>7
<1>11. ASSUME NEW m \in Addresses, \A k \in S : f[k] # m
       PROVE  /\ g.kind[m] = h.kind[m] /\ g.parent[m] = h.parent[m]
              /\ g.first[m] = h.first[m] /\ g.last[m] = h.last[m]
              /\ g.prev[m] = h.prev[m] /\ g.next[m] = h.next[m]
  <2>1. m \notin Copy BY <1>8, <1>11
  <2>2. g.kind[m] = h.kind[m]
    <3> HIDE DEF Copy, From
    <3> QED BY <1>3, <2>1
  <2> HIDE DEF Moved, Top1, g
  <2> QED BY <1>3, <1>8, <1>11, <2>2
<1> HIDE DEF S, g
<1> QED BY <1>6, <1>10, <1>11 DEF Cloned, S, g

\* What a copy is: t is its top, and C are the places it has taken.
Copied(h, g, C, t) ==
  /\ Linked(g, {t}) /\ NoRing(g.parent) /\ NoRing(g.next)
  /\ t \in Nodes /\ t \in C /\ C \in SUBSET Addresses
  /\ g.kind[t] # "free" /\ g.parent[t] = Null /\ Closed(g, C)
  /\ \A m \in Addresses : h.kind[m] # "free" =>
       /\ m \notin C /\ g.kind[m] = h.kind[m] /\ g.parent[m] = h.parent[m]

LEMMA CloneKeeps ==
  ASSUME NEW h, Linked(h, {}), NoRing(h.parent), NoRing(h.next),
         NEW src \in Addresses, h.kind[src] # "free", NEW f \in Rooms(h, src),
         NEW g, Cloned(h, g, src, f)
  PROVE  Copied(h, g, {f[k] : k \in Subtree(h, src)}, f[src])
<1> DEFINE S == Subtree(h, src)
           C == {f[k] : k \in S}
           t == f[src]
<1>1. /\ src \in S /\ S \subseteq Addresses /\ C \subseteq FreeNodes(h) /\ t \in C
      /\ \A k \in S : f[k] \in C /\ f[k] \in Addresses /\ f[k] # Null
      /\ \A j, k \in S : f[j] = f[k] => j = k
  <2>1. src \in S /\ S \subseteq Addresses BY SubtreeIs
  <2>2. f \in [S -> FreeNodes(h)] /\ \A j, k \in S : f[j] = f[k] => j = k
    BY DEF Rooms, Injections
  <2> QED BY <2>1, <2>2, NullIsNone DEF FreeNodes
<1>2. /\ Null \notin Addresses /\ Null \notin S
      /\ \A m \in Addresses : NodeLinked(h, {}, m)
  BY <1>1, NullIsNone DEF Linked, LinksConsistent
<1>3. \A k \in S :
        /\ h.first[k] # Null => h.first[k] \in S /\ h.first[k] # src
        /\ h.last[k] # Null => h.last[k] \in S /\ h.last[k] # src
        /\ k # src => /\ h.parent[k] \in S
                      /\ h.prev[k] # Null => h.prev[k] \in S /\ h.prev[k] # src
                      /\ h.next[k] # Null => h.next[k] \in S /\ h.next[k] # src
  BY FamilyBelow
<1>4. LinkType(g) BY DEF Cloned
<1>5. \A k \in S :
        /\ g.kind[f[k]] = h.kind[k]
        /\ g.parent[f[k]] = IF k = src THEN Null ELSE f[h.parent[k]]
        /\ g.first[f[k]] = IF h.first[k] = Null THEN Null ELSE f[h.first[k]]
        /\ g.last[f[k]] = IF h.last[k] = Null THEN Null ELSE f[h.last[k]]
        /\ g.prev[f[k]] = IF k = src \/ h.prev[k] = Null THEN Null ELSE f[h.prev[k]]
        /\ g.next[f[k]] = IF k = src \/ h.next[k] = Null THEN Null ELSE f[h.next[k]]
  BY DEF Cloned
<1>6. \A m \in Addresses : m \notin C =>
        /\ g.kind[m] = h.kind[m] /\ g.parent[m] = h.parent[m]
        /\ g.first[m] = h.first[m] /\ g.last[m] = h.last[m]
        /\ g.prev[m] = h.prev[m] /\ g.next[m] = h.next[m]
  <2> SUFFICES ASSUME NEW m \in Addresses, m \notin C
               PROVE  /\ g.kind[m] = h.kind[m] /\ g.parent[m] = h.parent[m]
                      /\ g.first[m] = h.first[m] /\ g.last[m] = h.last[m]
                      /\ g.prev[m] = h.prev[m] /\ g.next[m] = h.next[m]
    OBVIOUS
  <2>1. \A k \in S : f[k] # m BY <1>1
  <2> QED BY <2>1 DEF Cloned
\* The old nodes do not know the places of the copy.
<1>7. \A m \in Addresses :
        /\ h.parent[m] \notin C /\ h.first[m] \notin C /\ h.last[m] \notin C
        /\ h.prev[m] \notin C /\ h.next[m] \notin C
  BY <1>1, FreeUnknown
<1>8. \A m \in Addresses :
        /\ h.next[m] # Null => h.next[m] \in Addresses
        /\ h.prev[m] # Null => h.prev[m] \in Addresses
        /\ h.first[m] # Null => h.first[m] \in Addresses
        /\ h.last[m] # Null => h.last[m] \in Addresses
        /\ h.parent[m] # Null => h.parent[m] \in Addresses
  BY DEF Linked, LinkType, Pointers
<1>9. C \in SUBSET Addresses /\ Doc \notin C /\ t \in Nodes
      /\ \A m \in C : h.kind[m] = "free" /\ \E k \in S : m = f[k]
  BY <1>1, NullIsNone DEF FreeNodes
<1> HIDE DEF S, C, t
<1>10. ASSUME NEW k \in S PROVE NodeLinked(g, {t}, f[k])
  <2>1. NodeLinked(h, {}, k) BY <1>1, <1>2
  <2>2. FreeBlank(g, f[k]) /\ ParentLive(g, f[k])
    BY <1>1, <1>2, <1>3, <1>5, <2>1 DEF NodeLinked, FreeBlank, ParentLive
  <2>3. FirstLinked(g, {t}, f[k])
    BY <1>1, <1>2, <1>3, <1>5, <2>1 DEF NodeLinked, FirstLinked, t
  <2>4. LastLinked(g, {t}, f[k])
    BY <1>1, <1>2, <1>3, <1>5, <2>1 DEF NodeLinked, LastLinked, t
  <2>5. BothEnds(g, f[k])
    BY <1>1, <1>3, <1>5, <2>1 DEF NodeLinked, BothEnds
  <2>6. NextLinked(g, {t}, f[k])
    BY <1>1, <1>2, <1>3, <1>5, <2>1 DEF NodeLinked, NextLinked, t
  <2>7. PrevLinked(g, {t}, f[k])
    BY <1>1, <1>2, <1>3, <1>5, <2>1 DEF NodeLinked, PrevLinked, t
  <2>8. Listed(g, {t}, f[k])
    BY <1>1, <1>2, <1>3, <1>5, <2>1 DEF NodeLinked, Listed, t
  <2>9. Loose(g, {t}, f[k])
    BY <1>1, <1>2, <1>3, <1>5, <2>1 DEF NodeLinked, Loose, t
  <2> QED BY <2>2, <2>3, <2>4, <2>5, <2>6, <2>7, <2>8, <2>9 DEF NodeLinked
<1>11. ASSUME NEW m \in Addresses, m \notin C PROVE NodeLinked(g, {t}, m)
  <2>1. NodeLinked(h, {}, m) /\ m # t BY <1>1, <1>2, <1>11
  <2>2. FreeBlank(g, m) /\ ParentLive(g, m)
    BY <1>6, <1>7, <1>8, <1>11, <2>1 DEF NodeLinked, FreeBlank, ParentLive
  <2>3. FirstLinked(g, {t}, m) /\ LastLinked(g, {t}, m) /\ BothEnds(g, m)
    BY <1>1, <1>6, <1>7, <1>8, <1>11, <2>1 DEF NodeLinked, FirstLinked, LastLinked, BothEnds
  <2>4. NextLinked(g, {t}, m) /\ PrevLinked(g, {t}, m)
    BY <1>1, <1>6, <1>7, <1>8, <1>11, <2>1 DEF NodeLinked, NextLinked, PrevLinked
  <2>5. Listed(g, {t}, m) /\ Loose(g, {t}, m)
    BY <1>1, <1>6, <1>7, <1>8, <1>11, <2>1 DEF NodeLinked, Listed, Loose
  <2> QED BY <2>2, <2>3, <2>4, <2>5 DEF NodeLinked
<1>12. Linked(g, {t})
  <2>1. \A m \in Addresses : NodeLinked(g, {t}, m) BY <1>9, <1>10, <1>11
  <2>2. g.kind[Doc] = "document" /\ g.parent[Doc] = Null
    BY <1>6, <1>9, NullIsNone DEF Linked
  <2> QED BY <1>4, <2>1, <2>2 DEF Linked, LinksConsistent
\* A ring would be one among the old nodes, or, put back, one among those copied.
<1>13. ASSUME NEW p, NEW q, NoRing(p),
              \A k \in S : q[f[k]] = Null \/ (p[k] \in S /\ q[f[k]] = f[p[k]]),
              \A m \in Addresses : m \notin C => q[m] = p[m] /\ p[m] \notin C
       PROVE  NoRing(q)
  <2> SUFFICES ASSUME NEW T \in SUBSET Addresses, T # {} PROVE \E m \in T : q[m] \notin T
    BY DEF NoRing
  <2>1. CASE T \subseteq C
    <3> DEFINE K == {k \in S : f[k] \in T}
    <3>1. K \in SUBSET Addresses /\ K # {} BY <1>1, <1>9, <2>1
    <3>2. PICK k \in K : p[k] \notin K BY <1>13, <3>1 DEF NoRing
    <3>3. q[f[k]] = Null \/ (p[k] \in S /\ q[f[k]] = f[p[k]]) BY <1>13, <3>2
    <3> QED BY <1>2, <3>2, <3>3
  <2>2. CASE ~(T \subseteq C)
    <3>1. T \ C \in SUBSET Addresses /\ T \ C # {} BY <2>2
    <3>2. PICK m \in T \ C : p[m] \notin T \ C BY <1>13, <3>1 DEF NoRing
    <3> QED BY <1>13, <3>2
  <2> QED BY <2>1, <2>2
<1>14. NoRing(g.parent)
  <2>1. \A k \in S : g.parent[f[k]] = Null
                       \/ (h.parent[k] \in S /\ g.parent[f[k]] = f[h.parent[k]])
    BY <1>3, <1>5
  <2> QED BY <1>6, <1>7, <1>13, <2>1
<1>15. NoRing(g.next)
  <2>1. \A k \in S : g.next[f[k]] = Null \/ (h.next[k] \in S /\ g.next[f[k]] = f[h.next[k]])
    BY <1>3, <1>5
  <2> QED BY <1>6, <1>7, <1>13, <2>1
<1>16. Closed(g, C)
  BY <1>6, <1>7 DEF Closed
<1>17. g.kind[t] # "free" /\ g.parent[t] = Null
  BY <1>1, <1>5 DEF t
<1>18. \A m \in Addresses : h.kind[m] # "free" =>
         m \notin C /\ g.kind[m] = h.kind[m] /\ g.parent[m] = h.parent[m]
  BY <1>6, <1>9
<1> QED BY <1>1, <1>9, <1>12, <1>14, <1>15, <1>16, <1>17, <1>18 DEF Copied, S, C, t

-----------------------------------------------------------------------------
(* The same of the operations that the actions are made of.                *)

LEMMA SpliceSound ==
  ASSUME NEW h, NEW U, Sound(h, U), NEW n \in Nodes, n \in U, h.kind[n] # "free",
         NEW p \in Addresses, h.kind[p] # "free",
         NEW b \in Pointers, NEW a \in Pointers, Gap(h, U, p, b, a),
         NEW D \in SUBSET Addresses, h.parent[n] = p \/ (n \in D /\ p \notin D /\ Closed(h, D))
  PROVE  Sound(Splice(h, p, b, a, n), U \ {n})
<1> DEFINE g == Splice(h, p, b, a, n)
<1>1. n \in Addresses BY NullIsNone
<1>2. Linked(h, U) /\ NoRing(h.parent) /\ NoRing(h.next) BY DEF Sound
<1>3. Spliced(h, g, p, b, a, n) BY <1>1, <1>2, SpliceIs DEF Linked
<1> HIDE DEF g
<1>4. Linked(g, U \ {n}) BY <1>2, <1>3, SpliceKeeps
<1>5. NoRing(g.parent) BY <1>1, <1>2, <1>3, SpliceNoRing
<1>6. NoRing(g.next) BY <1>1, <1>2, <1>3, SpliceNoSiblingRing
<1> QED BY <1>4, <1>5, <1>6 DEF Sound, g

\* A node is linked at the end of the list of the parent that it has.
LEMMA EndSound ==
  ASSUME NEW h, NEW U, Sound(h, U), NEW n \in Nodes, n \in U, h.kind[n] # "free",
         NEW p \in Addresses, h.kind[p] # "free", h.parent[n] = p
  PROVE  Sound(LinkEndChild(h, p, n), U \ {n})
<1>1. Gap(h, U, p, h.last[p], Null) /\ h.last[p] \in Pointers /\ Null \in Pointers
  BY EndGap DEF Sound, Pointers
<1>2. {} \in SUBSET Addresses OBVIOUS
<1>3. Sound(Splice(h, p, h.last[p], Null, n), U \ {n}) BY <1>1, <1>2, SpliceSound
<1> QED BY <1>3 DEF LinkEndChild

LEMMA NewSound ==
  ASSUME NEW h, NEW U, Sound(h, U), NEW n \in FreeNodes(h), NEW kind \in Kinds, kind # "free",
         NEW name, NEW p \in Pointers, p # Null => h.kind[p] # "free"
  PROVE  /\ Sound(New(h, n, kind, name, p), U \cup {n})
         /\ Made(h, New(h, n, kind, name, p), n, kind, p)
<1> DEFINE g == New(h, n, kind, name, p)
<1>1. Linked(h, U) /\ NoRing(h.parent) /\ NoRing(h.next) /\ n \in Addresses
  BY NullIsNone DEF Sound, FreeNodes
<1>2. Made(h, g, n, kind, p) BY <1>1, NewIs DEF Linked
<1> HIDE DEF g
<1>3. Linked(g, U \cup {n}) /\ NoRing(g.parent) /\ NoRing(g.next) BY <1>1, <1>2, NewKeeps
<1> QED BY <1>2, <1>3 DEF Sound, g

\* A leaf is made under p and linked at once.
LEMMA LeafSound ==
  ASSUME NEW h, NEW U, Sound(h, U), NEW n \in FreeNodes(h), n \notin U,
         NEW kind \in Kinds, kind # "free", NEW name, NEW p \in Addresses, h.kind[p] # "free"
  PROVE  /\ Sound(LinkEndChild(New(h, n, kind, name, p), p, n), U)
         /\ \A m \in Addresses : h.kind[m] # "free" =>
              /\ LinkEndChild(New(h, n, kind, name, p), p, n).kind[m] # "free"
              /\ LinkEndChild(New(h, n, kind, name, p), p, n).parent[m] = h.parent[m]
<1> DEFINE g == New(h, n, kind, name, p)
           r == LinkEndChild(g, p, n)
<1>1. n \in Nodes /\ n \in Addresses /\ h.kind[n] = "free" /\ p \in Pointers
  BY NullIsNone DEF FreeNodes, Pointers
<1>2. Sound(g, U \cup {n}) /\ Made(h, g, n, kind, p) BY <1>1, NewSound
<1>3. g.kind[n] # "free" /\ g.kind[p] # "free" /\ g.parent[n] = p BY <1>1, <1>2 DEF Made
<1> HIDE DEF g
<1>4. Sound(r, (U \cup {n}) \ {n}) BY <1>1, <1>2, <1>3, EndSound
<1>5. (U \cup {n}) \ {n} = U OBVIOUS
<1>6. g.last[p] \in Pointers BY <1>2 DEF Sound, Linked, LinkType
<1>7. Spliced(g, r, p, g.last[p], Null, n)
  BY <1>1, <1>2, <1>6, SpliceIs DEF LinkEndChild, Made, Pointers
<1>8. \A m \in Addresses : h.kind[m] # "free" => r.kind[m] # "free" /\ r.parent[m] = h.parent[m]
  BY <1>1, <1>2, <1>7 DEF Made, Spliced
<1> QED BY <1>4, <1>5, <1>8 DEF g

\* A new node that has no parent yet is linked at the end of the list of p.
LEMMA AddSound ==
  ASSUME NEW h, Sound(h, {}), NEW n \in FreeNodes(h), NEW kind \in Kinds, kind # "free",
         NEW name, NEW p \in Addresses, h.kind[p] # "free"
  PROVE  Sound(LinkEndChild(New(h, n, kind, name, Null), p, n), {})
<1> DEFINE g == New(h, n, kind, name, Null)
<1>1. n \in Nodes /\ n \in Addresses /\ h.kind[n] = "free" /\ Null \in Pointers
  BY NullIsNone DEF FreeNodes, Pointers
<1>2. Sound(g, {} \cup {n}) /\ Made(h, g, n, kind, Null) BY <1>1, NewSound
<1>3. g.kind[n] # "free" /\ g.kind[p] # "free" /\ p # n BY <1>1, <1>2 DEF Made
<1>4. {n} \in SUBSET Addresses /\ Closed(g, {n})
  <2>1. \A m \in Addresses : h.parent[m] # n BY FreeUnknown DEF Sound
  <2> QED BY <1>1, <1>2, <2>1, NullIsNone DEF Closed, Made
<1> HIDE DEF g
<1>5. Sound(g, {n}) /\ {n} \ {n} = {} BY <1>2
<1>6. Gap(g, {n}, p, g.last[p], Null) /\ g.last[p] \in Pointers BY <1>5, EndGap DEF Sound
<1>7. Sound(Splice(g, p, g.last[p], Null, n), {n} \ {n})
  BY <1>1, <1>3, <1>4, <1>5, <1>6, SpliceSound
<1> QED BY <1>5, <1>7 DEF LinkEndChild, g

\* A copy of src is linked.
LEMMA CloneSound ==
  ASSUME NEW h, Sound(h, {}), NEW src \in Addresses, h.kind[src] # "free",
         NEW f \in Rooms(h, src)
  PROVE  Copied(h, Clone(h, src, f), {f[k] : k \in Subtree(h, src)}, f[src])
BY CloneIs, CloneKeeps DEF Sound

LEMMA InsertSound ==
  ASSUME NEW h, Sound(h, {}), NEW g, NEW C, NEW t, Copied(h, g, C, t)
  PROVE  /\ \A p \in Addresses : h.kind[p] # "free" => Sound(LinkEndChild(g, p, t), {})
         /\ \A x \in Addresses : h.parent[x] # Null =>
              /\ Sound(LinkBefore(g, x, t), {})
              /\ Sound(LinkAfter(g, x, t), {})
              /\ Sound(ReplaceLink(g, x, t), {})
<1>1. /\ Sound(g, {t}) /\ Linked(g, {t}) /\ NoRing(g.parent) /\ NoRing(g.next)
      /\ t \in Nodes /\ t \in C /\ C \in SUBSET Addresses
      /\ g.kind[t] # "free" /\ Closed(g, C) /\ t \in {t} /\ {t} \ {t} = {}
  BY DEF Copied, Sound
<1>2. \A m \in Addresses : h.kind[m] # "free" =>
        m \notin C /\ g.kind[m] # "free" /\ g.parent[m] = h.parent[m]
  BY DEF Copied
<1>3. ASSUME NEW p \in Addresses, h.kind[p] # "free", NEW b \in Pointers, NEW a \in Pointers,
             Gap(g, {t}, p, b, a)
      PROVE  Sound(Splice(g, p, b, a, t), {})
  <2>1. p \notin C /\ g.kind[p] # "free" BY <1>2, <1>3
  <2>2. Sound(Splice(g, p, b, a, t), {t} \ {t}) BY <1>1, <1>3, <2>1, SpliceSound
  <2> QED BY <1>1, <2>2
<1>4. ASSUME NEW p \in Addresses, h.kind[p] # "free" PROVE Sound(LinkEndChild(g, p, t), {})
  <2>1. Gap(g, {t}, p, g.last[p], Null) /\ g.last[p] \in Pointers /\ Null \in Pointers
    BY <1>1, EndGap DEF Pointers
  <2> QED BY <1>3, <1>4, <2>1 DEF LinkEndChild
<1>5. ASSUME NEW x \in Addresses, h.parent[x] # Null
      PROVE  /\ Sound(LinkBefore(g, x, t), {})
             /\ Sound(LinkAfter(g, x, t), {})
             /\ Sound(ReplaceLink(g, x, t), {})
  <2>1. h.kind[x] # "free" /\ h.parent[x] \in Addresses /\ h.kind[h.parent[x]] # "free"
    BY <1>5 DEF Sound, Linked, LinksConsistent, NodeLinked, FreeBlank, ParentLive
  <2>2. x \notin C /\ x # t /\ g.parent[x] = h.parent[x] /\ h.parent[x] \notin C
    BY <1>1, <1>2, <2>1
  <2>3. /\ Gap(g, {t}, h.parent[x], g.prev[x], x) /\ g.prev[x] \in Pointers
        /\ Gap(g, {t}, h.parent[x], x, g.next[x]) /\ g.next[x] \in Pointers
        /\ x \in Pointers
    BY <1>1, <1>5, <2>2, BeforeGap, AfterGap DEF Pointers
  <2>4. Sound(LinkBefore(g, x, t), {}) BY <1>3, <2>1, <2>2, <2>3 DEF LinkBefore
  <2>5. Sound(LinkAfter(g, x, t), {}) BY <1>3, <2>1, <2>2, <2>3 DEF LinkAfter
  <2>6. g.parent[t] = Null BY DEF Copied
  <2>7. Sound(ReplaceLink(g, x, t), {})
    BY <1>1, <1>5, <2>2, <2>6, ReplaceKeeps DEF Sound
  <2> QED BY <2>4, <2>5, <2>7
<1> QED BY <1>4, <1>5

\* Attributes are no links.
LEMMA AttrsSound ==
  ASSUME NEW U, Sound(heap, U), NEW e, NEW attrs
  PROVE  /\ Sound(WithAttrs(e, attrs), U)
         /\ WithAttrs(e, attrs).kind = heap.kind /\ WithAttrs(e, attrs).parent = heap.parent
<1> DEFINE g == WithAttrs(e, attrs)
<1>1. /\ DOMAIN g = DOMAIN heap
      /\ g.kind = heap.kind /\ g.parent = heap.parent /\ g.first = heap.first
      /\ g.last = heap.last /\ g.prev = heap.prev /\ g.next = heap.next
  BY DEF WithAttrs, Sound, Linked, LinkType
<1> HIDE DEF g
<1>2. LinkType(g) BY <1>1 DEF Sound, Linked, LinkType
<1>3. LinksConsistent(g, U)
  BY <1>1 DEF Sound, Linked, LinksConsistent, NodeLinked, FreeBlank, ParentLive, FirstLinked,
              LastLinked, BothEnds, NextLinked, PrevLinked, Listed, Loose
<1>4. Sound(g, U) BY <1>1, <1>2, <1>3 DEF Sound, Linked
<1> QED BY <1>1, <1>4 DEF g

-----------------------------------------------------------------------------
(* The stack of the nodes whose Parse has not returned.                    *)

LEMMA TopLive ==
  ASSUME DocInv
  PROVE  /\ Top \in Addresses /\ heap.kind[Top] # "free"
         /\ InText => open # <<>>
         /\ \A u \in Unlinked : u \in Nodes /\ heap.kind[u] # "free"
         /\ open # <<>> => /\ Top \in Nodes /\ Top \in Unlinked
                           /\ heap.parent[Top] \in Addresses
                           /\ heap.kind[heap.parent[Top]] # "free"
<1>1. open \in Seq(Nodes) /\ \A i \in DOMAIN open : heap.kind[open[i]] # "free"
                                                     /\ heap.parent[open[i]] # Null
  BY DEF DocInv, StackInv
<1>2. heap.kind[Doc] = "document" /\ Doc \in Addresses BY NullIsNone DEF DocInv, Sound, Linked
<1>3. CASE open = <<>>
  BY <1>2, <1>3 DEF Top, InText, Unlinked
<1>4. CASE open # <<>>
  <2>1. Len(open) \in DOMAIN open /\ open[Len(open)] \in Nodes BY <1>1, <1>4
  <2>2. Top = open[Len(open)] BY <1>4 DEF Top
  <2>3. Top \in Nodes /\ Top \in Unlinked /\ heap.kind[Top] # "free" /\ heap.parent[Top] # Null
    BY <1>1, <2>1, <2>2 DEF Unlinked
  <2>4. Top \in Addresses BY <2>3, NullIsNone
  <2>5. heap.parent[Top] \in Addresses /\ heap.kind[heap.parent[Top]] # "free"
    BY <2>3, <2>4 DEF DocInv, Sound, Linked, LinksConsistent, NodeLinked, ParentLive
  <2>6. \A u \in Unlinked : u \in Nodes /\ heap.kind[u] # "free" BY <1>1 DEF Unlinked
  <2> QED BY <1>4, <2>3, <2>4, <2>5, <2>6
<1> QED BY <1>3, <1>4

\* A Parse returns, and what becomes of the innermost node is nothing to the others.
LEMMA PopKeeps ==
  ASSUME DocInv, open # <<>>, open' = Outer,
         \A m \in Addresses : m # Top =>
           heap'.kind[m] = heap.kind[m] /\ heap'.parent[m] = heap.parent[m]
  PROVE  Unlinked' = Unlinked \ {Top} /\ StackInv'
<1>4. /\ open' \in Seq(Nodes) /\ DOMAIN open' = 1 .. (Len(open) - 1)
      /\ \A i \in DOMAIN open' : open'[i] = open[i] /\ i \in DOMAIN open
      /\ open \in Seq(Nodes) /\ Len(open) \in Nat \ {0} /\ DOMAIN open = 1 .. Len(open)
  <2>1. open \in Seq(Nodes) /\ Len(open) \in Nat \ {0} BY DEF DocInv, StackInv
  <2> QED BY <2>1 DEF Outer
<1>5. Top = open[Len(open)] BY DEF Top
<1>6. Unlinked' = Unlinked \ {Top}
  <2>1. \A i \in DOMAIN open : i \in DOMAIN open' <=> i # Len(open) BY <1>4
  <2>2. \A i, j \in DOMAIN open : open[i] = open[j] => i = j BY DEF DocInv, StackInv
  <2>3. Len(open) \in DOMAIN open BY <1>4
  <2> QED BY <1>4, <1>5, <2>1, <2>2, <2>3 DEF Unlinked
<1>8. StackInv'
  <2>1. \A i, j \in DOMAIN open' : open'[i] = open'[j] => i = j
    BY <1>4 DEF DocInv, StackInv
  <2>2. ASSUME NEW i \in DOMAIN open'
        PROVE  heap'.kind[open'[i]] # "free" /\ heap'.parent[open'[i]] # Null
    <3>1. open'[i] \in Unlinked' BY DEF Unlinked
    <3>2. open'[i] # Top /\ open'[i] = open[i] /\ i \in DOMAIN open BY <1>4, <1>6, <3>1
    <3>3. open[i] \in Addresses BY <1>4, <3>2, NullIsNone
    <3> QED BY <3>2, <3>3 DEF DocInv, StackInv
  <2> QED BY <1>4, <2>1, <2>2 DEF StackInv
<1> QED BY <1>6, <1>8

\* A Parse returns and its caller links the node.
LEMMA LinkTopKeeps ==
  ASSUME DocInv, open # <<>>, LinkTop
  PROVE  Sound(heap', Unlinked') /\ StackInv'
<1> DEFINE p == heap.parent[Top]
<1>1. /\ Top \in Nodes /\ Top \in Unlinked /\ Top \in Addresses /\ heap.kind[Top] # "free"
      /\ p \in Addresses /\ heap.kind[p] # "free"
  BY TopLive
<1>2. Sound(heap, Unlinked) /\ heap' = LinkEndChild(heap, p, Top) /\ open' = Outer
  BY DEF DocInv, LinkTop
<1> HIDE DEF p
<1>3. Sound(heap', Unlinked \ {Top})
  BY <1>1, <1>2, EndSound DEF p
<1>7. \A m \in Addresses : m # Top =>
        heap'.kind[m] = heap.kind[m] /\ heap'.parent[m] = heap.parent[m]
  <2>1. LinkType(heap) /\ heap.last[p] \in Pointers /\ Null \in Pointers
    BY <1>1 DEF DocInv, Sound, Linked, LinkType, Pointers
  <2>2. Spliced(heap, heap', p, heap.last[p], Null, Top)
    BY <1>1, <1>2, <2>1, SpliceIs DEF LinkEndChild
  <2> QED BY <2>2 DEF Spliced
<1> QED BY <1>2, <1>3, <1>7, PopKeeps

\* A Parse returns and its caller deletes the node, which is below no node and has none
\* below it.
LEMMA FreeTopKeeps ==
  ASSUME DocInv, open # <<>>, \A m \in Addresses : heap.parent[m] # Top,
         heap' = Free(heap, {Top}), open' = Outer
  PROVE  Sound(heap', Unlinked') /\ StackInv'
<1> DEFINE n == Top
           U == Unlinked
           S == {n}
<1>1. n \in Nodes /\ n \in U /\ n \in Addresses /\ n # Doc BY TopLive
<1>2. /\ LinkType(heap) /\ Linked(heap, U) /\ NoRing(heap.parent) /\ NoRing(heap.next)
      /\ \A m \in Addresses : heap.parent[m] # n
  BY DEF DocInv, Sound, Linked
<1> HIDE DEF n, U
<1>3. Freed(heap, heap', S) /\ S \in SUBSET Addresses
  <2>1. S \in SUBSET Addresses BY <1>1
  <2>2. Freed(heap, Free(heap, S), S) BY <1>2, <2>1, FreeIs
  <2> QED BY <2>1, <2>2 DEF n
<1>4. ASSUME NEW m \in Addresses \ S PROVE NodeLinked(heap, U, m) /\ PointsOutside(heap, S, m)
  <2>1. NodeLinked(heap, U, m) BY <1>2 DEF Linked, LinksConsistent
  <2>2. n # Null BY <1>1, NullIsNone
  <2> QED BY <1>1, <1>2, <2>1, <2>2
    DEF NodeLinked, PointsOutside, FirstLinked, LastLinked, NextLinked, PrevLinked
<1>5. Linked(heap', U)
  <2>1. heap.kind[Doc] = "document" /\ heap.parent[Doc] = Null /\ Doc \notin S
    BY <1>1, <1>2 DEF Linked
  <2> QED BY <1>2, <1>3, <1>4, <2>1, FreeKeeps
<1>6. heap'.parent[n] = Null /\ heap'.prev[n] = Null /\ heap'.next[n] = Null BY <1>1, <1>3 DEF Freed
<1>7. ASSUME NEW m \in Addresses PROVE NodeLinked(heap', U \ S, m)
  <2>1. NodeLinked(heap', U, m) BY <1>5 DEF Linked, LinksConsistent
  <2> QED BY <1>6, <2>1
    DEF NodeLinked, FirstLinked, LastLinked, NextLinked, PrevLinked, Listed, Loose
<1>8. Linked(heap', U \ S) BY <1>5, <1>7 DEF Linked, LinksConsistent
<1>9. NoRing(heap'.parent) /\ NoRing(heap'.next) BY <1>2, <1>3, FreeNoRing, FreeNoSiblingRing
<1>10. \A m \in Addresses : m # Top =>
         heap'.kind[m] = heap.kind[m] /\ heap'.parent[m] = heap.parent[m]
  BY <1>3 DEF Freed, n
<1>11. Unlinked' = Unlinked \ {Top} /\ StackInv' BY <1>10, PopKeeps
<1> QED BY <1>8, <1>9, <1>11 DEF Sound, n, U

\* A node is made below the innermost one and its Parse is called.
LEMMA PushKeeps ==
  ASSUME DocInv, NEW n \in FreeNodes(heap), NEW kind \in Kinds, kind # "free", NEW name,
         heap' = New(heap, n, kind, name, Top), open' = Append(open, n)
  PROVE  Sound(heap', Unlinked') /\ StackInv' /\ open' # <<>> /\ heap'.kind[Top'] = kind
<1>1. /\ Top \in Addresses /\ Top # Null /\ heap.kind[Top] # "free"
      /\ \A u \in Unlinked : u \in Nodes /\ heap.kind[u] # "free"
  BY TopLive, NullIsNone
<1>2. n \in Nodes /\ n \in Addresses /\ heap.kind[n] = "free" /\ n \notin Unlinked
  BY <1>1, NullIsNone DEF FreeNodes
<1>3. Sound(heap', Unlinked \cup {n}) /\ Made(heap, heap', n, kind, Top)
  <2>1. Sound(heap, Unlinked) /\ Top \in Pointers BY <1>1 DEF DocInv, Pointers
  <2> QED BY <1>1, <2>1, NewSound
<1>4. /\ open' \in Seq(Nodes) /\ Len(open') = Len(open) + 1 /\ DOMAIN open' = 1 .. Len(open')
      /\ open'[Len(open')] = n
      /\ \A i \in DOMAIN open : i \in DOMAIN open' /\ open'[i] = open[i]
      /\ \A i \in DOMAIN open' : i = Len(open') \/ i \in DOMAIN open
      /\ Len(open') \in DOMAIN open'
  <2>1. open \in Seq(Nodes) /\ Len(open) \in Nat BY DEF DocInv, StackInv
  <2> QED BY <1>2, <2>1
<1>5. Unlinked' = Unlinked \cup {n}
  BY <1>4 DEF Unlinked
<1>6. StackInv'
  <2>1. \A i, j \in DOMAIN open' : open'[i] = open'[j] => i = j
    <3>1. \A i \in DOMAIN open : open[i] # n BY <1>2 DEF Unlinked
    <3>2. \A i, j \in DOMAIN open : open[i] = open[j] => i = j BY DEF DocInv, StackInv
    <3> QED BY <1>4, <3>1, <3>2
  <2>2. ASSUME NEW i \in DOMAIN open'
        PROVE  heap'.kind[open'[i]] # "free" /\ heap'.parent[open'[i]] # Null
    <3>1. CASE open'[i] = n
      BY <1>1, <1>2, <1>3, <3>1 DEF Made
    <3>2. CASE open'[i] # n
      <4>1. i \in DOMAIN open /\ open'[i] = open[i] BY <1>4, <3>2
      <4>2. heap.kind[open[i]] # "free" /\ heap.parent[open[i]] # Null /\ open[i] \in Addresses
        BY <4>1, NullIsNone DEF DocInv, StackInv
      <4> QED BY <1>3, <3>2, <4>1, <4>2 DEF Made
    <3> QED BY <3>1, <3>2
  <2> QED BY <1>4, <2>1, <2>2 DEF StackInv
<1>7. open' # <<>> BY <1>4
<1>8. heap'.kind[Top'] = kind
  <2>1. Top' = n BY <1>4, <1>7 DEF Top
  <2> QED BY <1>2, <1>3, <2>1 DEF Made
<1> QED BY <1>3, <1>5, <1>6, <1>7, <1>8

\* A leaf is made below the innermost one and linked.
LEMMA LeafKeeps ==
  ASSUME DocInv, NEW n \in FreeNodes(heap), NEW kind \in Kinds, kind # "free", NEW name,
         heap' = LinkEndChild(New(heap, n, kind, name, Top), Top, n), open' = open
  PROVE  Sound(heap', Unlinked') /\ StackInv'
<1>1. /\ Top \in Addresses /\ heap.kind[Top] # "free"
      /\ \A u \in Unlinked : u \in Nodes /\ heap.kind[u] # "free"
  BY TopLive
<1>2. n \notin Unlinked /\ Sound(heap, Unlinked) /\ Unlinked' = Unlinked
  BY <1>1 DEF FreeNodes, DocInv, Unlinked
<1>3. /\ Sound(heap', Unlinked)
      /\ \A m \in Addresses : heap.kind[m] # "free" =>
           heap'.kind[m] # "free" /\ heap'.parent[m] = heap.parent[m]
  BY <1>1, <1>2, LeafSound
<1>4. \A i \in DOMAIN open : open[i] \in Addresses BY NullIsNone DEF DocInv, StackInv
<1>5. StackInv'
  BY <1>3, <1>4 DEF DocInv, StackInv
<1> QED BY <1>2, <1>3, <1>5

\* Nothing is made, linked or returned.
LEMMA StackStays ==
  ASSUME DocInv, open' = open, Sound(heap', Unlinked),
         heap'.kind = heap.kind, heap'.parent = heap.parent
  PROVE  Sound(heap', Unlinked') /\ StackInv'
BY DEF DocInv, StackInv, Unlinked

-----------------------------------------------------------------------------
(* The actions.                                                            *)

LEMMA DocInit == Init => DocInv
<1> SUFFICES ASSUME Init PROVE DocInv OBVIOUS
<1>1. heap = EmptyHeap /\ mode = "load" /\ open = <<>> /\ inTag = FALSE BY DEF Init
<1>2. /\ LinkType(heap) /\ heap.kind[Doc] = "document" /\ heap.parent[Doc] = Null
      /\ \A m \in Addresses :
           /\ heap.parent[m] = Null /\ heap.first[m] = Null /\ heap.last[m] = Null
           /\ heap.prev[m] = Null /\ heap.next[m] = Null
  BY <1>1, NullIsNone DEF EmptyHeap, LinkType, Kinds, Pointers
<1>3. LinksConsistent(heap, Unlinked)
  BY <1>2 DEF LinksConsistent, NodeLinked, FreeBlank, ParentLive, FirstLinked, LastLinked,
              BothEnds, NextLinked, PrevLinked, Listed, Loose
<1>4. NoRing(heap.parent) /\ NoRing(heap.next) BY <1>2, NullIsNone DEF NoRing
<1>5. StackInv /\ ModeInv BY <1>1 DEF StackInv, ModeInv
<1> QED BY <1>2, <1>3, <1>4, <1>5 DEF DocInv, Sound, Linked

LEMMA LeafKindIs ==
  ASSUME token \in Leaves \cup Cuts \cup EndTags
  PROVE  LeafKind \in Kinds /\ LeafKind # "free"
<1>1. CASE token \in EndTags
  <2>1. PICK name \in Names : token = Token("close", name) BY <1>1 DEF EndTags
  <2>2. token.t = "close" BY <2>1 DEF Token
  <2> QED BY <2>2 DEF LeafKind, Kinds
<1>2. CASE token \in Leaves \cup Cuts
  <2>1. PICK t \in {"leaf", "cut"}, kind \in LeafKinds : token = Token(t, kind)
    BY <1>2 DEF Leaves, Cuts
  <2>2. token.name \in LeafKinds /\ token.t # "close" BY <2>1 DEF Token
  <2> QED BY <2>2, DocumentAssumption DEF LeafKind, Kinds
<1> QED BY <1>1, <1>2

LEMMA LoadStep ==
  ASSUME DocInv, TextInv,
         \/ SkipWhiteSpace
         \/ \E n \in FreeNodes(heap) : StartElement(n) \/ Leaf(n) \/ CutLeaf(n) \/ StartText(n)
         \/ Attribute \/ NoAttribute \/ EndOfStartTag \/ EmptyElement
         \/ MoreText \/ EndText \/ EndElement \/ NoEndTag \/ ReturnNull \/ EndDocument
  PROVE  DocInv'
<1>0. ModeInv /\ Sound(heap, Unlinked) BY DEF DocInv
\* What is only read, or noted.
<1>1. ASSUME UNCHANGED <<heap, open>>
      PROVE  Sound(heap', Unlinked') /\ StackInv'
  BY <1>0, <1>1, StackStays
<1>2. CASE SkipWhiteSpace
  <2>1. UNCHANGED <<heap, open, mode, inTag>> BY <1>2 DEF SkipWhiteSpace
  <2> QED BY <1>0, <1>1, <2>1 DEF DocInv, ModeInv, Top
<1>3. ASSUME NEW n \in FreeNodes(heap), StartElement(n) PROVE DocInv'
  <2>1. /\ heap' = New(heap, n, "element", token.name, Top) /\ open' = Append(open, n)
        /\ mode' = mode /\ mode \in {"load", "reload"}
    BY <1>3 DEF StartElement, Between, Parsing
  <2>2. "element" \in Kinds /\ "element" # "free" BY DEF Kinds
  <2>3. Sound(heap', Unlinked') /\ StackInv' /\ open' # <<>> /\ heap'.kind[Top'] = "element"
    BY <2>1, <2>2, PushKeeps
  <2> QED BY <2>1, <2>3 DEF DocInv, ModeInv
<1>4. ASSUME NEW n \in FreeNodes(heap), Leaf(n) \/ CutLeaf(n) PROVE DocInv'
  <2>1. /\ heap' = LinkEndChild(New(heap, n, LeafKind, LeafName, Top), Top, n)
        /\ UNCHANGED <<open, mode, inTag>> /\ ~inTag
        /\ token \in Leaves \cup Cuts \cup EndTags
    BY <1>4 DEF Leaf, CutLeaf, Between
  <2>2. LeafKind \in Kinds /\ LeafKind # "free" BY <2>1, LeafKindIs
  <2>3. Sound(heap', Unlinked') /\ StackInv' BY <2>1, <2>2, LeafKeeps
  <2> QED BY <1>0, <2>1, <2>3 DEF DocInv, ModeInv
<1>5. ASSUME NEW n \in FreeNodes(heap), StartText(n) PROVE DocInv'
  <2>1. /\ heap' = New(heap, n, "text", Text.name, Top) /\ open' = Append(open, n)
        /\ mode' = mode /\ mode \in {"load", "reload"} /\ inTag' = FALSE
    BY <1>0, <1>5 DEF StartText, Between, Parsing
  <2>2. "text" \in Kinds /\ "text" # "free" BY DEF Kinds
  <2>3. Sound(heap', Unlinked') /\ StackInv' /\ open' # <<>> /\ heap'.kind[Top'] = "text"
    BY <2>1, <2>2, PushKeeps
  <2> QED BY <2>1, <2>3 DEF DocInv, ModeInv
<1>6. CASE Attribute
  <2>1. UNCHANGED <<open, mode, inTag>> /\
        (heap' = heap \/ \E attrs : heap' = WithAttrs(Top, attrs))
    BY <1>6 DEF Attribute
  <2>2. Sound(heap', Unlinked) /\ heap'.kind = heap.kind /\ heap'.parent = heap.parent
    BY <1>0, <2>1, AttrsSound
  <2>3. Sound(heap', Unlinked') /\ StackInv' BY <2>1, <2>2, StackStays
  <2> QED BY <1>0, <2>1, <2>2, <2>3 DEF DocInv, ModeInv, Top
<1>7. CASE NoAttribute
  <2>1. UNCHANGED <<heap, open, mode, inTag>> BY <1>7 DEF NoAttribute
  <2> QED BY <1>0, <1>1, <2>1 DEF DocInv, ModeInv, Top
<1>8. CASE EndOfStartTag
  <2>1. UNCHANGED <<heap, open, mode>> /\ inTag' = FALSE BY <1>8 DEF EndOfStartTag
  <2> QED BY <1>0, <1>1, <2>1 DEF DocInv, ModeInv
<1>9. CASE EmptyElement
  <2>1. LinkTop /\ open # <<>> /\ inTag' = FALSE /\ mode' = mode /\ mode \in {"load", "reload"}
    BY <1>0, <1>9 DEF EmptyElement, ModeInv, Parsing
  <2>2. Sound(heap', Unlinked') /\ StackInv' BY <2>1, LinkTopKeeps
  <2> QED BY <2>1, <2>2 DEF DocInv, ModeInv
<1>10. CASE MoreText
  <2>1. UNCHANGED <<heap, open, mode, inTag>> BY <1>10 DEF MoreText
  <2> QED BY <1>0, <1>1, <2>1 DEF DocInv, ModeInv, Top
<1>11. CASE EndText
  <2>1. /\ LinkTop \/ (heap' = Free(heap, {Top}) /\ open' = Outer)
        /\ open # <<>> /\ mode' = mode /\ mode \in {"load", "reload"}
        /\ ~inTag /\ inTag' = inTag
        /\ \A m \in Addresses : heap.parent[m] # Top
    BY <1>0, <1>11, TopLive DEF EndText, Parsing, InText, ModeInv, TextInv
  <2>2. Sound(heap', Unlinked') /\ StackInv' BY <2>1, LinkTopKeeps, FreeTopKeeps
  <2>3. ModeInv' BY <2>1 DEF ModeInv
  <2> QED BY <2>2, <2>3 DEF DocInv
<1>12. CASE EndElement
  <2>1. /\ LinkTop \/ UNCHANGED <<heap, open>>
        /\ open # <<>> /\ mode' = mode /\ mode \in {"load", "reload"} /\ inTag' = inTag /\ ~inTag
    BY <1>12 DEF EndElement, Between, Parsing
  <2>2. Sound(heap', Unlinked') /\ StackInv' BY <1>1, <2>1, LinkTopKeeps
  <2> QED BY <2>1, <2>2 DEF DocInv, ModeInv
<1>13. CASE NoEndTag
  <2>1. UNCHANGED <<heap, open, mode, inTag>> BY <1>13 DEF NoEndTag
  <2> QED BY <1>0, <1>1, <2>1 DEF DocInv, ModeInv, Top
<1>14. CASE ReturnNull
  <2>1. LinkTop /\ open # <<>> /\ inTag' = FALSE /\ mode' = mode /\ mode \in {"load", "reload"}
    BY <1>14 DEF ReturnNull
  <2>2. Sound(heap', Unlinked') /\ StackInv' BY <2>1, LinkTopKeeps
  <2> QED BY <2>1, <2>2 DEF DocInv, ModeInv
<1>15. CASE EndDocument
  <2>1. UNCHANGED <<heap, open, inTag>> /\ open = <<>> BY <1>15 DEF EndDocument
  <2> QED BY <1>0, <1>1, <2>1 DEF DocInv, ModeInv
<1> QED
  BY <1>2, <1>3, <1>4, <1>5, <1>6, <1>7, <1>8, <1>9, <1>10, <1>11, <1>12, <1>13, <1>14, <1>15

\* What the application makes of the document.
LEMMA Edits ==
  ASSUME DocInv, mode = "edit", NEW h, Sound(h, {}), Edit(h)
  PROVE  DocInv'
<1>1. open = <<>> /\ heap' = h /\ mode' = mode /\ open' = open /\ inTag' = inTag
  BY DEF DocInv, ModeInv, Edit, parserVars
<1>2. Unlinked' = {} BY <1>1 DEF Unlinked
<1>3. Sound(heap', Unlinked') BY <1>1, <1>2
<1>4. StackInv' BY <1>1 DEF StackInv
<1>5. ModeInv' BY <1>1 DEF DocInv, ModeInv
<1> QED BY <1>3, <1>4, <1>5 DEF DocInv

LEMMA EditStep ==
  ASSUME DocInv,
         \/ \E p \in Live(heap), n \in FreeNodes(heap) : AddChild(p, n)
         \/ \E p, src \in Live(heap) : InsertEndChild(p, src)
         \/ \E x, src \in Live(heap) : \/ InsertBeforeChild(x, src) \/ InsertAfterChild(x, src)
                                       \/ ReplaceChild(x, src)
         \/ \E x \in Live(heap) : RemoveNode(x) \/ ClearNode(x)
         \/ \E e \in Live(heap), name \in AttrNames :
              RemoveAttribute(e, name) \/ \E value \in AttrValues : SetAttribute(e, name, value)
  PROVE  DocInv'
<1>1. ASSUME mode = "edit" PROVE Sound(heap, {})
  <2>1. Unlinked = {} BY <1>1 DEF DocInv, ModeInv, Unlinked
  <2> QED BY <2>1 DEF DocInv
<1>2. ASSUME NEW p \in Live(heap), NEW n \in FreeNodes(heap), AddChild(p, n) PROVE DocInv'
  <2>1. mode = "edit" BY <1>2 DEF AddChild
  <2>2. PICK kind \in {"element", "text"} :
          \E name : Edit(LinkEndChild(New(heap, n, kind, name, Null), p, n))
    BY <1>2 DEF AddChild
  <2>3. kind \in Kinds /\ kind # "free" BY DEF Kinds
  <2>4. \A name : Sound(LinkEndChild(New(heap, n, kind, name, Null), p, n), {})
    BY <1>1, <2>1, <2>3, AddSound
  <2> QED BY <2>1, <2>2, <2>4, Edits
<1>3. ASSUME NEW p \in Live(heap), NEW src \in Live(heap), InsertEndChild(p, src) PROVE DocInv'
  <2>1. mode = "edit" BY <1>3 DEF InsertEndChild
  <2>2. PICK f \in Rooms(heap, src) : Edit(LinkEndChild(Clone(heap, src, f), p, f[src]))
    BY <1>3 DEF InsertEndChild
  <2>3. Copied(heap, Clone(heap, src, f), {f[k] : k \in Subtree(heap, src)}, f[src])
    BY <1>1, <2>1, CloneSound
  <2>4. Sound(LinkEndChild(Clone(heap, src, f), p, f[src]), {})
    BY <1>1, <2>1, <2>3, InsertSound
  <2> QED BY <2>1, <2>2, <2>4, Edits
<1>4. ASSUME NEW x \in Live(heap), NEW src \in Live(heap),
             InsertBeforeChild(x, src) \/ InsertAfterChild(x, src) \/ ReplaceChild(x, src)
      PROVE  DocInv'
  <2>1. mode = "edit" /\ heap.parent[x] # Null
    BY <1>4 DEF InsertBeforeChild, InsertAfterChild, ReplaceChild
  <2>2. PICK f \in Rooms(heap, src) :
          \/ Edit(LinkBefore(Clone(heap, src, f), x, f[src]))
          \/ Edit(LinkAfter(Clone(heap, src, f), x, f[src]))
          \/ Edit(ReplaceLink(Clone(heap, src, f), x, f[src]))
    BY <1>4 DEF InsertBeforeChild, InsertAfterChild, ReplaceChild
  <2>3. Copied(heap, Clone(heap, src, f), {f[k] : k \in Subtree(heap, src)}, f[src])
    BY <1>1, <2>1, CloneSound
  <2>4. /\ Sound(LinkBefore(Clone(heap, src, f), x, f[src]), {})
        /\ Sound(LinkAfter(Clone(heap, src, f), x, f[src]), {})
        /\ Sound(ReplaceLink(Clone(heap, src, f), x, f[src]), {})
    BY <1>1, <2>1, <2>3, InsertSound
  <2> QED BY <2>1, <2>2, <2>4, Edits
<1>5. ASSUME NEW x \in Live(heap), RemoveNode(x) PROVE DocInv'
  <2>1. mode = "edit" /\ heap.parent[x] # Null /\ Edit(RemoveChild(heap, x))
    BY <1>5 DEF RemoveNode
  <2>2. Sound(RemoveChild(heap, x), {}) BY <1>1, <2>1, RemoveKeeps DEF Sound
  <2> QED BY <2>1, <2>2, Edits
<1>6. ASSUME NEW p \in Live(heap), ClearNode(p) PROVE DocInv'
  <2>1. mode = "edit" /\ Edit(Clear(heap, p)) BY <1>6 DEF ClearNode
  <2>2. Sound(Clear(heap, p), {}) BY <1>1, <2>1, ClearKeeps DEF Sound
  <2> QED BY <2>1, <2>2, Edits
<1>7. ASSUME NEW e \in Live(heap), NEW name \in AttrNames,
             RemoveAttribute(e, name) \/ \E value \in AttrValues : SetAttribute(e, name, value)
      PROVE  DocInv'
  <2>1. mode = "edit" BY <1>7 DEF RemoveAttribute, SetAttribute
  <2>2. PICK attrs : Edit(WithAttrs(e, attrs)) BY <1>7 DEF RemoveAttribute, SetAttribute
  <2>3. Sound(WithAttrs(e, attrs), {}) BY <1>1, <2>1, AttrsSound
  <2> QED BY <2>1, <2>2, <2>3, Edits
<1> QED BY <1>2, <1>3, <1>4, <1>5, <1>6, <1>7

LEMMA FileStep == ASSUME DocInv, Keep \/ SaveAndLoad PROVE DocInv'
<1>1. /\ open = <<>> /\ open' = open /\ inTag' = inTag
      /\ heap' = heap \/ heap' = Clear(heap, Doc)
  BY DEF DocInv, ModeInv, Keep, SaveAndLoad
<1>2. Unlinked = {} /\ Unlinked' = {} BY <1>1 DEF Unlinked
<1>3. Sound(heap, {}) BY <1>2 DEF DocInv
<1>4. Sound(heap', Unlinked') BY <1>1, <1>2, <1>3, ClearKeeps, NullIsNone DEF Sound
<1>5. StackInv' BY <1>1 DEF StackInv
<1>6. ModeInv' BY <1>1 DEF DocInv, ModeInv
<1> QED BY <1>4, <1>5, <1>6 DEF DocInv

\* TextInv is kept when nothing is made, linked or returned,
LEMMA TextStays ==
  ASSUME DocInv, TextInv, open' = open, heap'.kind[Doc] = heap.kind[Doc],
         \A m \in Addresses : heap.kind[m] # "free" => heap'.kind[m] = heap.kind[m],
         InText => heap'.parent = heap.parent
  PROVE  TextInv'
<1>1. \A i \in DOMAIN open : open[i] \in Addresses /\ heap.kind[open[i]] # "free"
  BY NullIsNone DEF DocInv, StackInv
<1>2. Top' = Top BY DEF Top
<1>3. heap'.kind[Top] = heap.kind[Top] BY TopLive
<1> QED BY <1>1, <1>2, <1>3 DEF TextInv, InText

\* when a Parse returns: only the innermost node can be a text,
LEMMA TextPop ==
  ASSUME DocInv, TextInv, open # <<>>, open' = Outer,
         \A m \in Addresses : m # Top => heap'.kind[m] = heap.kind[m]
  PROVE  TextInv'
<1>1. /\ open \in Seq(Nodes) /\ Len(open) \in Nat \ {0} /\ DOMAIN open = 1 .. Len(open)
      /\ \A i, j \in DOMAIN open : open[i] = open[j] => i = j
  BY DEF DocInv, StackInv
<1>2. /\ DOMAIN open' = 1 .. (Len(open) - 1) /\ Len(open') = Len(open) - 1
      /\ \A i \in DOMAIN open' : open'[i] = open[i] /\ i \in DOMAIN open /\ i # Len(open)
  BY <1>1 DEF Outer
<1>3. Top = open[Len(open)] /\ Len(open) \in DOMAIN open BY <1>1 DEF Top
<1>4. \A i \in DOMAIN open' : heap'.kind[open'[i]] # "text"
  <2> SUFFICES ASSUME NEW i \in DOMAIN open' PROVE heap'.kind[open'[i]] # "text" OBVIOUS
  <2>1. open'[i] = open[i] /\ i \in DOMAIN open /\ i # Len(open) BY <1>2
  <2>2. open[i] # Top /\ open[i] \in Addresses BY <1>1, <1>3, <2>1, NullIsNone
  <2> QED BY <2>1, <2>2 DEF TextInv
<1>5. ~InText'
  <2>1. CASE open' = <<>>
    <3>1. heap.kind[Doc] = "document" /\ Doc \in Addresses BY NullIsNone DEF DocInv, Sound, Linked
    <3>2. Doc # Top BY TopLive, HeapAssumption
    <3> QED BY <2>1, <3>1, <3>2 DEF InText, Top
  <2>2. CASE open' # <<>>
    <3>1. open' \in Seq(Nodes) BY <1>1 DEF Outer
    <3>2. Len(open') \in DOMAIN open' BY <2>2, <3>1
    <3> QED BY <1>4, <2>2, <3>2 DEF InText, Top
  <2> QED BY <2>1, <2>2
<1> QED BY <1>4, <1>5 DEF TextInv

\* when a node is made whose Parse is called,
LEMMA TextPush ==
  ASSUME DocInv, TextInv, ~InText, NEW n \in FreeNodes(heap), NEW kind \in Kinds, NEW name,
         heap' = New(heap, n, kind, name, Top), open' = Append(open, n)
  PROVE  TextInv'
<1>1. /\ open \in Seq(Nodes) /\ n \in Nodes /\ Len(open) \in Nat
      /\ \A i \in DOMAIN open : open[i] \in Addresses /\ heap.kind[open[i]] # "free"
  BY NullIsNone DEF DocInv, StackInv, FreeNodes
<1>2. /\ Len(open') = Len(open) + 1 /\ open' # <<>> /\ open'[Len(open')] = n
      /\ \A i \in DOMAIN open' :
           i = Len(open') \/ (i \in DOMAIN open /\ open'[i] = open[i])
  BY <1>1
<1>3. /\ \A m \in Addresses : heap.parent[m] # n
      /\ n \in Addresses /\ Linked(heap, Unlinked) /\ heap.kind[n] = "free"
  BY FreeUnknown DEF DocInv, Sound, FreeNodes
<1>4. Made(heap, heap', n, kind, Top) /\ Top # n
  BY <1>3, TopLive, NewIs DEF Linked, Pointers
<1>5. \A i \in DOMAIN open : heap.kind[open[i]] # "text"
  <2>1. CASE open = <<>> BY <2>1
  <2>2. CASE open # <<>>
    <3>1. heap.kind[open[Len(open)]] # "text" BY <2>2 DEF InText, Top
    <3> QED BY <3>1 DEF TextInv
  <2> QED BY <2>1, <2>2
<1>6. \A i \in DOMAIN open' : heap'.kind[open'[i]] = "text" => i = Len(open')
  <2> SUFFICES ASSUME NEW i \in DOMAIN open', i # Len(open') PROVE heap'.kind[open'[i]] # "text"
    OBVIOUS
  <2>1. i \in DOMAIN open /\ open'[i] = open[i] BY <1>2
  <2>2. open[i] \in Addresses /\ open[i] # n BY <1>1, <1>3, <2>1
  <2> QED BY <1>4, <1>5, <2>1, <2>2 DEF Made
<1>7. Top' = n BY <1>2 DEF Top
<1>8. \A m \in Addresses : heap'.parent[m] # n BY <1>3, <1>4 DEF Made
<1> QED BY <1>6, <1>7, <1>8 DEF TextInv

\* and when there is no such node.
LEMMA TextNone == ASSUME DocInv', open' = <<>> PROVE TextInv'
<1>1. heap'.kind[Doc] = "document" BY DEF DocInv, Sound, Linked
<1>2. DOMAIN open' = {} OBVIOUS
<1> QED BY <1>1, <1>2 DEF TextInv, InText, Top

LEMMA TextLinkTop ==
  ASSUME DocInv, TextInv, open # <<>>, LinkTop \/ (heap' = Free(heap, {Top}) /\ open' = Outer)
  PROVE  TextInv'
<1>1. /\ Top \in Addresses /\ heap.parent[Top] \in Addresses /\ LinkType(heap)
      /\ heap.last[heap.parent[Top]] \in Pointers /\ Null \in Pointers
  BY TopLive DEF DocInv, Sound, Linked, LinkType, Pointers
<1>2. CASE LinkTop
  <2>1. Spliced(heap, heap', heap.parent[Top], heap.last[heap.parent[Top]], Null, Top)
    BY <1>1, <1>2, SpliceIs DEF LinkTop, LinkEndChild
  <2>2. \A m \in Addresses : heap'.kind[m] = heap.kind[m] BY <2>1 DEF Spliced
  <2> QED BY <1>2, <2>2, TextPop DEF LinkTop
<1>3. CASE heap' = Free(heap, {Top}) /\ open' = Outer
  <2>1. Freed(heap, Free(heap, {Top}), {Top}) BY <1>1, FreeIs
  <2>2. \A m \in Addresses : m # Top => heap'.kind[m] = heap.kind[m] BY <1>3, <2>1 DEF Freed
  <2> QED BY <1>3, <2>2, TextPop
<1> QED BY <1>2, <1>3

LEMMA LeafStays ==
  ASSUME DocInv, NEW n \in FreeNodes(heap), Leaf(n) \/ CutLeaf(n)
  PROVE  \A m \in Addresses : heap.kind[m] # "free" => heap'.kind[m] = heap.kind[m]
<1>1. heap' = LinkEndChild(New(heap, n, LeafKind, LeafName, Top), Top, n) /\ LeafKind \in Kinds
  BY LeafKindIs DEF Leaf, CutLeaf
<1>2. LinkType(heap) /\ n \in Addresses /\ Top \in Addresses /\ Top \in Pointers
  BY TopLive, NullIsNone DEF DocInv, Sound, Linked, FreeNodes, Pointers
<1> DEFINE g == New(heap, n, LeafKind, LeafName, Top)
<1>3. Made(heap, g, n, LeafKind, Top) BY <1>1, <1>2, NewIs
<1> HIDE DEF g
<1>4. LinkType(g) /\ g.last[Top] \in Pointers /\ Null \in Pointers
  BY <1>2, <1>3 DEF Made, LinkType, Pointers
<1>5. Spliced(g, heap', Top, g.last[Top], Null, n)
  BY <1>1, <1>2, <1>4, SpliceIs DEF LinkEndChild, g
<1> QED BY <1>2, <1>3, <1>5 DEF Made, Spliced, FreeNodes

LEMMA TextStep == ASSUME DocInv, TextInv, DocInv', Next PROVE TextInv'
<1>1. CASE UNCHANGED <<heap, open>>
  BY <1>1, TextStays
<1>2. CASE EmptyElement \/ EndText \/ ReturnNull \/ (EndElement /\ LinkTop)
  <2>1. open # <<>> BY <1>2, TopLive DEF EmptyElement, EndText, ReturnNull, EndElement, DocInv, ModeInv
  <2>2. LinkTop \/ (heap' = Free(heap, {Top}) /\ open' = Outer)
    BY <1>2 DEF EmptyElement, EndText, ReturnNull
  <2> QED BY <2>1, <2>2, TextLinkTop
<1>3. ASSUME NEW n \in FreeNodes(heap), StartElement(n) \/ StartText(n) PROVE TextInv'
  <2>1. ~InText /\ open' = Append(open, n) BY <1>3 DEF StartElement, StartText, Between
  <2>2. \E kind \in {"element", "text"} : \E name : heap' = New(heap, n, kind, name, Top)
    BY <1>3 DEF StartElement, StartText
  <2> QED BY <2>1, <2>2, TextPush DEF Kinds
<1>4. ASSUME NEW n \in FreeNodes(heap), Leaf(n) \/ CutLeaf(n) PROVE TextInv'
  <2>1. /\ heap' = LinkEndChild(New(heap, n, LeafKind, LeafName, Top), Top, n)
        /\ open' = open /\ ~InText
    BY <1>4 DEF Leaf, CutLeaf, Between
  <2>2. \A m \in Addresses : heap.kind[m] # "free" => heap'.kind[m] = heap.kind[m]
    BY <1>4, LeafStays
  <2>3. heap.kind[Doc] # "free" /\ Doc \in Addresses BY NullIsNone DEF DocInv, Sound, Linked
  <2> QED BY <2>1, <2>2, <2>3, TextStays
<1>5. CASE Attribute
  <2>1. open' = open /\ (heap' = heap \/ \E attrs : heap' = WithAttrs(Top, attrs))
    BY <1>5 DEF Attribute
  <2>2. heap'.kind = heap.kind /\ heap'.parent = heap.parent BY <2>1, AttrsSound DEF DocInv
  <2> QED BY <2>1, <2>2, TextStays
<1>6. CASE mode \notin {"load", "reload"}
  <2>1. open' = <<>>
    <3>1. open = <<>> BY <1>6 DEF DocInv, ModeInv
    <3>2. open' = open
      BY <1>6 DEF Next, SkipWhiteSpace, StartElement, Attribute, NoAttribute, EndOfStartTag,
        EmptyElement, Leaf, CutLeaf, StartText, MoreText, EndText, EndElement, NoEndTag,
        ReturnNull, EndDocument, Between, Parsing, Keep, SaveAndLoad, AddChild, InsertEndChild,
        InsertBeforeChild, InsertAfterChild, ReplaceChild, RemoveNode, ClearNode, SetAttribute,
        RemoveAttribute, Edit, parserVars
    <3> QED BY <3>1, <3>2
  <2> QED BY <2>1, TextNone
<1>7. CASE mode \in {"load", "reload"}
  <2>1. \/ UNCHANGED <<heap, open>> \/ Attribute
        \/ EmptyElement \/ EndText \/ ReturnNull \/ (EndElement /\ LinkTop)
        \/ \E n \in FreeNodes(heap) : StartElement(n) \/ StartText(n) \/ Leaf(n) \/ CutLeaf(n)
    BY <1>7 DEF Next, SkipWhiteSpace, NoAttribute, EndOfStartTag, MoreText, EndElement, NoEndTag,
        EndDocument, Keep, SaveAndLoad, AddChild, InsertEndChild, InsertBeforeChild,
        InsertAfterChild, ReplaceChild, RemoveNode, ClearNode, SetAttribute, RemoveAttribute
  <2> QED BY <1>1, <1>2, <1>3, <1>4, <1>5, <2>1
<1> QED BY <1>6, <1>7

-----------------------------------------------------------------------------
(* The list of children.                                                   *)

\* s are the nodes that are met from n on along the pointers f.
Path(f, n, s) ==
  /\ s \in Seq(Addresses)
  /\ n = IF s = <<>> THEN Null ELSE s[1]
  /\ \A i \in 1 .. Len(s) : f[s[i]] = IF i = Len(s) THEN Null ELSE s[i + 1]

LEMMA PathNull ==
  ASSUME NEW f, NEW s
  PROVE  Path(f, Null, s) <=> s = <<>>
<1>1. ASSUME s \in Seq(Addresses), s # <<>> PROVE s[1] # Null
  <2>1. s[1] \in Addresses BY <1>1
  <2> QED BY <2>1, NullIsNone
<1>2. Path(f, Null, <<>>) BY DEF Path
<1> QED BY <1>1, <1>2 DEF Path

LEMMA PathCons ==
  ASSUME NEW f, NEW n \in Addresses, NEW t, Path(f, f[n], t)
  PROVE  Path(f, n, <<n>> \o t)
<1> DEFINE s == <<n>> \o t
<1>1. /\ t \in Seq(Addresses) /\ f[n] = IF t = <<>> THEN Null ELSE t[1]
      /\ \A i \in 1 .. Len(t) : f[t[i]] = IF i = Len(t) THEN Null ELSE t[i + 1]
  BY DEF Path
<1>2. /\ s \in Seq(Addresses) /\ s # <<>> /\ Len(s) = Len(t) + 1 /\ s[1] = n
      /\ \A i \in 2 .. Len(s) : s[i] = t[i - 1]
      /\ Len(t) \in Nat
  BY <1>1
<1> HIDE DEF s
<1>3. ASSUME NEW i \in 1 .. Len(s) PROVE f[s[i]] = IF i = Len(s) THEN Null ELSE s[i + 1]
  <2>1. CASE i = 1
    <3>1. t = <<>> <=> Len(t) = 0 BY <1>1
    <3>2. CASE t = <<>> BY <1>1, <1>2, <2>1, <3>1, <3>2
    <3>3. CASE t # <<>>
      <4>1. 2 \in 2 .. Len(s) /\ i # Len(s) BY <1>2, <2>1, <3>1, <3>3
      <4>2. s[2] = t[1] BY <1>2, <4>1
      <4> QED BY <1>1, <1>2, <2>1, <3>3, <4>1, <4>2
    <3> QED BY <3>2, <3>3
  <2>2. CASE i # 1
    <3>1. i \in 2 .. Len(s) /\ i - 1 \in 1 .. Len(t) /\ (i = Len(s) <=> i - 1 = Len(t))
      BY <1>2, <2>2
    <3>2. f[t[i - 1]] = IF i - 1 = Len(t) THEN Null ELSE t[i - 1 + 1] BY <1>1, <3>1
    <3>3. CASE i = Len(s) BY <1>2, <3>1, <3>2, <3>3
    <3>4. CASE i # Len(s)
      <4>1. i + 1 \in 2 .. Len(s) BY <1>2, <3>1, <3>4
      <4>2. s[i + 1] = t[i + 1 - 1] /\ i + 1 - 1 = i - 1 + 1 BY <1>2, <4>1
      <4> QED BY <1>2, <3>1, <3>2, <3>4, <4>2
    <3> QED BY <3>3, <3>4
  <2> QED BY <2>1, <2>2
<1> QED BY <1>2, <1>3 DEF Path, s

LEMMA PathTail ==
  ASSUME NEW f, NEW n \in Addresses, NEW s, Path(f, n, s)
  PROVE  \E t : s = <<n>> \o t /\ Path(f, f[n], t)
<1> DEFINE t == Tail(s)
<1>1. /\ s \in Seq(Addresses) /\ n = IF s = <<>> THEN Null ELSE s[1]
      /\ \A i \in 1 .. Len(s) : f[s[i]] = IF i = Len(s) THEN Null ELSE s[i + 1]
  BY DEF Path
<1>2. s # <<>> /\ s[1] = n BY <1>1, NullIsNone
<1>3. /\ Len(s) \in Nat /\ Len(s) >= 1 /\ t \in Seq(Addresses) /\ Len(t) = Len(s) - 1
      /\ \A i \in 1 .. Len(t) : t[i] = s[i + 1]
  BY <1>1, <1>2
<1>4. s = <<n>> \o t
  BY <1>1, <1>2
<1> HIDE DEF t
<1>5. t = <<>> <=> Len(t) = 0 BY <1>3
<1>6. f[n] = IF t = <<>> THEN Null ELSE t[1]
  BY <1>1, <1>2, <1>3, <1>5
<1>7. ASSUME NEW i \in 1 .. Len(t) PROVE f[t[i]] = IF i = Len(t) THEN Null ELSE t[i + 1]
  <2>1. i + 1 \in 1 .. Len(s) /\ (i = Len(t) <=> i + 1 = Len(s)) BY <1>3
  <2>2. f[s[i + 1]] = IF i + 1 = Len(s) THEN Null ELSE s[i + 1 + 1] BY <1>1, <2>1
  <2>3. CASE i = Len(t) BY <1>3, <2>1, <2>2, <2>3
  <2>4. CASE i # Len(t)
    <3>1. i + 1 \in 1 .. Len(t) BY <1>3, <2>4
    <3> QED BY <1>3, <2>1, <2>2, <2>4, <3>1
  <2> QED BY <2>3, <2>4
<1> QED BY <1>3, <1>4, <1>6, <1>7 DEF Path, t

LEMMA PathUnique ==
  ASSUME NEW f \in [Addresses -> Pointers], NoRing(f), NEW n \in Pointers,
         NEW s, Path(f, n, s), NEW t, Path(f, n, t)
  PROVE  s = t
<1> DEFINE S == {m \in Addresses : \E u, v : Path(f, m, u) /\ Path(f, m, v) /\ u # v}
<1>1. S = {}
  <2> SUFFICES ASSUME S # {} PROVE FALSE OBVIOUS
  <2>1. PICK m \in S : f[m] \notin S BY DEF NoRing
  <2>2. PICK u, v : Path(f, m, u) /\ Path(f, m, v) /\ u # v BY <2>1
  <2>3. PICK x, y : /\ u = <<m>> \o x /\ Path(f, f[m], x)
                    /\ v = <<m>> \o y /\ Path(f, f[m], y)
    BY <2>2, PathTail
  <2>4. x # y BY <2>2, <2>3
  <2>5. CASE f[m] = Null
    <3>1. x = <<>> /\ y = <<>> BY <2>3, <2>5, PathNull
    <3> QED BY <2>4, <3>1
  <2>6. CASE f[m] # Null
    <3>1. f[m] \in Addresses BY <2>6 DEF Pointers
    <3> QED BY <2>1, <2>3, <2>4, <3>1
  <2> QED BY <2>5, <2>6
<1>2. CASE n = Null BY <1>2, PathNull
<1>3. CASE n \in Addresses BY <1>1, <1>3
<1> QED BY <1>2, <1>3 DEF Pointers

LEMMA PathExists ==
  ASSUME NEW f \in [Addresses -> Pointers], NoRing(f), NEW n \in Pointers
  PROVE  \E s : Path(f, n, s)
<1> DEFINE S == {m \in Addresses : ~\E s : Path(f, m, s)}
<1>1. S = {}
  <2> SUFFICES ASSUME S # {} PROVE FALSE OBVIOUS
  <2>1. PICK m \in S : f[m] \notin S BY DEF NoRing
  <2>2. \E t : Path(f, f[m], t)
    <3>1. CASE f[m] = Null BY <3>1, PathNull
    <3>2. CASE f[m] \in Addresses BY <2>1, <3>2
    <3> QED BY <3>1, <3>2 DEF Pointers
  <2> QED BY <2>1, <2>2, PathCons
<1>2. CASE n = Null BY <1>2, PathNull
<1>3. CASE n \in Addresses BY <1>1, <1>3
<1> QED BY <1>2, <1>3 DEF Pointers

LEMMA ChildrenPath ==
  ASSUME NEW h, LinkType(h), NoRing(h.next), NEW p \in Addresses
  PROVE  Path(h.next, h.first[p], Children(h, p))
<1> DEFINE f == h.next
           Chain(c) == c = [n \in Pointers |-> IF n = Null THEN <<>> ELSE <<n>> \o c[h.next[n]]]
           G == [n \in Pointers |-> CHOOSE s : Path(f, n, s)]
<1>1. f \in [Addresses -> Pointers] /\ NoRing(f) BY DEF LinkType
<1>2. \A n \in Pointers : Path(f, n, G[n]) BY <1>1, PathExists
<1>3. Chain(G)
  <2>1. ASSUME NEW n \in Pointers
        PROVE  G[n] = IF n = Null THEN <<>> ELSE <<n>> \o G[f[n]]
    <3>1. CASE n = Null
      <4>1. Path(f, Null, G[n]) BY <1>2, <3>1
      <4> QED BY <3>1, <4>1, PathNull
    <3>2. CASE n # Null
      <4>1. n \in Addresses /\ f[n] \in Pointers BY <1>1, <3>2 DEF Pointers
      <4>2. Path(f, n, <<n>> \o G[f[n]]) BY <1>2, <4>1, PathCons
      <4>3. G[n] = <<n>> \o G[f[n]] BY <1>1, <1>2, <4>2, PathUnique
      <4> QED BY <3>2, <4>3
    <3> QED BY <3>1, <3>2
  <2>2. G = [n \in Pointers |-> G[n]] OBVIOUS
  <2> HIDE DEF G
  <2> QED BY <2>1, <2>2
<1>4. PICK c : Chain(c) /\ Children(h, p) = c[h.first[p]]
  <2>1. Chain(CHOOSE c : Chain(c)) BY <1>3
  <2> QED BY <2>1 DEF Children
<1> HIDE DEF G
<1>5. \A n \in Pointers : c[n] = IF n = Null THEN <<>> ELSE <<n>> \o c[f[n]] BY <1>4
<1> HIDE DEF Chain, f
<1>6. ASSUME NEW S, S = {n \in Addresses : ~Path(f, n, c[n])}, S # {} PROVE FALSE
  <2>1. PICK n \in S : f[n] \notin S BY <1>1, <1>6 DEF NoRing
  <2>2. n \in Addresses /\ n \in Pointers /\ n # Null /\ f[n] \in Pointers
    BY <1>1, <1>6, NullIsNone DEF Pointers
  <2>3. Path(f, f[n], c[f[n]])
    <3>1. CASE f[n] = Null
      <4>1. c[Null] = <<>> BY <1>5 DEF Pointers
      <4> QED BY <3>1, <4>1, PathNull
    <3>2. CASE f[n] # Null BY <1>6, <2>1, <2>2, <3>2 DEF Pointers
    <3> QED BY <3>1, <3>2
  <2>4. Path(f, n, c[n]) BY <1>5, <2>2, <2>3, PathCons
  <2> QED BY <1>6, <2>4
<1>7. h.first[p] \in Pointers BY DEF LinkType
<1>8. CASE h.first[p] = Null
  <2>1. c[Null] = <<>> BY <1>5 DEF Pointers
  <2> QED BY <1>4, <1>8, <2>1, PathNull
<1>9. CASE h.first[p] # Null
  <2>1. h.first[p] \in Addresses BY <1>7, <1>9 DEF Pointers
  <2>2. Path(f, h.first[p], c[h.first[p]]) BY <1>6, <2>1
  <2> QED BY <1>4, <2>2 DEF f
<1> QED BY <1>8, <1>9

\* Who shows the list shows the children.
LEMMA ChildrenAre ==
  ASSUME NEW h, LinkType(h), NoRing(h.next), NEW p \in Addresses,
         NEW s, Path(h.next, h.first[p], s)
  PROVE  Children(h, p) = s
BY ChildrenPath, PathUnique DEF LinkType

LEMMA LeastNumber ==
  ASSUME NEW T \in SUBSET Nat, T # {}
  PROVE  \E x \in T : \A y \in T : x <= y
<1> DEFINE Less == {ss \in Nat \X Nat : ss[1] < ss[2]}
<1>1. OpToRel(<, Nat) = Less BY DEF OpToRel
<1>2. PICK x \in T : \A y \in T : ~(<<y, x>> \in OpToRel(<, Nat))
  BY NatLessThanWellFounded, WFMin, Zenon
<1>3. \A y \in T : ~(y < x) BY <1>1, <1>2
<1> QED BY <1>3

\* s is the list of the children of p: its nodes are those with that parent, each once, but
\* for those of U, and prev leads back through it.
ListIs(h, U, p, s) ==
  /\ Path(h.next, h.first[p], s)
  /\ \A i \in 1 .. Len(s) :
       /\ s[i] \in Addresses /\ h.parent[s[i]] = p /\ s[i] \notin U
       /\ h.prev[s[i]] = IF i = 1 THEN Null ELSE s[i - 1]
  /\ \A i, j \in 1 .. Len(s) : s[i] = s[j] => i = j
  /\ \A m \in Addresses : h.parent[m] = p /\ m \notin U => \E i \in 1 .. Len(s) : s[i] = m
  /\ h.last[p] = IF s = <<>> THEN Null ELSE s[Len(s)]

LEMMA ListsAre ==
  ASSUME NEW h, NEW U, Sound(h, U), NEW p \in Addresses
  PROVE  ListIs(h, U, p, Children(h, p))
<1> DEFINE s == Children(h, p)
<1>1. /\ LinkType(h) /\ NoRing(h.next) /\ \A m \in Addresses : NodeLinked(h, U, m)
      /\ Null \notin Addresses
  BY NullIsNone DEF Sound, Linked, LinksConsistent
<1>2. Path(h.next, h.first[p], s) BY <1>1, ChildrenPath
<1> HIDE DEF s
<1>3. /\ s \in Seq(Addresses) /\ h.first[p] = IF s = <<>> THEN Null ELSE s[1]
      /\ \A i \in 1 .. Len(s) : h.next[s[i]] = IF i = Len(s) THEN Null ELSE s[i + 1]
  BY <1>2 DEF Path
<1>4. Len(s) \in Nat /\ (s = <<>> <=> Len(s) = 0) /\ \A i \in 1 .. Len(s) : s[i] \in Addresses
  BY <1>3
<1>5. \A i \in 1 .. Len(s) :
        /\ h.parent[s[i]] = p /\ s[i] \notin U
        /\ h.prev[s[i]] = IF i = 1 THEN Null ELSE s[i - 1]
  <2> DEFINE Good(i) == /\ h.parent[s[i]] = p /\ s[i] \notin U
                        /\ h.prev[s[i]] = IF i = 1 THEN Null ELSE s[i - 1]
             Bad == {i \in 1 .. Len(s) : ~Good(i)}
  <2> SUFFICES ASSUME Bad # {} PROVE FALSE OBVIOUS
  <2>1. Bad \in SUBSET Nat OBVIOUS
  <2>2. PICK i \in Bad : \A j \in Bad : i <= j BY <2>1, LeastNumber
  <2>3. i \in 1 .. Len(s) /\ ~Good(i) OBVIOUS
  <2>4. CASE i = 1
    <3>1. h.first[p] = s[1] /\ h.first[p] # Null BY <1>1, <1>3, <1>4, <2>3
    <3>2. FirstLinked(h, U, p) BY <1>1 DEF NodeLinked
    <3> QED BY <2>3, <2>4, <3>1, <3>2 DEF FirstLinked
  <2>5. CASE i # 1
    <3>1. i - 1 \in 1 .. Len(s) /\ i - 1 # Len(s) /\ i - 1 + 1 = i /\ ~(i <= i - 1)
      BY <1>4, <2>3, <2>5
    <3>2. Good(i - 1) BY <2>2, <3>1
    <3>3. h.next[s[i - 1]] = s[i] /\ s[i] # Null /\ s[i - 1] \in Addresses
      BY <1>1, <1>3, <1>4, <2>3, <3>1
    <3>4. NextLinked(h, U, s[i - 1]) BY <1>1, <3>3 DEF NodeLinked
    <3> HIDE DEF Bad
    <3> QED BY <2>3, <2>5, <3>2, <3>3, <3>4 DEF NextLinked
  <2> QED BY <2>4, <2>5
<1>6. \A i, j \in 1 .. Len(s) : s[i] = s[j] => i = j
  <2> DEFINE Bad == {i \in 1 .. Len(s) : \E j \in 1 .. Len(s) : j > i /\ s[i] = s[j]}
  <2>1. Bad = {}
    <3> SUFFICES ASSUME Bad # {} PROVE FALSE OBVIOUS
    <3>1. Bad \in SUBSET Nat OBVIOUS
    <3>2. PICK i \in Bad : \A j \in Bad : i <= j BY <3>1, LeastNumber
    <3>3. PICK j \in 1 .. Len(s) : j > i /\ s[i] = s[j] OBVIOUS
    <3>4. i \in 1 .. Len(s) OBVIOUS
    <3> HIDE DEF Bad
    <3>5. j - 1 \in 1 .. Len(s) /\ h.prev[s[j]] = s[j - 1] /\ s[j - 1] # Null
      BY <1>1, <1>4, <1>5, <3>3, <3>4
    <3>6. i # 1 /\ i - 1 \in 1 .. Len(s) /\ s[i - 1] = s[j - 1]
      BY <1>4, <1>5, <3>3, <3>4, <3>5
    <3>7. i - 1 \in Bad /\ ~(i <= i - 1)
      BY <3>3, <3>4, <3>5, <3>6 DEF Bad
    <3> QED BY <3>2, <3>7
  <2>2. \A i, j \in 1 .. Len(s) : i = j \/ i > j \/ j > i BY <1>4
  <2> QED BY <2>1, <2>2
<1>7. s # <<>> => Len(s) \in 1 .. Len(s) BY <1>4
<1>8. h.last[p] = IF s = <<>> THEN Null ELSE s[Len(s)]
  <2>1. CASE s = <<>> BY <1>1, <1>3, <2>1 DEF NodeLinked, BothEnds
  <2>2. CASE s # <<>>
    <3>1. h.next[s[Len(s)]] = Null BY <1>3, <1>7, <2>2
    <3>2. s[Len(s)] \in Addresses /\ h.parent[s[Len(s)]] = p /\ s[Len(s)] \notin U
      BY <1>4, <1>5, <1>7, <2>2
    <3> QED BY <1>1, <2>2, <3>1, <3>2 DEF NodeLinked, Listed
  <2> QED BY <2>1, <2>2
<1>9. \A m \in Addresses : h.parent[m] = p /\ m \notin U => \E i \in 1 .. Len(s) : s[i] = m
  <2> DEFINE S == {m \in Addresses : h.parent[m] = p /\ m \notin U /\ ~\E i \in 1 .. Len(s) : s[i] = m}
  <2> SUFFICES ASSUME S # {} PROVE FALSE OBVIOUS
  <2>1. PICK m \in S : h.next[m] \notin S BY <1>1 DEF NoRing
  <2>2. m \in Addresses /\ h.parent[m] = p /\ m \notin U /\ ~\E i \in 1 .. Len(s) : s[i] = m
    OBVIOUS
  <2>3. CASE h.next[m] = Null
    <3>1. h.last[p] = m BY <1>1, <2>2, <2>3 DEF NodeLinked, Listed
    <3> QED BY <1>1, <1>7, <1>8, <2>2, <3>1
  <2>4. CASE h.next[m] # Null
    <3>1. h.next[m] \in Addresses BY <1>1, <2>2, <2>4 DEF LinkType, Pointers
    <3>2. h.prev[h.next[m]] = m /\ h.parent[h.next[m]] = p /\ h.next[m] \notin U
      BY <1>1, <2>2, <2>4 DEF NodeLinked, NextLinked
    <3>3. PICK i \in 1 .. Len(s) : s[i] = h.next[m] BY <2>1, <3>1, <3>2
    <3>4. m = IF i = 1 THEN Null ELSE s[i - 1] BY <1>5, <3>2, <3>3
    <3>5. i # 1 BY <1>1, <2>2, <3>4
    <3>6. i - 1 \in 1 .. Len(s) /\ s[i - 1] = m BY <1>4, <3>4, <3>5
    <3> QED BY <2>2, <3>6
  <2> QED BY <2>3, <2>4
<1> QED BY <1>2, <1>4, <1>5, <1>6, <1>8, <1>9 DEF ListIs, s

\* What Insert and Without do, node by node.
LEMMA InsertIs ==
  ASSUME NEW s \in Seq(Addresses), NEW i \in 1 .. Len(s) + 1, NEW n \in Addresses
  PROVE  /\ Forest!Insert(s, i, n) \in Seq(Addresses) /\ Len(Forest!Insert(s, i, n)) = Len(s) + 1
         /\ \A j \in 1 .. Len(s) + 1 :
              Forest!Insert(s, i, n)[j] = IF j < i THEN s[j] ELSE IF j = i THEN n ELSE s[j - 1]
<1> DEFINE u == SubSeq(s, 1, i - 1)
           v == SubSeq(s, i, Len(s))
           w == u \o <<n>>
           t == w \o v
<1>1. Len(s) \in Nat /\ i \in Nat OBVIOUS
<1>2. /\ u \in Seq(Addresses) /\ Len(u) = i - 1 /\ \A j \in 1 .. i - 1 : u[j] = s[j]
      /\ v \in Seq(Addresses) /\ Len(v) = Len(s) - i + 1
      /\ \A j \in 1 .. Len(s) - i + 1 : v[j] = s[j + i - 1]
  BY <1>1
<1> HIDE DEF u, v
<1>3. /\ w \in Seq(Addresses) /\ Len(w) = i /\ w[i] = n
      /\ \A j \in 1 .. i - 1 : w[j] = u[j]
  BY <1>1, <1>2
<1> HIDE DEF w
<1>4. /\ t \in Seq(Addresses) /\ Len(t) = Len(s) + 1
      /\ \A j \in 1 .. i : t[j] = w[j]
      /\ \A j \in i + 1 .. Len(s) + 1 : t[j] = v[j - i]
  <2>0. w \in Seq(Addresses) /\ v \in Seq(Addresses) BY <1>2, <1>3
  <2>1. t \in Seq(Addresses) /\ Len(t) = Len(w) + Len(v) BY <2>0
  <2>2. \A j \in 1 .. Len(t) : t[j] = IF j <= Len(w) THEN w[j] ELSE v[j - Len(w)]
    BY <1>2, <1>3
  <2> HIDE DEF t
  <2>3. Len(t) = Len(s) + 1 BY <1>1, <1>2, <1>3, <2>1
  <2> QED BY <1>1, <1>3, <2>1, <2>2, <2>3
<1> HIDE DEF t
<1>5. ASSUME NEW j \in 1 .. Len(s) + 1
      PROVE  t[j] = IF j < i THEN s[j] ELSE IF j = i THEN n ELSE s[j - 1]
  <2>1. CASE j < i BY <1>1, <1>2, <1>3, <1>4, <2>1
  <2>2. CASE j = i BY <1>1, <1>3, <1>4, <2>2
  <2>3. CASE j > i
    <3>1. j - i \in 1 .. Len(s) - i + 1 /\ j \in i + 1 .. Len(s) + 1 /\ j - i + i - 1 = j - 1
      BY <1>1, <2>3
    <3> QED BY <1>1, <1>2, <1>4, <2>3, <3>1
  <2> QED BY <1>1, <2>1, <2>2, <2>3
<1>6. Forest!Insert(s, i, n) = t BY DEF Forest!Insert, t, w, u, v
<1> QED BY <1>4, <1>5, <1>6

LEMMA WithoutIs ==
  ASSUME NEW s \in Seq(Addresses), NEW i \in 1 .. Len(s)
  PROVE  /\ Forest!Without(s, i) \in Seq(Addresses) /\ Len(Forest!Without(s, i)) = Len(s) - 1
         /\ \A j \in 1 .. Len(s) - 1 :
              Forest!Without(s, i)[j] = IF j < i THEN s[j] ELSE s[j + 1]
<1> DEFINE u == SubSeq(s, 1, i - 1)
           v == SubSeq(s, i + 1, Len(s))
           t == u \o v
<1>1. Len(s) \in Nat /\ i \in Nat OBVIOUS
<1>2. /\ u \in Seq(Addresses) /\ Len(u) = i - 1 /\ \A j \in 1 .. i - 1 : u[j] = s[j]
      /\ v \in Seq(Addresses) /\ Len(v) = Len(s) - i
      /\ \A j \in 1 .. Len(s) - i : v[j] = s[j + i]
  BY <1>1
<1> HIDE DEF u, v
<1>3. /\ t \in Seq(Addresses) /\ Len(t) = Len(s) - 1
      /\ \A j \in 1 .. i - 1 : t[j] = u[j]
      /\ \A j \in i .. Len(s) - 1 : t[j] = v[j - i + 1]
  <2>0. u \in Seq(Addresses) /\ v \in Seq(Addresses) BY <1>2
  <2>1. t \in Seq(Addresses) /\ Len(t) = Len(u) + Len(v) BY <2>0
  <2>2. \A j \in 1 .. Len(t) : t[j] = IF j <= Len(u) THEN u[j] ELSE v[j - Len(u)]
    BY <1>2
  <2> HIDE DEF t
  <2>3. Len(t) = Len(s) - 1 BY <1>1, <1>2, <2>1
  <2>4. ASSUME NEW j \in i .. Len(s) - 1 PROVE t[j] = v[j - i + 1]
    <3>1. j \in 1 .. Len(t) /\ ~(j <= Len(u)) /\ j - Len(u) = j - i + 1 BY <1>1, <1>2, <2>3
    <3> QED BY <2>2, <3>1
  <2>5. \A j \in 1 .. i - 1 : j \in 1 .. Len(t) /\ j <= Len(u) BY <1>1, <1>2, <2>3
  <2> QED BY <2>1, <2>2, <2>3, <2>4, <2>5
<1> HIDE DEF t
<1>4. ASSUME NEW j \in 1 .. Len(s) - 1 PROVE t[j] = IF j < i THEN s[j] ELSE s[j + 1]
  <2>1. CASE j < i BY <1>1, <1>2, <1>3, <2>1
  <2>2. CASE j >= i
    <3>1. j - i + 1 \in 1 .. Len(s) - i /\ j \in i .. Len(s) - 1 /\ j - i + 1 + i = j + 1
      BY <1>1, <2>2
    <3> QED BY <1>1, <1>2, <1>3, <2>2, <3>1
  <2> QED BY <1>1, <2>1, <2>2
<1>5. Forest!Without(s, i) = t BY DEF Forest!Without, t, u, v
<1> QED BY <1>3, <1>4, <1>5

\* A list stays when none of its pointers changes.
LEMMA SameList ==
  ASSUME NEW h, NEW U, Sound(h, U), NEW g, LinkType(g), NoRing(g.next), NEW q \in Addresses,
         g.first[q] = h.first[q],
         \A m \in Addresses : h.parent[m] = q /\ m \notin U => g.next[m] = h.next[m]
  PROVE  Children(g, q) = Children(h, q)
<1> DEFINE s == Children(h, q)
<1>1. ListIs(h, U, q, s) BY ListsAre
<1> HIDE DEF s
<1>2. Path(g.next, g.first[q], s) BY <1>1 DEF ListIs, Path
<1> QED BY <1>2, ChildrenAre DEF s

\* A node comes between two: its parent's list has it there, the others stay.
LEMMA SpliceList ==
  ASSUME NEW h, NEW U, Sound(h, U), NEW n \in Addresses, n \in U, NEW p \in Addresses,
         NEW b \in Pointers, NEW a \in Pointers, Gap(h, U, p, b, a),
         NEW g, Spliced(h, g, p, b, a, n), NoRing(g.next),
         NEW i \in 1 .. Len(Children(h, p)) + 1,
         b = IF i = 1 THEN Null ELSE Children(h, p)[i - 1]
  PROVE  /\ Children(g, p) = Forest!Insert(Children(h, p), i, n)
         /\ \A q \in Addresses : q # p => Children(g, q) = Children(h, q)
<1> DEFINE s == Children(h, p)
           t == Forest!Insert(s, i, n)
<1>1. ListIs(h, U, p, s) BY ListsAre
<1>2. LinkType(g) /\ Null \notin Addresses /\ p # Null
      /\ \A m \in Addresses :
           /\ g.next[m] = IF m = n THEN a ELSE IF m = b THEN n ELSE h.next[m]
           /\ g.first[m] = IF m = p /\ b = Null THEN n ELSE h.first[m]
  BY NullIsNone DEF Spliced
<1>3. ASSUME NEW q \in Addresses, q # p PROVE Children(g, q) = Children(h, q)
  <2>1. g.first[q] = h.first[q] BY <1>2, <1>3
  <2>2. ASSUME NEW m \in Addresses, h.parent[m] = q, m \notin U PROVE g.next[m] = h.next[m]
    <3>1. m # n /\ m # b BY <1>2, <1>3, <2>2 DEF Gap
    <3> QED BY <1>2, <3>1
  <2> QED BY <1>2, <2>1, <2>2, SameList
<1> USE DEF s
<1>4. i \in 1 .. Len(s) + 1 /\ b = IF i = 1 THEN Null ELSE s[i - 1] OBVIOUS
<1> HIDE DEF s
<1>5. /\ s \in Seq(Addresses) /\ Len(s) \in Nat /\ (s = <<>> <=> Len(s) = 0)
      /\ h.first[p] = IF s = <<>> THEN Null ELSE s[1]
      /\ \A j \in 1 .. Len(s) :
           /\ h.next[s[j]] = IF j = Len(s) THEN Null ELSE s[j + 1]
           /\ s[j] \in Addresses /\ s[j] # n
      /\ \A j, k \in 1 .. Len(s) : s[j] = s[k] => j = k
  BY <1>1 DEF ListIs, Path
<1>6. /\ t \in Seq(Addresses) /\ Len(t) = Len(s) + 1
      /\ \A j \in 1 .. Len(s) + 1 : t[j] = IF j < i THEN s[j] ELSE IF j = i THEN n ELSE s[j - 1]
  BY <1>4, <1>5, InsertIs
<1> HIDE DEF t
<1>7. a = IF i = Len(s) + 1 THEN Null ELSE s[i]
  <2>1. CASE i = 1
    <3>1. a = h.first[p] BY <1>4, <2>1 DEF Gap
    <3> QED BY <1>4, <1>5, <2>1, <3>1
  <2>2. CASE i # 1
    <3>1. i - 1 \in 1 .. Len(s) /\ i - 1 + 1 = i /\ (i - 1 = Len(s) <=> i = Len(s) + 1)
      BY <1>4, <1>5, <2>2
    <3>2. b = s[i - 1] /\ b # Null BY <1>2, <1>4, <1>5, <2>2, <3>1
    <3>3. h.next[b] = a BY <3>2 DEF Gap
    <3> QED BY <1>5, <3>1, <3>2, <3>3
  <2> QED BY <2>1, <2>2
<1>8. Path(g.next, g.first[p], t)
  <2>1. t # <<>> BY <1>5, <1>6
  <2>2. g.first[p] = t[1]
    <3>1. CASE i = 1 BY <1>2, <1>4, <1>5, <1>6, <3>1
    <3>2. CASE i # 1
      <4>1. i - 1 \in 1 .. Len(s) /\ 1 \in 1 .. Len(s) + 1 /\ 1 < i BY <1>4, <1>5, <3>2
      <4>2. t[1] = s[1] /\ b # Null BY <1>2, <1>4, <1>5, <1>6, <3>2, <4>1
      <4> QED BY <1>2, <1>5, <4>1, <4>2
    <3> QED BY <3>1, <3>2
  <2>3. ASSUME NEW j \in 1 .. Len(t) PROVE g.next[t[j]] = IF j = Len(t) THEN Null ELSE t[j + 1]
    <3>0. j \in 1 .. Len(s) + 1 /\ Len(t) = Len(s) + 1 BY <1>6
    <3>1. CASE j = i
      <4>1. t[j] = n /\ g.next[t[j]] = a BY <1>2, <1>6, <3>0, <3>1
      <4>2. CASE j = Len(s) + 1 BY <1>7, <3>0, <3>1, <4>1, <4>2
      <4>3. CASE j # Len(s) + 1
        <5>1. j + 1 \in 1 .. Len(s) + 1 /\ ~(j + 1 < i) /\ j + 1 # i /\ j + 1 - 1 = j
          BY <1>5, <3>0, <3>1, <4>3
        <5>2. t[j + 1] = s[j] BY <1>6, <5>1
        <5> QED BY <1>7, <3>0, <3>1, <4>1, <4>3, <5>2
      <4> QED BY <4>2, <4>3
    <3>2. CASE j < i
      <4>1. j \in 1 .. Len(s) /\ j # Len(t) /\ j + 1 \in 1 .. Len(s) + 1 BY <1>4, <1>5, <3>0, <3>2
      <4>2. t[j] = s[j] BY <1>6, <3>0, <3>2
      <4>3. CASE j + 1 = i
        <5>1. b = s[j] BY <1>4, <1>5, <3>2, <4>1, <4>3
        <5>2. g.next[t[j]] = n BY <1>2, <1>5, <4>1, <4>2, <5>1
        <5>3. t[j + 1] = n BY <1>6, <4>1, <4>3
        <5> QED BY <4>1, <5>2, <5>3
      <4>4. CASE j + 1 # i
        <5>1. j + 1 < i /\ i # 1 /\ i - 1 \in 1 .. Len(s) /\ i - 1 # j /\ j # Len(s)
          BY <1>4, <1>5, <3>0, <3>2, <4>4
        <5>2. b # s[j] BY <1>4, <1>5, <4>1, <5>1
        <5>3. g.next[t[j]] = s[j + 1] BY <1>2, <1>5, <4>1, <4>2, <5>1, <5>2
        <5>4. t[j + 1] = s[j + 1] BY <1>6, <4>1, <5>1
        <5> QED BY <4>1, <5>3, <5>4
      <4> QED BY <4>3, <4>4
    <3>3. CASE j > i
      <4>1. j - 1 \in 1 .. Len(s) /\ ~(j < i) /\ j # i BY <1>4, <1>5, <3>0, <3>3
      <4>2. t[j] = s[j - 1] BY <1>6, <3>0, <4>1
      <4>3. b # s[j - 1]
        <5>1. CASE i = 1 BY <1>2, <1>4, <1>5, <4>1, <5>1
        <5>2. CASE i # 1
          <6>1. i - 1 \in 1 .. Len(s) /\ i - 1 # j - 1 BY <1>4, <1>5, <3>0, <3>3, <5>2
          <6> QED BY <1>4, <1>5, <4>1, <5>2, <6>1
        <5> QED BY <5>1, <5>2
      <4>4. g.next[t[j]] = h.next[s[j - 1]] BY <1>2, <1>5, <4>1, <4>2, <4>3
      <4>5. CASE j = Len(t)
        <5>1. j - 1 = Len(s) BY <3>0, <4>5, <1>5
        <5> QED BY <1>5, <4>1, <4>4, <4>5, <5>1
      <4>6. CASE j # Len(t)
        <5>0. i \in Nat /\ j \in Nat /\ Len(s) \in Nat BY <1>4, <1>5, <3>0
        <5>1. j \in 1 .. Len(s) /\ ~(j + 1 < i) /\ j + 1 # i
          BY <3>0, <3>3, <4>6, <5>0
        <5>4. /\ j - 1 # Len(s) /\ j + 1 \in 1 .. Len(s) + 1
              /\ j + 1 - 1 = j /\ j - 1 + 1 = j
          BY <5>0, <5>1
        <5>2. t[j + 1] = s[j] BY <1>6, <5>1, <5>4
        <5>3. h.next[s[j - 1]] = s[j] BY <1>5, <4>1, <5>4
        <5> QED BY <4>4, <4>6, <5>2, <5>3
      <4> QED BY <4>5, <4>6
    <3> QED BY <1>4, <3>0, <3>1, <3>2, <3>3
  <2> QED BY <1>6, <2>1, <2>2, <2>3 DEF Path
<1>9. Children(g, p) = t BY <1>2, <1>8, ChildrenAre
<1> QED BY <1>3, <1>9 DEF t, s

LEMMA SameSeq ==
  ASSUME NEW s \in Seq(Addresses), NEW t \in Seq(Addresses), Len(s) = Len(t),
         \A i \in 1 .. Len(s) : s[i] = t[i]
  PROVE  s = t
OBVIOUS

\* A gap is somewhere in the list.
LEMMA GapPlace ==
  ASSUME NEW h, NEW U, Sound(h, U), NEW p \in Addresses, NEW b \in Pointers, NEW a,
         Gap(h, U, p, b, a)
  PROVE  \E i \in 1 .. Len(Children(h, p)) + 1 :
           b = IF i = 1 THEN Null ELSE Children(h, p)[i - 1]
<1> DEFINE s == Children(h, p)
<1>1. ListIs(h, U, p, s) BY ListsAre
<1> HIDE DEF s
<1>2. Len(s) \in Nat BY <1>1 DEF ListIs, Path
<1>3. CASE b = Null
  <2>1. 1 \in 1 .. Len(s) + 1 BY <1>2
  <2> QED BY <1>3, <2>1 DEF s
<1>4. CASE b # Null
  <2>1. b \in Addresses /\ h.parent[b] = p /\ b \notin U BY <1>4 DEF Gap, Pointers
  <2>2. PICK j \in 1 .. Len(s) : s[j] = b BY <1>1, <2>1 DEF ListIs
  <2>3. PICK k \in 1 .. Len(s) + 1 : k # 1 /\ k - 1 = j BY <1>2
  <2>4. b = IF k = 1 THEN Null ELSE s[k - 1] BY <2>2, <2>3
  <2> QED BY <2>4 DEF s
<1> QED BY <1>3, <1>4

\* LinkEndChild: the list has one more at its end.
LEMMA EndList ==
  ASSUME NEW h, NEW U, Sound(h, U), NEW n \in Addresses, n \in U, NEW p \in Addresses,
         NoRing(LinkEndChild(h, p, n).next)
  PROVE  /\ Children(LinkEndChild(h, p, n), p) = Append(Children(h, p), n)
         /\ \A q \in Addresses : q # p => Children(LinkEndChild(h, p, n), q) = Children(h, q)
<1> DEFINE s == Children(h, p)
           g == LinkEndChild(h, p, n)
           i == Len(s) + 1
<1>1. ListIs(h, U, p, s) BY ListsAre
<1>2. LinkType(h) /\ Gap(h, U, p, h.last[p], Null) /\ h.last[p] \in Pointers /\ Null \in Pointers
  BY EndGap DEF Sound, Linked, Pointers
<1>3. Spliced(h, g, p, h.last[p], Null, n) BY <1>2, SpliceIs DEF LinkEndChild
<1> HIDE DEF g
<1> HIDE DEF s
<1>4. s \in Seq(Addresses) /\ Len(s) \in Nat /\ i \in 1 .. Len(s) + 1
  BY <1>1 DEF ListIs, Path
<1>5. h.last[p] = IF i = 1 THEN Null ELSE s[i - 1]
  <2>1. s = <<>> <=> Len(s) = 0 BY <1>4
  <2>2. h.last[p] = IF s = <<>> THEN Null ELSE s[Len(s)] BY <1>1 DEF ListIs
  <2>3. i - 1 = Len(s) /\ (i = 1 <=> s = <<>>) BY <1>4, <2>1
  <2> QED BY <2>2, <2>3
<1>6. /\ Children(g, p) = Forest!Insert(s, i, n)
      /\ \A q \in Addresses : q # p => Children(g, q) = Children(h, q)
  <2>1. NoRing(g.next) BY DEF g
  <2> HIDE DEF i
  <2> QED BY <1>2, <1>3, <1>4, <1>5, <2>1, SpliceList DEF s
<1>7. Forest!Insert(s, i, n) = Append(s, n)
  <2> DEFINE t == Append(s, n)
             u == Forest!Insert(s, i, n)
  <2>1. /\ t \in Seq(Addresses) /\ Len(t) = Len(s) + 1 /\ t[Len(s) + 1] = n
        /\ \A j \in 1 .. Len(s) : t[j] = s[j]
    BY <1>4
  <2> HIDE DEF t
  <2>2. /\ u \in Seq(Addresses) /\ Len(u) = Len(s) + 1
        /\ \A j \in 1 .. Len(s) + 1 : u[j] = IF j < i THEN s[j] ELSE IF j = i THEN n ELSE s[j - 1]
    <3> HIDE DEF i
    <3> QED BY <1>4, InsertIs
  <2> HIDE DEF u
  <2>3. ASSUME NEW j \in 1 .. Len(u) PROVE u[j] = t[j]
    <3>1. j \in 1 .. Len(s) + 1 BY <2>2
    <3>2. CASE j = Len(s) + 1 BY <2>1, <2>2, <3>1, <3>2
    <3>3. CASE j # Len(s) + 1
      <4>1. j \in 1 .. Len(s) /\ j < i BY <1>4, <3>1, <3>3
      <4> QED BY <2>1, <2>2, <3>1, <4>1
    <3> QED BY <3>2, <3>3
  <2>4. u = t BY <2>1, <2>2, <2>3, SameSeq
  <2> QED BY <2>4 DEF t, u
<1> QED BY <1>6, <1>7 DEF g, s

\* A constructor makes no list.
LEMMA NewList ==
  ASSUME NEW h, NEW U, Sound(h, U), NEW n, NEW kind, NEW p, NEW g, Made(h, g, n, kind, p),
         NEW q \in Addresses
  PROVE  Children(g, q) = Children(h, q)
<1>1. NoRing(g.next) BY DEF Sound, NoRing, Made
<1>2. LinkType(g) /\ g.first[q] = h.first[q] /\ \A m \in Addresses : g.next[m] = h.next[m]
  BY DEF Made
<1> QED BY <1>1, <1>2, SameList

\* RemoveChild: its parent's list is without it; what was below it is gone.
LEMMA RemoveList ==
  ASSUME NEW h, NEW U, Sound(h, U), NEW x \in Addresses, h.parent[x] # Null, x \notin U,
         NEW i \in 1 .. Len(Children(h, h.parent[x])), Children(h, h.parent[x])[i] = x
  PROVE  /\ Children(RemoveChild(h, x), h.parent[x]) = Forest!Without(Children(h, h.parent[x]), i)
         /\ \A q \in Subtree(h, x) : Children(RemoveChild(h, x), q) = <<>>
         /\ \A q \in Addresses : q \notin Subtree(h, x) /\ q # h.parent[x] =>
              Children(RemoveChild(h, x), q) = Children(h, q)
<1> DEFINE S == Subtree(h, x)
           p == h.parent[x]
           r == RemoveChild(h, x)
           s == Children(h, p)
           t == Forest!Without(s, i)
<1>1. /\ LinkType(h) /\ p \in Addresses /\ Null \notin Addresses
      /\ Linked(h, U) /\ NoRing(h.parent) /\ NoRing(h.next)
  BY NullIsNone DEF Sound, Linked, LinkType, Pointers
<1>2. /\ S \in SUBSET Addresses /\ x \in S /\ p \notin S
      /\ \A m \in S : m # x => h.parent[m] \in S
  BY SubtreeIs, ParentOutside, <1>1
<1>3. Bypassed(h, Unlink(h, x), x) /\ Freed(Unlink(h, x), r, S)
  BY <1>1, <1>2, UnlinkIs, FreeIs DEF RemoveChild, Bypassed
<1>4. LinkType(r) /\ NoRing(r.next) BY <1>1, <1>3, RemoveKeeps DEF Freed
<1>5. ListIs(h, U, p, s) BY <1>1, ListsAre
<1> HIDE DEF r, S
<1>6. \A m \in Addresses :
        /\ r.first[m] = IF m \in S THEN Null
                        ELSE IF m = p /\ h.prev[x] = Null THEN h.next[x] ELSE h.first[m]
        /\ r.next[m] = IF m \in S THEN Null ELSE IF m = h.prev[x] THEN h.next[x] ELSE h.next[m]
  BY <1>3 DEF Freed, Bypassed
<1>7. ASSUME NEW q \in S PROVE Children(r, q) = <<>>
  <2>1. q \in Addresses /\ Path(r.next, r.first[q], <<>>) BY <1>2, <1>6, PathNull
  <2> QED BY <1>4, <2>1, ChildrenAre
<1>8. ASSUME NEW q \in Addresses, q \notin S, q # p PROVE Children(r, q) = Children(h, q)
  <2>1. r.first[q] = h.first[q] BY <1>6, <1>8
  <2>2. ASSUME NEW m \in Addresses, h.parent[m] = q, m \notin U PROVE r.next[m] = h.next[m]
    <3>1. m \notin S BY <1>2, <1>8, <2>2
    <3>2. m # h.prev[x]
      BY <1>1, <1>8, <2>2 DEF Linked, LinksConsistent, NodeLinked, PrevLinked
    <3> QED BY <1>6, <3>1, <3>2
  <2> QED BY <1>4, <2>1, <2>2, SameList
<1> USE DEF s
<1>9. i \in 1 .. Len(s) /\ s[i] = x OBVIOUS
<1> HIDE DEF s
<1>10. /\ s \in Seq(Addresses) /\ Len(s) \in Nat
       /\ h.first[p] = IF s = <<>> THEN Null ELSE s[1]
       /\ \A j \in 1 .. Len(s) :
            /\ h.next[s[j]] = IF j = Len(s) THEN Null ELSE s[j + 1]
            /\ h.prev[s[j]] = IF j = 1 THEN Null ELSE s[j - 1]
            /\ s[j] \in Addresses /\ h.parent[s[j]] = p
       /\ \A j, k \in 1 .. Len(s) : s[j] = s[k] => j = k
  BY <1>5 DEF ListIs, Path
<1>11. s # <<>> /\ i \in Nat BY <1>9, <1>10
<1>12. /\ t \in Seq(Addresses) /\ Len(t) = Len(s) - 1
       /\ \A j \in 1 .. Len(s) - 1 : t[j] = IF j < i THEN s[j] ELSE s[j + 1]
  BY <1>9, <1>10, WithoutIs
<1> HIDE DEF t
<1>13. \A j \in 1 .. Len(s) : j # i =>
         r.next[s[j]] = IF s[j] = h.prev[x] THEN h.next[x] ELSE h.next[s[j]]
  <2> SUFFICES ASSUME NEW j \in 1 .. Len(s), j # i PROVE s[j] \notin S BY <1>6, <1>10
  <2>1. s[j] # x /\ h.parent[s[j]] = p BY <1>9, <1>10
  <2> QED BY <1>2, <2>1
<1>14. /\ h.prev[x] = IF i = 1 THEN Null ELSE s[i - 1]
       /\ h.next[x] = IF i = Len(s) THEN Null ELSE s[i + 1]
  BY <1>9, <1>10
<1>15. Path(r.next, r.first[p], t)
  <2>1. r.first[p] = IF t = <<>> THEN Null ELSE t[1]
    <3>1. t = <<>> <=> Len(s) = 1 BY <1>10, <1>11, <1>12
    <3>2. r.first[p] = IF h.prev[x] = Null THEN h.next[x] ELSE s[1]
      BY <1>1, <1>2, <1>6, <1>10, <1>11
    <3>3. CASE i = 1
      <4>1. r.first[p] = IF Len(s) = 1 THEN Null ELSE s[2] BY <1>14, <3>2, <3>3
      <4>2. Len(s) # 1 => t[1] = s[2] BY <1>9, <1>10, <1>12, <3>3
      <4> QED BY <3>1, <4>1, <4>2
    <3>4. CASE i # 1
      <4>1. i - 1 \in 1 .. Len(s) /\ Len(s) # 1 /\ 1 \in 1 .. Len(s) - 1 /\ 1 < i
        BY <1>9, <1>10, <1>11, <3>4
      <4>2. h.prev[x] # Null BY <1>1, <1>10, <1>14, <3>4, <4>1
      <4>3. t[1] = s[1] BY <1>12, <4>1
      <4> QED BY <3>1, <3>2, <4>1, <4>2, <4>3
    <3> QED BY <3>3, <3>4
  <2>2. ASSUME NEW j \in 1 .. Len(t) PROVE r.next[t[j]] = IF j = Len(t) THEN Null ELSE t[j + 1]
    <3>0. j \in 1 .. Len(s) - 1 /\ Len(t) = Len(s) - 1 /\ j \in Nat BY <1>12
    <3>1. CASE j < i - 1
      <4>1. /\ j < i /\ j + 1 < i /\ j \in 1 .. Len(s) /\ j # i - 1 /\ j + 1 \in 1 .. Len(s) - 1
            /\ j # Len(s) /\ j # Len(s) - 1 /\ i # 1 /\ i - 1 \in 1 .. Len(s) /\ j # i
        BY <1>9, <1>10, <1>11, <3>0, <3>1
      <4>2. t[j] = s[j] /\ t[j + 1] = s[j + 1] BY <1>12, <3>0, <4>1
      <4>3. s[j] # h.prev[x] BY <1>10, <1>14, <4>1
      <4> QED BY <1>10, <1>13, <3>0, <4>1, <4>2, <4>3
    <3>2. CASE j = i - 1
      <4>1. /\ j < i /\ j \in 1 .. Len(s) /\ i # 1 /\ j # i
        BY <1>9, <1>10, <1>11, <3>0, <3>2
      <4>2. t[j] = s[j] /\ s[j] = h.prev[x] BY <1>12, <1>14, <3>0, <3>2, <4>1
      <4>3. r.next[t[j]] = h.next[x] BY <1>13, <4>1, <4>2
      <4>4. CASE i = Len(s) BY <1>14, <3>0, <3>2, <4>3, <4>4
      <4>5. CASE i # Len(s)
        <5>1. i \in 1 .. Len(s) - 1 /\ ~(i < i) /\ j # Len(t) /\ j + 1 = i
          BY <1>9, <1>10, <1>11, <3>0, <3>2, <4>5
        <5>2. t[i] = s[i + 1] BY <1>12, <5>1
        <5> QED BY <1>14, <4>3, <4>5, <5>1, <5>2
      <4> QED BY <4>4, <4>5
    <3>3. CASE j >= i
      <4>1. /\ ~(j < i) /\ j + 1 \in 1 .. Len(s) /\ j + 1 # i /\ j + 1 # i - 1
            /\ (j = Len(t) <=> j + 1 = Len(s)) /\ (i # 1 => i - 1 \in 1 .. Len(s))
        BY <1>9, <1>10, <1>11, <3>0, <3>3
      <4>2. t[j] = s[j + 1] BY <1>12, <3>0, <4>1
      <4>3. s[j + 1] # h.prev[x]
        <5>1. s[j + 1] # Null BY <1>1, <1>10, <4>1
        <5> QED BY <1>10, <1>14, <4>1, <5>1
      <4>4. r.next[t[j]] = h.next[s[j + 1]] BY <1>13, <4>1, <4>2, <4>3
      <4>5. CASE j = Len(t) BY <1>10, <4>1, <4>4, <4>5
      <4>6. CASE j # Len(t)
        <5>1. j + 1 \in 1 .. Len(s) - 1 /\ ~(j + 1 < i) BY <1>9, <1>10, <1>11, <3>0, <3>3, <4>6
        <5>2. t[j + 1] = s[j + 1 + 1] BY <1>12, <5>1
        <5> QED BY <1>10, <4>1, <4>4, <4>6, <5>2
      <4> QED BY <4>5, <4>6
    <3>4. j < i - 1 \/ j = i - 1 \/ j >= i BY <1>11, <3>0
    <3> QED BY <3>1, <3>2, <3>3, <3>4
  <2> QED BY <1>12, <2>1, <2>2 DEF Path
<1>16. Children(r, p) = t BY <1>1, <1>4, <1>15, ChildrenAre
<1> QED BY <1>7, <1>8, <1>16 DEF r, s, S, t

\* Clear: the list of p and those below it are empty.
LEMMA ClearList ==
  ASSUME NEW h, Sound(h, {}), NEW p \in Addresses
  PROVE  /\ \A q \in Subtree(h, p) : Children(Clear(h, p), q) = <<>>
         /\ \A q \in Addresses : q \notin Subtree(h, p) =>
              Children(Clear(h, p), q) = Children(h, q)
<1> DEFINE S == Subtree(h, p)
           f == Free(h, S \ {p})
           r == Clear(h, p)
<1>1. /\ LinkType(h) /\ Linked(h, {}) /\ NoRing(h.parent) /\ NoRing(h.next)
  BY DEF Sound, Linked
<1>2. /\ S \in SUBSET Addresses /\ p \in S
      /\ \A m \in S : m # p => h.parent[m] \in S
  BY SubtreeIs
<1>3. LinkType(r) /\ NoRing(r.next) BY <1>1, ClearKeeps DEF Linked
<1>4. Freed(h, f, S \ {p}) BY <1>1, <1>2, FreeIs
<1>5. /\ r.next = f.next
      /\ \A m \in Addresses : r.first[m] = IF m = p THEN Null ELSE f.first[m]
  <2>1. r = [f EXCEPT !.first = [@ EXCEPT ![p] = Null], !.last = [@ EXCEPT ![p] = Null]]
    BY DEF Clear
  <2>2. LinkType(f) BY <1>4 DEF Freed
  <2> HIDE DEF f, r
  <2> QED BY <2>1, <2>2 DEF LinkType
<1> HIDE DEF f, r, S
<1>6. ASSUME NEW q \in S PROVE Children(r, q) = <<>>
  <2>1. q \in Addresses /\ r.first[q] = Null BY <1>2, <1>4, <1>5 DEF Freed
  <2>2. Path(r.next, r.first[q], <<>>) BY <2>1, PathNull
  <2> QED BY <1>3, <2>1, <2>2, ChildrenAre
<1>7. ASSUME NEW q \in Addresses, q \notin S PROVE Children(r, q) = Children(h, q)
  <2>1. r.first[q] = h.first[q] BY <1>2, <1>4, <1>5, <1>7 DEF Freed
  <2>2. ASSUME NEW m \in Addresses, h.parent[m] = q PROVE r.next[m] = h.next[m]
    <3>1. m \notin S \ {p} BY <1>2, <1>7, <2>2
    <3> QED BY <1>4, <1>5, <3>1 DEF Freed
  <2> QED BY <1>1, <1>3, <2>1, <2>2, SameList
<1> QED BY <1>6, <1>7 DEF r, S

\* Clone: the copies have the copies as children.
LEMMA CloneList ==
  ASSUME NEW h, Sound(h, {}), NEW src \in Addresses, h.kind[src] # "free",
         NEW f \in Rooms(h, src), NEW g, Cloned(h, g, src, f)
  PROVE  /\ \A q \in Subtree(h, src) :
              Children(g, f[q]) = [j \in DOMAIN Children(h, q) |-> f[Children(h, q)[j]]]
         /\ \A q \in Addresses : (\A k \in Subtree(h, src) : f[k] # q) =>
              Children(g, q) = Children(h, q)
<1> DEFINE S == Subtree(h, src)
<1>1. /\ LinkType(h) /\ Linked(h, {}) /\ NoRing(h.parent) /\ NoRing(h.next)
      /\ Null \notin Addresses
  BY NullIsNone DEF Sound, Linked
<1>2. /\ S \in SUBSET Addresses /\ src \in S /\ h.parent[src] \notin S
      /\ \A m \in Addresses : h.parent[m] \in S => m \in S
  BY <1>1, SubtreeIs, ParentOutside DEF Closed
<1>3. LinkType(g) /\ NoRing(g.next)
  <2>1. Copied(h, g, {f[k] : k \in S}, f[src]) BY <1>1, CloneKeeps
  <2> QED BY <2>1 DEF Copied, Linked
<1>4. /\ f \in [S -> FreeNodes(h)] /\ \A k \in S : f[k] \in Addresses /\ h.kind[f[k]] = "free"
  BY NullIsNone DEF Rooms, Injections, FreeNodes
<1>5. ASSUME NEW k \in S
      PROVE  /\ g.first[f[k]] = IF h.first[k] = Null THEN Null ELSE f[h.first[k]]
             /\ k # src => g.next[f[k]] = IF h.next[k] = Null THEN Null ELSE f[h.next[k]]
  BY DEF Cloned
<1>6. ASSUME NEW m \in Addresses, \A k \in S : f[k] # m
      PROVE  g.first[m] = h.first[m] /\ g.next[m] = h.next[m]
  BY <1>6 DEF Cloned
<1> HIDE DEF S
<1>7. ASSUME NEW q \in S
      PROVE  Children(g, f[q]) = [j \in DOMAIN Children(h, q) |-> f[Children(h, q)[j]]]
  <2> DEFINE s == Children(h, q)
             t == [j \in DOMAIN s |-> f[s[j]]]
  <2>1. q \in Addresses BY <1>2
  <2>2. ListIs(h, {}, q, s) BY <2>1, ListsAre
  <2> HIDE DEF s
  <2>3. /\ s \in Seq(Addresses) /\ Len(s) \in Nat /\ DOMAIN s = 1 .. Len(s)
        /\ h.first[q] = IF s = <<>> THEN Null ELSE s[1]
        /\ \A j \in 1 .. Len(s) :
             /\ h.next[s[j]] = IF j = Len(s) THEN Null ELSE s[j + 1]
             /\ s[j] \in Addresses /\ h.parent[s[j]] = q
    BY <2>2 DEF ListIs, Path
  <2>4. ASSUME NEW j \in 1 .. Len(s)
        PROVE  s[j] \in S /\ s[j] # src /\ s[j] # Null /\ f[s[j]] \in Addresses
    <3>1. s[j] \in Addresses /\ h.parent[s[j]] = q BY <2>3
    <3> QED BY <1>1, <1>2, <1>4, <3>1
  <2>5. t \in Seq(Addresses) /\ Len(t) = Len(s) /\ \A j \in 1 .. Len(s) : t[j] = f[s[j]]
    <3>1. t = [j \in 1 .. Len(s) |-> f[s[j]]] /\ Len(s) \in Nat BY <2>3
    <3>2. \A j \in 1 .. Len(s) : f[s[j]] \in Addresses BY <2>4
    <3> QED BY <3>1, <3>2
  <2> HIDE DEF t
  <2>6. (t = <<>> <=> Len(t) = 0) /\ (s = <<>> <=> Len(s) = 0)
    <3>1. s \in Seq(Addresses) /\ t \in Seq(Addresses) BY <2>3, <2>5
    <3> QED BY <3>1
  <2>7. g.first[f[q]] = IF t = <<>> THEN Null ELSE t[1]
    <3>1. CASE s = <<>> BY <1>5, <2>3, <2>5, <2>6, <3>1
    <3>2. CASE s # <<>>
      <4>1. 1 \in 1 .. Len(s) BY <2>3, <2>6, <3>2
      <4>2. h.first[q] = s[1] /\ s[1] # Null /\ t[1] = f[s[1]] BY <2>3, <2>4, <2>5, <3>2, <4>1
      <4> QED BY <1>5, <2>5, <2>6, <3>2, <4>2
    <3> QED BY <3>1, <3>2
  <2>8. ASSUME NEW j \in 1 .. Len(t) PROVE g.next[t[j]] = IF j = Len(t) THEN Null ELSE t[j + 1]
    <3>1. j \in 1 .. Len(s) BY <2>5
    <3>2. g.next[t[j]] = IF h.next[s[j]] = Null THEN Null ELSE f[h.next[s[j]]]
      BY <1>5, <2>4, <2>5, <3>1
    <3>3. CASE j = Len(s) BY <2>3, <2>5, <3>1, <3>2, <3>3
    <3>4. CASE j # Len(s)
      <4>0. Len(s) \in Nat BY <2>3
      <4>1. j + 1 \in 1 .. Len(s) BY <3>1, <3>4, <4>0
      <4>2. h.next[s[j]] = s[j + 1] /\ s[j + 1] # Null /\ t[j + 1] = f[s[j + 1]]
        BY <2>3, <2>4, <2>5, <3>1, <3>4, <4>1
      <4> QED BY <2>5, <3>2, <3>4, <4>2
    <3> QED BY <3>3, <3>4
  <2>9. Path(g.next, g.first[f[q]], t) BY <2>5, <2>7, <2>8 DEF Path
  <2>10. f[q] \in Addresses BY <1>4
  <2>11. Children(g, f[q]) = t BY <1>3, <2>9, <2>10, ChildrenAre
  <2> QED BY <2>11 DEF s, t
<1>8. ASSUME NEW q \in Addresses, \A k \in S : f[k] # q PROVE Children(g, q) = Children(h, q)
  <2>1. g.first[q] = h.first[q] BY <1>6, <1>8
  <2>2. ASSUME NEW m \in Addresses, h.parent[m] = q PROVE g.next[m] = h.next[m]
    <3>1. h.kind[m] # "free"
      BY <1>1, <2>2 DEF Linked, LinksConsistent, NodeLinked, FreeBlank
    <3>2. \A k \in S : f[k] # m BY <1>4, <3>1
    <3> QED BY <1>6, <3>2
  <2> QED BY <1>1, <1>3, <2>1, <2>2, SameList
<1> QED BY <1>7, <1>8 DEF S

-----------------------------------------------------------------------------
(* The forest that a heap stands for.                                      *)

\* The children of p: all that have it as parent, but for those whose Parse has not returned.
LEMMA ElementsAre ==
  ASSUME NEW h, NEW U, Sound(h, U), NEW p \in Addresses
  PROVE  /\ Children(h, p) \in Seq(Addresses)
         /\ DOMAIN Children(h, p) = 1 .. Len(Children(h, p))
         /\ Forest!Elements(Children(h, p)) = {m \in Addresses : h.parent[m] = p /\ m \notin U}
<1> DEFINE s == Children(h, p)
<1>1. ListIs(h, U, p, s) BY ListsAre
<1> HIDE DEF s
<1>2. s \in Seq(Addresses) /\ DOMAIN s = 1 .. Len(s) BY <1>1 DEF ListIs, Path
<1>3. \A m : m \in Forest!Elements(s) <=> \E i \in 1 .. Len(s) : s[i] = m
  BY <1>2 DEF Forest!Elements
<1>4. Forest!Elements(s) = {m \in Addresses : h.parent[m] = p /\ m \notin U}
  BY <1>1, <1>3 DEF ListIs
<1> QED BY <1>2, <1>4 DEF s

\* What is below a node in the forest is below it in the heap; the rest of that is not in
\* its list yet.
LEMMA BelowIs ==
  ASSUME NEW U, Sound(heap, U), NEW n \in Addresses
  PROVE  /\ Forest!Below(n) \subseteq Subtree(heap, n)
         /\ U = {} => Forest!Below(n) = Subtree(heap, n)
<1> DEFINE kids == [p \in Addresses |-> Children(heap, p)]
           child == UNION {{<<p, m>> : m \in Forest!Elements(kids[p])} : p \in Addresses}
           Kept(S) == \A c \in child : c[1] \in S => c[2] \in S
           closed == {S \in SUBSET Addresses : n \in S /\ Kept(S)}
<1>1. Forest!Below(n) = {m \in Addresses : \A S \in closed : m \in S}
  BY DEF Forest!Below, Forest!Addresses, Addresses
<1>2. \A p \in Addresses :
        Forest!Elements(kids[p]) = {m \in Addresses : heap.parent[m] = p /\ m \notin U}
  BY ElementsAre
<1> HIDE DEF kids
<1>3. \A c : c \in child <=> \E p, m \in Addresses : c = <<p, m>> /\ heap.parent[m] = p /\ m \notin U
  BY <1>2
<1> HIDE DEF child
<1>4. ASSUME NEW S \in SUBSET Addresses
      PROVE  Kept(S) <=> \A m \in Addresses : heap.parent[m] \in S /\ m \notin U => m \in S
  <2>1. ASSUME Kept(S), NEW m \in Addresses, heap.parent[m] \in S, m \notin U PROVE m \in S
    <3>1. <<heap.parent[m], m>> \in child BY <1>3, <2>1
    <3> QED BY <2>1, <3>1
  <2>2. ASSUME \A m \in Addresses : heap.parent[m] \in S /\ m \notin U => m \in S PROVE Kept(S)
    BY <1>3, <2>2
  <2> QED BY <2>1, <2>2
<1> HIDE DEF Kept
<1>5. Closed(heap, Subtree(heap, n)) /\ Subtree(heap, n) \in SUBSET Addresses /\ n \in Subtree(heap, n)
  BY SubtreeIs
<1>6. Subtree(heap, n) \in closed BY <1>4, <1>5 DEF Closed
<1>7. U = {} => \A S \in closed : Closed(heap, S) /\ S \in SUBSET Addresses /\ n \in S
  BY <1>4 DEF Closed
<1>8. Forest!Below(n) \subseteq Subtree(heap, n) BY <1>1, <1>6
<1>9. ASSUME U = {} PROVE Subtree(heap, n) \subseteq Forest!Below(n)
  BY <1>1, <1>5, <1>7, <1>9 DEF Subtree
<1> QED BY <1>8, <1>9

\* The names that nodes have, and who is deleted has none any more.
AllNames == Names \cup {"", Text.name}

Named(h) ==
  /\ h.name \in [Addresses -> AllNames]
  /\ \A n \in Addresses : h.kind[n] = "free" => h.name[n] = ""

LEMMA NewNamed ==
  ASSUME NEW h, LinkType(h), Named(h), NEW n \in Addresses, NEW kind \in Kinds, kind # "free",
         NEW name \in AllNames, NEW p \in Pointers
  PROVE  /\ Named(New(h, n, kind, name, p))
         /\ \A m \in Addresses : New(h, n, kind, name, p).name[m] = IF m = n THEN name ELSE h.name[m]
<1> DEFINE g == New(h, n, kind, name, p)
<1>1. g.name = [h.name EXCEPT ![n] = name] BY DEF New, LinkType
<1>2. Made(h, g, n, kind, p) BY NewIs
<1> HIDE DEF g
<1>3. /\ g.name \in [Addresses -> AllNames]
      /\ \A m \in Addresses : g.name[m] = IF m = n THEN name ELSE h.name[m]
  <2>1. h.name \in [Addresses -> AllNames] BY DEF Named
  <2>2. g.name \in [Addresses -> AllNames] BY <1>1, <2>1
  <2> QED BY <1>1, <2>1, <2>2
<1>4. \A m \in Addresses : g.kind[m] = IF m = n THEN kind ELSE h.kind[m] BY <1>2 DEF Made
<1>5. Named(g) BY <1>3, <1>4 DEF Named
<1> QED BY <1>3, <1>5 DEF g

LEMMA SpliceNamed ==
  ASSUME NEW h, LinkType(h), Named(h), NEW p \in Addresses, NEW b \in Pointers, NEW a \in Pointers,
         NEW n \in Addresses
  PROVE  Named(Splice(h, p, b, a, n)) /\ Splice(h, p, b, a, n).name = h.name
<1> DEFINE g == Splice(h, p, b, a, n)
<1>1. g.name = h.name BY DEF Splice, LinkType
<1>2. Spliced(h, g, p, b, a, n) BY SpliceIs
<1> HIDE DEF g
<1>3. Named(g) BY <1>1, <1>2 DEF Named, Spliced
<1> QED BY <1>1, <1>3 DEF g

LEMMA FreeNamed ==
  ASSUME NEW h, LinkType(h), Named(h), NEW S \in SUBSET Addresses
  PROVE  /\ Named(Free(h, S))
         /\ \A m \in Addresses : Free(h, S).name[m] = IF m \in S THEN "" ELSE h.name[m]
<1> DEFINE g == Free(h, S)
<1>1. g.name = [m \in Addresses |-> IF m \in S THEN "" ELSE h.name[m]] BY DEF Free
<1>2. Freed(h, g, S) BY FreeIs
<1> HIDE DEF g
<1>3. /\ g.name \in [Addresses -> AllNames]
      /\ \A m \in Addresses : g.name[m] = IF m \in S THEN "" ELSE h.name[m]
  <2>1. h.name \in [Addresses -> AllNames] BY DEF Named
  <2>2. ASSUME NEW m \in Addresses PROVE (IF m \in S THEN "" ELSE h.name[m]) \in AllNames
    <3>1. "" \in AllNames BY DEF AllNames
    <3>2. h.name[m] \in AllNames BY <2>1
    <3> QED BY <3>1, <3>2
  <2>3. g.name \in [Addresses -> AllNames] BY <1>1, <2>2
  <2> QED BY <1>1, <2>3
<1>4. Named(g) BY <1>2, <1>3 DEF Named, Freed
<1> QED BY <1>3, <1>4 DEF g

LEMMA CloneNamed ==
  ASSUME NEW h, Linked(h, {}), Named(h), NoRing(h.parent), NEW src \in Addresses,
         NEW f \in Rooms(h, src)
  PROVE  /\ Named(Clone(h, src, f))
         /\ \A k \in Subtree(h, src) : Clone(h, src, f).name[f[k]] = h.name[k]
         /\ \A m \in Addresses : (\A k \in Subtree(h, src) : f[k] # m) =>
              Clone(h, src, f).name[m] = h.name[m]
<1> DEFINE S == Subtree(h, src)
           Copy == {f[k] : k \in DOMAIN f}
           From(m) == CHOOSE k \in DOMAIN f : f[k] = m
           g == Clone(h, src, f)
<1>1. /\ DOMAIN f = S /\ S \subseteq Addresses
      /\ \A k \in S : f[k] \in Addresses
      /\ \A j, k \in S : f[j] = f[k] => j = k
  BY SubtreeIs, NullIsNone DEF Rooms, Injections, FreeNodes
<1>2. /\ \A k \in S : f[k] \in Copy /\ From(f[k]) = k
      /\ \A m \in Copy : From(m) \in S /\ f[From(m)] = m
  BY <1>1
<1>3. g.name = [m \in Addresses |-> IF m \in Copy THEN h.name[From(m)] ELSE h.name[m]]
  BY DEF Clone
<1>4. Cloned(h, g, src, f) BY CloneIs
<1>5. \A m \in Addresses : (\A k \in S : f[k] # m) => m \notin Copy BY <1>1
<1> HIDE DEF g, From, Copy, S
<1>6. /\ g.name \in [Addresses -> AllNames]
      /\ \A k \in S : g.name[f[k]] = h.name[k]
      /\ \A m \in Addresses : (\A k \in S : f[k] # m) => g.name[m] = h.name[m]
  <2>1. \A m \in Addresses : m \in Copy => From(m) \in Addresses BY <1>1, <1>2
  <2>2. h.name \in [Addresses -> AllNames] BY DEF Named
  <2>3. g.name \in [Addresses -> AllNames] BY <1>3, <2>1, <2>2
  <2> QED BY <1>1, <1>2, <1>3, <1>5, <2>3
<1>7. ASSUME NEW m \in Addresses, g.kind[m] = "free" PROVE g.name[m] = ""
  <2>1. CASE \E k \in S : f[k] = m
    <3>1. PICK k \in S : f[k] = m BY <2>1
    <3>2. g.kind[m] = h.kind[k] BY <1>4, <3>1 DEF Cloned, S
    <3>3. h.kind[k] = "free" /\ k \in Addresses BY <1>1, <1>7, <3>2
    <3> QED BY <1>6, <3>1, <3>3 DEF Named
  <2>2. CASE \A k \in S : f[k] # m
    <3>1. g.kind[m] = h.kind[m] BY <1>4, <2>2 DEF Cloned, S
    <3> QED BY <1>6, <1>7, <2>2, <3>1 DEF Named
  <2> QED BY <2>1, <2>2
<1>8. Named(g) BY <1>6, <1>7 DEF Named
<1> QED BY <1>6, <1>8 DEF g, S

LEMMA RemoveNamed ==
  ASSUME NEW h, LinkType(h), Named(h), NEW x \in Addresses
  PROVE  /\ Named(RemoveChild(h, x))
         /\ \A m \in Addresses :
              /\ RemoveChild(h, x).kind[m] = IF m \in Subtree(h, x) THEN "free" ELSE h.kind[m]
              /\ RemoveChild(h, x).name[m] = IF m \in Subtree(h, x) THEN "" ELSE h.name[m]
<1> DEFINE u == Unlink(h, x)
           S == Subtree(h, x)
<1>1. u.name = h.name BY DEF Unlink, LinkType
<1>2. Bypassed(h, u, x) BY UnlinkIs
<1>3. RemoveChild(h, x) = Free(u, S) /\ S \in SUBSET Addresses BY SubtreeIs DEF RemoveChild
<1> HIDE DEF u, S
<1>4. LinkType(u) /\ Named(u) /\ \A m \in Addresses : u.kind[m] = h.kind[m]
  BY <1>1, <1>2 DEF Bypassed, Named
<1>5. Named(Free(u, S)) /\ Freed(u, Free(u, S), S)
  BY <1>3, <1>4, FreeNamed, FreeIs
<1>6. ASSUME NEW m \in Addresses
      PROVE  /\ Free(u, S).kind[m] = IF m \in S THEN "free" ELSE h.kind[m]
             /\ Free(u, S).name[m] = IF m \in S THEN "" ELSE h.name[m]
  <2>1. Free(u, S).name[m] = IF m \in S THEN "" ELSE h.name[m]
    <3>1. \A k \in Addresses : Free(u, S).name[k] = IF k \in S THEN "" ELSE u.name[k]
      BY <1>3, <1>4, FreeNamed
    <3> QED BY <1>1, <3>1
  <2>2. Free(u, S).kind[m] = IF m \in S THEN "free" ELSE h.kind[m] BY <1>4, <1>5 DEF Freed
  <2> QED BY <2>1, <2>2
<1> QED BY <1>3, <1>5, <1>6 DEF S

\* What is below p is free.
Wiped(h, g, p) ==
  \A m \in Addresses :
    /\ g.kind[m] = IF m \in Subtree(h, p) \ {p} THEN "free" ELSE h.kind[m]
    /\ g.name[m] = IF m \in Subtree(h, p) \ {p} THEN "" ELSE h.name[m]

LEMMA ClearNamed ==
  ASSUME NEW h, LinkType(h), Named(h), NEW p \in Addresses
  PROVE  Named(Clear(h, p)) /\ Wiped(h, Clear(h, p), p)
<1> DEFINE S == Subtree(h, p) \ {p}
           f == Free(h, S)
           r == Clear(h, p)
<1>1. S \in SUBSET Addresses BY SubtreeIs
<1>2. Freed(h, f, S) /\ Named(f) /\ \A m \in Addresses : f.name[m] = IF m \in S THEN "" ELSE h.name[m]
  BY <1>1, FreeIs, FreeNamed
<1>3. r.kind = f.kind /\ r.name = f.name
  <2>1. r = [f EXCEPT !.first = [@ EXCEPT ![p] = Null], !.last = [@ EXCEPT ![p] = Null]]
    BY DEF Clear
  <2>2. LinkType(f) BY <1>2 DEF Freed
  <2> HIDE DEF f, r
  <2> QED BY <2>1, <2>2 DEF LinkType
<1> HIDE DEF f, r, S
<1>4. Named(r) BY <1>2, <1>3 DEF Named
<1>5. \A m \in Addresses : r.kind[m] = IF m \in S THEN "free" ELSE h.kind[m]
  BY <1>2, <1>3 DEF Freed
<1>6. Wiped(h, r, p) BY <1>2, <1>3, <1>5 DEF Wiped, S
<1> QED BY <1>4, <1>6 DEF r

LabelsOf(h) == [n \in Addresses |-> <<h.kind[n], h.name[n]>>]
KidsOf(h) == [n \in Addresses |-> Children(h, n)]

LEMMA LabelIs ==
  ASSUME NEW h, Named(h), NEW m \in Addresses
  PROVE  LabelsOf(h)[m] = <<h.kind[m], h.name[m]>> /\ (LabelsOf(h)[m] = Forest!Dead <=> h.kind[m] = "free")
BY DEF LabelsOf, Forest!Dead, Named

LEMMA MadeIs ==
  ASSUME Named(heap), Named(heap')
  PROVE  Forest!Made = {m \in Nodes : heap.kind[m] = "free" /\ heap'.kind[m] # "free"}
<1>1. \A m \in Nodes : /\ LabelsOf(heap)[m] = Forest!Dead <=> heap.kind[m] = "free"
                       /\ LabelsOf(heap')[m] = Forest!Dead <=> heap'.kind[m] = "free"
  BY LabelIs, NullIsNone
<1>2. Forest!Made = {m \in Nodes : LabelsOf(heap)[m] = Forest!Dead /\ LabelsOf(heap')[m] # Forest!Dead}
  BY DEF Forest!Made, LabelsOf
<1> QED BY <1>1, <1>2

\* A node is made that is in no list: Parse is called.
LEMMA CreateStep ==
  ASSUME NEW U, Sound(heap, U), Named(heap), NEW n \in FreeNodes(heap),
         NEW kind \in Kinds \ {"free", "document"}, NEW name \in AllNames, NEW p \in Pointers,
         heap' = New(heap, n, kind, name, p)
  PROVE  Forest!Next /\ Named(heap')
<1>1. /\ n \in Nodes /\ n \in Addresses /\ heap.kind[n] = "free" /\ kind # "free" /\ kind \in Kinds
      /\ LinkType(heap)
  BY NullIsNone DEF FreeNodes, Sound, Linked
<1>2. /\ Named(heap')
      /\ \A m \in Addresses : heap'.name[m] = IF m = n THEN name ELSE heap.name[m]
  BY <1>1, NewNamed
<1>3. Made(heap, heap', n, kind, p) BY <1>1, NewIs
<1>4. \A m \in Addresses : heap'.kind[m] = IF m = n THEN kind ELSE heap.kind[m] BY <1>3 DEF Made
<1>5. Forest!Made = {n} BY <1>1, <1>2, <1>4, MadeIs, NullIsNone
<1>6. LabelsOf(heap')[n] = <<kind, name>> BY <1>1, <1>2, <1>4 DEF LabelsOf
<1>7. LabelsOf(heap') = [LabelsOf(heap) EXCEPT ![n] = LabelsOf(heap')[n]]
  BY <1>1, <1>2, <1>4, <1>6 DEF LabelsOf
<1>8. KidsOf(heap') = KidsOf(heap)
  <2>1. \A q \in Addresses : Children(heap', q) = Children(heap, q) BY <1>3, NewList
  <2> QED BY <2>1 DEF KidsOf
<1>9. LabelsOf(heap')[n] \in (Kinds \ {"free", "document"}) \X AllNames
  BY <1>6
<1>10. Forest!Create(n) BY <1>5, <1>7, <1>8, <1>9 DEF Forest!Create, LabelsOf, KidsOf, AllNames
<1> QED BY <1>2, <1>5, <1>10 DEF Forest!Next

\* A node that was made comes to the end of a list: Parse has returned.
LEMMA AttachStep ==
  ASSUME NEW U, Sound(heap, U), Named(heap), NEW n \in Nodes, n \in U, heap.kind[n] # "free",
         NEW p \in Addresses, heap.kind[p] # "free", heap.parent[n] = p,
         heap' = LinkEndChild(heap, p, n)
  PROVE  Forest!Next /\ Named(heap')
<1>1. n \in Addresses /\ n # Doc /\ LinkType(heap) /\ Linked(heap, U) /\ NoRing(heap.parent)
  BY NullIsNone DEF Sound, Linked
<1>2. Gap(heap, U, p, heap.last[p], Null) /\ heap.last[p] \in Pointers /\ Null \in Pointers
  BY <1>1, EndGap DEF Pointers
<1>3. Named(heap') /\ heap'.name = heap.name BY <1>1, <1>2, SpliceNamed DEF LinkEndChild
<1>4. Spliced(heap, heap', p, heap.last[p], Null, n) BY <1>1, <1>2, SpliceIs DEF LinkEndChild
<1>5. \A m \in Addresses : heap'.kind[m] = heap.kind[m] BY <1>4 DEF Spliced
<1>6. LabelsOf(heap') = LabelsOf(heap) BY <1>3, <1>5 DEF LabelsOf
<1>7. Forest!Made = {} BY <1>3, <1>5, MadeIs, NullIsNone
<1>8. NoRing(heap'.next) BY EndSound DEF Sound
<1>9. KidsOf(heap') = [KidsOf(heap) EXCEPT ![p] = Append(@, n)]
  <2>1. /\ Children(heap', p) = Append(Children(heap, p), n)
        /\ \A q \in Addresses : q # p => Children(heap', q) = Children(heap, q)
    BY <1>1, <1>8, EndList
  <2> QED BY <2>1 DEF KidsOf
<1>10. LabelsOf(heap)[n] # Forest!Dead /\ LabelsOf(heap)[p] # Forest!Dead BY <1>1, LabelIs
<1>11. Forest!Parents(n) = {}
  <2>1. \A q \in Addresses : n \notin Forest!Elements(Children(heap, q)) BY ElementsAre
  <2> QED BY <2>1 DEF Forest!Parents, Forest!Addresses, Addresses
<1>12. p \notin Forest!Below(n) BY <1>1, BelowIs, ParentOutside
<1>13. Forest!Attach(p, n)
  BY <1>1, <1>6, <1>9, <1>10, <1>11, <1>12 DEF Forest!Attach, Forest!Detached, LabelsOf, KidsOf
<1> QED BY <1>3, <1>7, <1>13 DEF Forest!Next, Forest!Addresses, Addresses

\* A node is made and comes to the end of a list at once.
LEMMA CreateAttachedStep ==
  ASSUME NEW U, Sound(heap, U), Named(heap), NEW n \in FreeNodes(heap),
         NEW kind \in Kinds \ {"free", "document"}, NEW name \in AllNames,
         NEW p \in Addresses, heap.kind[p] # "free", NEW above \in {p, Null},
         heap' = LinkEndChild(New(heap, n, kind, name, above), p, n), NoRing(heap'.next)
  PROVE  Forest!Next /\ Named(heap')
<1> DEFINE g == New(heap, n, kind, name, above)
<1>1. /\ n \in Nodes /\ n \in Addresses /\ heap.kind[n] = "free" /\ kind # "free" /\ kind \in Kinds
      /\ LinkType(heap) /\ p # n /\ above \in Pointers
      /\ above # Null => heap.kind[above] # "free"
  BY NullIsNone DEF FreeNodes, Sound, Linked, Pointers
<1>2. /\ Named(g)
      /\ \A m \in Addresses : g.name[m] = IF m = n THEN name ELSE heap.name[m]
  BY <1>1, NewNamed
<1>3. Sound(g, U \cup {n}) /\ Made(heap, g, n, kind, above) BY <1>1, NewSound
<1>4. heap' = LinkEndChild(g, p, n) OBVIOUS
<1> HIDE DEF g
<1>5. LinkType(g) /\ g.last[p] \in Pointers /\ Null \in Pointers
  BY <1>3 DEF Sound, Linked, LinkType, Pointers
<1>6. Named(heap') /\ heap'.name = g.name BY <1>1, <1>2, <1>4, <1>5, SpliceNamed DEF LinkEndChild
<1>7. Spliced(g, heap', p, g.last[p], Null, n) BY <1>1, <1>4, <1>5, SpliceIs DEF LinkEndChild
<1>8. \A m \in Addresses : heap'.kind[m] = IF m = n THEN kind ELSE heap.kind[m]
  BY <1>3, <1>7 DEF Made, Spliced
<1>9. Forest!Made = {n} BY <1>1, <1>6, <1>8, MadeIs, NullIsNone
<1>10. LabelsOf(heap')[n] = <<kind, name>> BY <1>1, <1>2, <1>6, <1>8 DEF LabelsOf
<1>11. LabelsOf(heap') = [LabelsOf(heap) EXCEPT ![n] = LabelsOf(heap')[n]]
  BY <1>1, <1>2, <1>6, <1>8, <1>10 DEF LabelsOf
<1>12. KidsOf(heap') = [KidsOf(heap) EXCEPT ![p] = Append(@, n)]
  <2>1. /\ Children(heap', p) = Append(Children(g, p), n)
        /\ \A q \in Addresses : q # p => Children(heap', q) = Children(g, q)
    BY <1>1, <1>3, <1>4, EndList
  <2>2. \A q \in Addresses : Children(g, q) = Children(heap, q) BY <1>3, NewList
  <2> QED BY <2>1, <2>2 DEF KidsOf
<1>13. LabelsOf(heap')[n] \in (Kinds \ {"free", "document"}) \X AllNames
  BY <1>10
<1>14. LabelsOf(heap)[p] # Forest!Dead BY LabelIs
<1>15. Forest!CreateAttached(p, n)
  BY <1>9, <1>11, <1>12, <1>13, <1>14 DEF Forest!CreateAttached, LabelsOf, KidsOf, AllNames
<1> QED BY <1>6, <1>9, <1>15 DEF Forest!Next, Forest!Addresses, Addresses

\* The lists of the other nodes stay when nodes that are in no list are deleted.
LEMMA FreeTopLists ==
  ASSUME NEW h, NEW U, Sound(h, U), NEW S, S \subseteq U, NEW g, Freed(h, g, S),
         NEW q \in Addresses, q \notin S
  PROVE  Children(g, q) = Children(h, q)
<1>1. LinkType(g) /\ g.first[q] = h.first[q] BY DEF Freed
<1>2. NoRing(h.next) BY DEF Sound
<1>3. NoRing(g.next) BY <1>2, FreeNoSiblingRing
<1>4. \A m \in Addresses : h.parent[m] = q /\ m \notin U => g.next[m] = h.next[m] BY DEF Freed
<1> QED BY <1>1, <1>3, <1>4, SameList

\* A node that is in no list and has nothing below it is deleted.
LEMMA FreeTopStep ==
  ASSUME NEW U, Sound(heap, U), Named(heap), NEW n \in Nodes, n \in U, heap.kind[n] # "free",
         \A m \in Addresses : heap.parent[m] # n, heap' = Free(heap, {n})
  PROVE  Forest!Next /\ Named(heap')
<1> DEFINE S == {n}
<1>1. n \in Addresses /\ n # Doc /\ LinkType(heap) /\ NoRing(heap.next)
      /\ S \in SUBSET Addresses /\ n \in S /\ heap' = Free(heap, S)
  BY NullIsNone DEF Sound, Linked
<1>s. S \subseteq U /\ \A m : m \in S <=> m = n OBVIOUS
<1> HIDE DEF S
<1>2. /\ Named(heap')
      /\ \A m \in Addresses : heap'.name[m] = IF m \in S THEN "" ELSE heap.name[m]
  <2>1. /\ Named(Free(heap, S))
        /\ \A m \in Addresses : Free(heap, S).name[m] = IF m \in S THEN "" ELSE heap.name[m]
    BY <1>1, FreeNamed
  <2> QED BY <1>1, <2>1
<1>3. Freed(heap, heap', S)
  <2>1. Freed(heap, Free(heap, S), S) BY <1>1, FreeIs
  <2> QED BY <1>1, <2>1
<1>4. \A m \in Addresses : heap'.kind[m] = IF m \in S THEN "free" ELSE heap.kind[m]
  BY <1>3 DEF Freed
<1>5. LinkType(heap') /\ NoRing(heap'.next)
  <2>1. LinkType(heap') BY <1>3 DEF Freed
  <2>2. NoRing(heap'.next) BY <1>1, <1>3, FreeNoSiblingRing
  <2> QED BY <2>1, <2>2
<1>6. ASSUME NEW q \in Addresses
      PROVE  Children(heap', q) = IF q = n THEN <<>> ELSE Children(heap, q)
  <2>1. CASE q = n
    <3>1. heap'.first[n] = Null BY <1>1, <1>3 DEF Freed
    <3>2. Path(heap'.next, heap'.first[n], <<>>) BY <3>1, PathNull
    <3> QED BY <1>1, <1>5, <2>1, <3>2, ChildrenAre
  <2>2. CASE q # n
    <3>1. Children(heap', q) = Children(heap, q) BY <1>1, <1>3, <1>s, <2>2, FreeTopLists
    <3> QED BY <2>2, <3>1
  <2> QED BY <2>1, <2>2
<1>7. Forest!Below(n) = S
  <2>1. Forest!Below(n) \subseteq Subtree(heap, n) BY <1>1, BelowIs
  <2>2. Closed(heap, S) BY <1>s DEF Closed
  <2>3. Subtree(heap, n) \subseteq S BY <1>1, <2>2 DEF Subtree
  <2>4. n \in Forest!Below(n) BY <1>1 DEF Forest!Below, Forest!Addresses, Addresses
  <2> QED BY <1>s, <2>1, <2>3, <2>4
<1>8. LabelsOf(heap') = [m \in Addresses |-> IF m \in S THEN Forest!Dead ELSE LabelsOf(heap)[m]]
  BY <1>2, <1>4 DEF LabelsOf, Forest!Dead
<1>9. KidsOf(heap') = [m \in Addresses |-> IF m = n THEN <<>>
                                           ELSE IF m \in S THEN <<>> ELSE KidsOf(heap)[m]]
  BY <1>6, <1>s DEF KidsOf
<1>10. LabelsOf(heap)[n] # Forest!Dead BY <1>1, LabelIs
<1>11. Forest!Parents(n) = {}
  <2>1. \A q \in Addresses : n \notin Forest!Elements(Children(heap, q)) BY ElementsAre
  <2> QED BY <2>1 DEF Forest!Parents, Forest!Addresses, Addresses
<1>12. Forest!Delete(n)
  BY <1>1, <1>7, <1>8, <1>9, <1>10, <1>11
  DEF Forest!Delete, Forest!Detached, Forest!Kill, LabelsOf, KidsOf, Forest!Addresses, Addresses
<1>13. Forest!Made = {}
  <2>1. \A m \in Nodes : heap.kind[m] = "free" => heap'.kind[m] = "free" BY <1>4, NullIsNone
  <2> QED BY <1>2, <2>1, MadeIs
<1> QED BY <1>1, <1>2, <1>12, <1>13 DEF Forest!Next, Forest!Addresses, Addresses

\* RemoveChild.
LEMMA DeleteStep ==
  ASSUME Sound(heap, {}), Named(heap), NEW x \in Addresses, heap.parent[x] # Null,
         heap' = RemoveChild(heap, x)
  PROVE  Forest!Next /\ Named(heap')
<1> DEFINE p == heap.parent[x]
           S == Subtree(heap, x)
<1>1. LinkType(heap) /\ p \in Addresses /\ S \in SUBSET Addresses
  BY SubtreeIs DEF Sound, Linked, LinkType, Pointers
<1>2. /\ Named(heap')
      /\ \A m \in Addresses :
           /\ heap'.kind[m] = IF m \in S THEN "free" ELSE heap.kind[m]
           /\ heap'.name[m] = IF m \in S THEN "" ELSE heap.name[m]
  <2> DEFINE g == RemoveChild(heap, x)
  <2>1. Named(g) BY <1>1, RemoveNamed
  <2>2. \A m \in Addresses : /\ g.kind[m] = IF m \in S THEN "free" ELSE heap.kind[m]
                             /\ g.name[m] = IF m \in S THEN "" ELSE heap.name[m]
    BY <1>1, RemoveNamed
  <2>3. heap' = g OBVIOUS
  <2> HIDE DEF g, S
  <2> QED BY <2>1, <2>2, <2>3
<1>3. ListIs(heap, {}, p, Children(heap, p)) BY <1>1, ListsAre
<1>4. PICK i \in 1 .. Len(Children(heap, p)) : Children(heap, p)[i] = x BY <1>3 DEF ListIs
<1>5. DOMAIN Children(heap, p) = 1 .. Len(Children(heap, p)) BY <1>1, ElementsAre
<1>6. /\ Children(heap', p) = Forest!Without(Children(heap, p), i)
      /\ \A q \in S : Children(heap', q) = <<>>
      /\ \A q \in Addresses : q \notin S /\ q # p => Children(heap', q) = Children(heap, q)
  BY <1>4, RemoveList
<1>7. Forest!Below(x) = S BY BelowIs
<1> HIDE DEF p, S
<1>8. LabelsOf(heap') = [n \in Addresses |-> IF n \in S THEN Forest!Dead ELSE LabelsOf(heap)[n]]
  BY <1>2 DEF LabelsOf, Forest!Dead
<1>9. KidsOf(heap') = [n \in Addresses |->
                         IF n = p THEN Forest!Without(KidsOf(heap)[p], i)
                         ELSE IF n \in S THEN <<>> ELSE KidsOf(heap)[n]]
  BY <1>1, <1>6 DEF KidsOf
<1>10. KidsOf(heap)[p] = Children(heap, p) BY <1>1 DEF KidsOf
<1>11. i \in DOMAIN KidsOf(heap)[p] /\ KidsOf(heap)[p][i] = x BY <1>4, <1>5, <1>10
<1>12. \E j \in DOMAIN KidsOf(heap)[p] :
         /\ LabelsOf(heap') = [n \in Addresses |-> IF n \in Forest!Below(KidsOf(heap)[p][j])
                                                  THEN Forest!Dead ELSE LabelsOf(heap)[n]]
         /\ KidsOf(heap') = [n \in Addresses |->
                               IF n = p THEN Forest!Without(KidsOf(heap)[p], j)
                               ELSE IF n \in Forest!Below(KidsOf(heap)[p][j]) THEN <<>>
                               ELSE KidsOf(heap)[n]]
  BY <1>7, <1>8, <1>9, <1>11
<1>13. \E q \in Forest!Addresses : Forest!Delete(q)
  <2>1. Forest!Delete(p)
    BY <1>12 DEF Forest!Delete, Forest!Kill, LabelsOf, KidsOf, Forest!Addresses, Addresses
  <2>2. p \in Forest!Addresses BY <1>1 DEF Forest!Addresses, Addresses
  <2> QED BY <2>1, <2>2 DEF Forest!Delete, Forest!Kill
<1>14. Forest!Made = {} BY <1>2, MadeIs, NullIsNone
<1> QED BY <1>2, <1>13, <1>14 DEF Forest!Next

\* Clear.
LEMMA ClearStep ==
  ASSUME Sound(heap, {}), Named(heap), NEW p \in Addresses, heap' = Clear(heap, p)
  PROVE  Forest!Next /\ Named(heap')
<1> DEFINE S == Subtree(heap, p)
<1>1. LinkType(heap) /\ S \in SUBSET Addresses /\ p \in S BY SubtreeIs DEF Sound, Linked
<1>2. /\ Named(heap')
      /\ \A m \in Addresses :
           /\ heap'.kind[m] = IF m \in S \ {p} THEN "free" ELSE heap.kind[m]
           /\ heap'.name[m] = IF m \in S \ {p} THEN "" ELSE heap.name[m]
  <2> DEFINE g == Clear(heap, p)
  <2>0. g = Clear(heap, p) OBVIOUS
  <2> HIDE DEF g, S
  <2>1. LinkType(heap) /\ Named(heap) /\ p \in Addresses BY <1>1
  <2>2. Named(g) /\ Wiped(heap, g, p) BY <2>0, <2>1, ClearNamed
  <2>3. heap' = g BY <2>0
  <2> QED BY <2>2, <2>3 DEF S, Wiped
<1>3. /\ \A q \in S : Children(heap', q) = <<>>
      /\ \A q \in Addresses : q \notin S => Children(heap', q) = Children(heap, q)
  BY ClearList
<1>4. Forest!Below(p) = S BY BelowIs
<1> HIDE DEF S
<1>5. LabelsOf(heap') = [n \in Addresses |-> IF n \in S \ {p} THEN Forest!Dead ELSE LabelsOf(heap)[n]]
  BY <1>2 DEF LabelsOf, Forest!Dead
<1>6. KidsOf(heap') = [n \in Addresses |->
                         IF n = p THEN <<>> ELSE IF n \in S \ {p} THEN <<>> ELSE KidsOf(heap)[n]]
  BY <1>1, <1>3 DEF KidsOf
<1>7. Forest!Kill(S \ {p}, p, <<>>)
  BY <1>5, <1>6 DEF Forest!Kill, LabelsOf, KidsOf, Forest!Addresses, Addresses
<1>8. Forest!Delete(p) BY <1>4, <1>7 DEF Forest!Delete
<1>9. Forest!Made = {} BY <1>2, MadeIs, NullIsNone
<1> QED BY <1>2, <1>8, <1>9 DEF Forest!Next, Forest!Addresses, Addresses

\* Between which children of p a copy comes, and which nodes are deleted for it.
Gone(p, s, i, gone) ==
  \/ s = Children(heap, p) /\ i \in 1 .. Len(s) + 1 /\ gone = {}
  \/ /\ i \in DOMAIN Children(heap, p) /\ s = Forest!Without(Children(heap, p), i)
     /\ gone = Subtree(heap, Children(heap, p)[i]) /\ Children(heap, p)[i] \in Addresses

\* f[k] is a copy of k.
Alike(h, g, f, k) ==
  /\ g.kind[f[k]] = h.kind[k] /\ g.name[f[k]] = h.name[k]
  /\ Children(g, f[k]) = [j \in DOMAIN Children(h, k) |-> f[Children(h, k)[j]]]

\* What becomes of any other node: those of gone are deleted, p has the children s.
Remains(h, g, gone, p, s, m) ==
  /\ g.kind[m] = IF m \in gone THEN "free" ELSE h.kind[m]
  /\ g.name[m] = IF m \in gone THEN "" ELSE h.name[m]
  /\ Children(g, m) = IF m = p THEN s ELSE IF m \in gone THEN <<>> ELSE Children(h, m)

\* Nothing.
Unchanged(h, g, m) ==
  g.kind[m] = h.kind[m] /\ g.name[m] = h.name[m] /\ Children(g, m) = Children(h, m)

\* A copy is a copy in the forest too, with the nodes of gone deleted at the same time.
LEMMA CopyStep ==
  ASSUME Sound(heap, {}), Named(heap), Named(heap'),
         NEW src \in Nodes, heap.kind[src] # "free", NEW f \in Rooms(heap, src),
         NEW p \in Addresses, NEW s, NEW i, NEW gone,
         \A k \in Subtree(heap, src) : Alike(heap, heap', f, k),
         \A m \in Addresses : (\A k \in Subtree(heap, src) : f[k] # m) =>
           Remains(heap, heap', gone, p, Forest!Insert(s, i, f[src]), m),
         Gone(p, s, i, gone)
  PROVE  Forest!Next
<1> DEFINE S == Subtree(heap, src)
           C == {f[k] : k \in S}
           From(n) == CHOOSE k \in DOMAIN f : f[k] = n
<1>1. /\ src \in Addresses /\ LinkType(heap) /\ Linked(heap, {}) /\ NoRing(heap.parent)
      /\ S \in SUBSET Addresses /\ src \in S
  BY SubtreeIs, NullIsNone DEF Sound, Linked
<1>2. /\ f \in [S -> FreeNodes(heap)] /\ DOMAIN f = S
      /\ \A j, k \in S : f[j] = f[k] => j = k
      /\ \A k \in S : f[k] \in Nodes /\ f[k] \in Addresses /\ heap.kind[f[k]] = "free"
  <2>1. f \in [S -> FreeNodes(heap)] /\ \A j, k \in S : f[j] = f[k] => j = k
    BY DEF Rooms, Injections
  <2> HIDE DEF S
  <2>2. \A m \in FreeNodes(heap) : m \in Nodes /\ m \in Addresses /\ heap.kind[m] = "free"
    BY NullIsNone DEF FreeNodes
  <2> QED BY <2>1, <2>2
<1>3. \A k \in S : heap.kind[k] # "free"
  <2> SUFFICES ASSUME NEW k \in S, heap.kind[k] = "free" PROVE FALSE OBVIOUS
  <2>1. k # src /\ k \in Addresses BY <1>1
  <2>2. heap.parent[k] \in S BY <1>1, <2>1, SubtreeIs
  <2>3. heap.parent[k] = Null
    BY <1>1, <2>1 DEF Linked, LinksConsistent, NodeLinked, FreeBlank
  <2> QED BY <1>1, <2>2, <2>3, NullIsNone
<1>4. /\ \A k \in S : /\ heap'.kind[f[k]] = heap.kind[k] /\ heap'.name[f[k]] = heap.name[k]
                      /\ Children(heap', f[k])
                           = [j \in DOMAIN Children(heap, k) |-> f[Children(heap, k)[j]]]
      /\ \A m \in Addresses : m \notin C =>
           /\ heap'.kind[m] = IF m \in gone THEN "free" ELSE heap.kind[m]
           /\ heap'.name[m] = IF m \in gone THEN "" ELSE heap.name[m]
           /\ Children(heap', m) = IF m = p THEN Forest!Insert(s, i, f[src])
                                   ELSE IF m \in gone THEN <<>> ELSE Children(heap, m)
  <2>1. \A m \in Addresses : m \notin C => \A k \in S : f[k] # m OBVIOUS
  <2> HIDE DEF C
  <2>2. \A m \in Addresses : m \notin C =>
          Remains(heap, heap', gone, p, Forest!Insert(s, i, f[src]), m)
    BY <2>1
  <2> QED BY <2>2 DEF Alike, Remains
<1>5. Forest!Below(src) = S BY <1>1, BelowIs
<1>6. C \subseteq Nodes /\ C \subseteq Addresses /\ \A m \in C : \E k \in S : m = f[k]
  <2> HIDE DEF S
  <2>1. \A m \in C : \E k \in S : m = f[k] OBVIOUS
  <2> HIDE DEF C
  <2>2. ASSUME NEW m \in C PROVE m \in Nodes /\ m \in Addresses
    <3>1. PICK k \in S : m = f[k] BY <2>1
    <3>2. f[k] \in Nodes /\ f[k] \in Addresses BY <1>2
    <3> QED BY <3>1, <3>2
  <2> QED BY <2>1, <2>2
<1>7. \A k \in S : f[k] \in C /\ From(f[k]) = k
  <2> HIDE DEF S
  <2> QED BY <1>2
<1> HIDE DEF S, C, From
<1>8. Forest!Made = C
  <2>1. ASSUME NEW m \in C PROVE heap.kind[m] = "free" /\ heap'.kind[m] # "free"
    <3>1. PICK k \in S : m = f[k] BY <1>6
    <3>2. heap'.kind[f[k]] = heap.kind[k] BY <1>4
    <3> QED BY <1>2, <1>3, <3>1, <3>2
  <2>2. ASSUME NEW m \in Nodes, m \notin C, heap.kind[m] = "free" PROVE heap'.kind[m] = "free"
    <3>1. m \in Addresses BY NullIsNone
    <3>2. heap'.kind[m] = IF m \in gone THEN "free" ELSE heap.kind[m] BY <1>4, <2>2, <3>1
    <3> QED BY <2>2, <3>2
  <2>3. Forest!Made = {m \in Nodes : heap.kind[m] = "free" /\ heap'.kind[m] # "free"} BY MadeIs
  <2> QED BY <1>6, <2>1, <2>2, <2>3
<1>9. \A k \in S : LabelsOf(heap')[f[k]] = LabelsOf(heap)[k]
  BY <1>1, <1>2, <1>4 DEF LabelsOf
<1>10. Forest!Copies(src, f)
  <2>1. Forest!Made = {f[x] : x \in DOMAIN f} BY <1>2, <1>8 DEF C
  <2>2. \A x, y \in DOMAIN f : f[x] = f[y] => x = y BY <1>2
  <2>3. \A x \in DOMAIN f : LabelsOf(heap')[f[x]] = LabelsOf(heap)[x] BY <1>2, <1>9
  <2> QED BY <2>1, <2>2, <2>3 DEF Forest!Copies, LabelsOf
<1>11. LabelsOf(heap') = [n \in Addresses |->
                            IF n \in C THEN LabelsOf(heap')[n]
                            ELSE IF n \in gone THEN Forest!Dead ELSE LabelsOf(heap)[n]]
  BY <1>4 DEF LabelsOf, Forest!Dead
<1>12. KidsOf(heap') =
         [n \in Addresses |->
            IF n \in C THEN [j \in DOMAIN KidsOf(heap)[From(n)] |-> f[KidsOf(heap)[From(n)][j]]]
            ELSE IF n = p THEN Forest!Insert(s, i, f[src])
            ELSE IF n \in gone THEN <<>> ELSE KidsOf(heap)[n]]
  <2>1. ASSUME NEW n \in Addresses, n \in C
        PROVE  KidsOf(heap')[n] = [j \in DOMAIN KidsOf(heap)[From(n)] |-> f[KidsOf(heap)[From(n)][j]]]
    <3>1. PICK k \in S : n = f[k] BY <1>6, <2>1
    <3>2. From(n) = k /\ k \in Addresses BY <1>1, <1>7, <3>1
    <3>3. KidsOf(heap)[From(n)] = Children(heap, k) /\ KidsOf(heap')[n] = Children(heap', n)
      BY <2>1, <3>2 DEF KidsOf
    <3>4. Children(heap', n) = [j \in DOMAIN Children(heap, k) |-> f[Children(heap, k)[j]]]
      BY <1>4, <3>1
    <3> QED BY <3>3, <3>4
  <2>2. ASSUME NEW n \in Addresses, n \notin C
        PROVE  KidsOf(heap')[n] = IF n = p THEN Forest!Insert(s, i, f[src])
                                  ELSE IF n \in gone THEN <<>> ELSE KidsOf(heap)[n]
    BY <1>4, <2>2 DEF KidsOf
  <2>3. KidsOf(heap') = [n \in Addresses |-> KidsOf(heap')[n]] BY DEF KidsOf
  <2> HIDE DEF KidsOf
  <2> QED BY <2>1, <2>2, <2>3
<1> DEFINE Changed(q, j, rest, dead) ==
             /\ LabelsOf(heap') = [n \in Addresses |->
                                     IF n \in Forest!Made THEN LabelsOf(heap')[n]
                                     ELSE IF n \in dead THEN Forest!Dead ELSE LabelsOf(heap)[n]]
             /\ KidsOf(heap') =
                  [n \in Addresses |->
                     IF n \in Forest!Made
                     THEN [x \in DOMAIN KidsOf(heap)[CHOOSE x \in DOMAIN f : f[x] = n] |->
                             f[KidsOf(heap)[CHOOSE y \in DOMAIN f : f[y] = n][x]]]
                     ELSE IF n = q THEN Forest!Insert(rest, j, f[src])
                     ELSE IF n \in dead THEN <<>> ELSE KidsOf(heap)[n]]
<1>13. Changed(p, i, s, gone) BY <1>8, <1>11, <1>12 DEF From
<1>14. Forest!InsertCopy(src, f)
  <2>1. \E q \in Addresses :
          \/ \E j \in 1 .. Len(KidsOf(heap)[q]) + 1 : Changed(q, j, KidsOf(heap)[q], {})
          \/ \E j \in DOMAIN KidsOf(heap)[q] :
               Changed(q, j, Forest!Without(KidsOf(heap)[q], j), Forest!Below(KidsOf(heap)[q][j]))
    <3>1. CASE s = Children(heap, p) /\ i \in 1 .. Len(s) + 1 /\ gone = {}
      <4>1. s = KidsOf(heap)[p] /\ i \in 1 .. Len(KidsOf(heap)[p]) + 1 /\ gone = {}
        BY <3>1 DEF KidsOf
      <4>2. Changed(p, i, KidsOf(heap)[p], {}) BY <1>13, <4>1
      <4> QED BY <4>1, <4>2
    <3>2. CASE /\ i \in DOMAIN Children(heap, p) /\ s = Forest!Without(Children(heap, p), i)
               /\ gone = Subtree(heap, Children(heap, p)[i]) /\ Children(heap, p)[i] \in Addresses
      <4>1. /\ i \in DOMAIN KidsOf(heap)[p] /\ s = Forest!Without(KidsOf(heap)[p], i)
            /\ gone = Forest!Below(KidsOf(heap)[p][i])
        BY <3>2, BelowIs DEF KidsOf
      <4>2. Changed(p, i, Forest!Without(KidsOf(heap)[p], i), Forest!Below(KidsOf(heap)[p][i]))
        <5> HIDE DEF From
        <5>1. \A rest, dead : rest = s /\ dead = gone => Changed(p, i, rest, dead)
          BY ZenonT(60), <1>13
        <5> HIDE DEF Changed
        <5> QED BY Zenon, <4>1, <5>1
      <4> QED BY <4>1, <4>2
    <3> QED BY <3>1, <3>2 DEF Gone
  <2> QED
    BY <1>10, <2>1
    DEF Forest!InsertCopy, Forest!Copied, LabelsOf, KidsOf, Forest!Addresses, Addresses
<1>15. f \in [Forest!Below(src) -> Forest!Made]
  BY <1>2, <1>5, <1>7, <1>8
<1>16. Forest!Made # {} BY <1>1, <1>7, <1>8
<1>17. LabelsOf(heap)[src] # Forest!Dead BY <1>1, LabelIs
<1> QED BY <1>14, <1>15, <1>16, <1>17 DEF Forest!Next, LabelsOf

LEMMA CloneStep ==
  ASSUME Sound(heap, {}), Named(heap), NEW src \in Nodes, heap.kind[src] # "free",
         NEW f \in Rooms(heap, src), NEW g, g = Clone(heap, src, f)
  PROVE  /\ Copied(heap, g, {f[k] : k \in Subtree(heap, src)}, f[src])
         /\ Sound(g, {f[src]}) /\ Named(g)
         /\ \A k \in Subtree(heap, src) :
              heap.kind[f[k]] = "free" /\ f[k] \in Nodes /\ Alike(heap, g, f, k)
         /\ \A m \in Addresses : (\A k \in Subtree(heap, src) : f[k] # m) => Unchanged(heap, g, m)
<1> DEFINE S == Subtree(heap, src)
<1>1. src \in Addresses /\ Linked(heap, {}) /\ NoRing(heap.parent) BY NullIsNone DEF Sound
<1>2. Copied(heap, g, {f[k] : k \in S}, f[src]) BY <1>1, CloneSound
<1>3. Sound(g, {f[src]}) BY <1>2 DEF Copied, Sound
<1>4. Cloned(heap, g, src, f) BY <1>1, CloneIs
<1>5. /\ Named(g) /\ \A k \in S : g.name[f[k]] = heap.name[k]
      /\ \A m \in Addresses : (\A k \in S : f[k] # m) => g.name[m] = heap.name[m]
  BY <1>1, CloneNamed
<1>6. /\ \A k \in S :
           Children(g, f[k]) = [j \in DOMAIN Children(heap, k) |-> f[Children(heap, k)[j]]]
      /\ \A m \in Addresses : (\A k \in S : f[k] # m) => Children(g, m) = Children(heap, m)
  BY <1>1, <1>4, CloneList
<1>7. /\ \A k \in S : g.kind[f[k]] = heap.kind[k]
      /\ \A m \in Addresses : (\A k \in S : f[k] # m) => g.kind[m] = heap.kind[m]
  BY <1>4 DEF Cloned
<1>8. ASSUME NEW k \in S PROVE heap.kind[f[k]] = "free" /\ f[k] \in Nodes
  <2>1. f \in [S -> FreeNodes(heap)] BY DEF Rooms, Injections
  <2> HIDE DEF S
  <2> QED BY <2>1 DEF FreeNodes
<1> HIDE DEF S
<1>9. \A k \in S : Alike(heap, g, f, k) BY <1>5, <1>6, <1>7 DEF Alike
<1>10. \A m \in Addresses : (\A k \in S : f[k] # m) => Unchanged(heap, g, m)
  BY <1>5, <1>6, <1>7 DEF Unchanged
<1> QED BY <1>2, <1>3, <1>5, <1>8, <1>9, <1>10 DEF S

\* InsertEndChild, InsertBeforeChild, InsertAfterChild.
LEMMA InsertCopyStep ==
  ASSUME Sound(heap, {}), Named(heap), NEW src \in Nodes, heap.kind[src] # "free",
         NEW f \in Rooms(heap, src), NEW g, g = Clone(heap, src, f),
         NEW p \in Addresses, heap.kind[p] # "free", NEW b \in Pointers, NEW a \in Pointers,
         Gap(g, {f[src]}, p, b, a), heap' = Splice(g, p, b, a, f[src]), Sound(heap', {})
  PROVE  Forest!Next /\ Named(heap')
<1> DEFINE t == f[src]
           list == Children(heap, p)
           gone == {}
<1>1. /\ Sound(g, {t}) /\ Named(g)
      /\ \A k \in Subtree(heap, src) :
           heap.kind[f[k]] = "free" /\ f[k] \in Nodes /\ Alike(heap, g, f, k)
      /\ \A m \in Addresses : (\A k \in Subtree(heap, src) : f[k] # m) => Unchanged(heap, g, m)
  BY CloneStep
<1>2. t \in Nodes /\ t \in Addresses /\ LinkType(g)
  <2>1. src \in Subtree(heap, src) BY SubtreeIs, NullIsNone
  <2> QED BY <1>1, <2>1, NullIsNone DEF Sound, Linked
<1>3. Named(heap') /\ heap'.name = g.name BY <1>1, <1>2, SpliceNamed
<1>4. Spliced(g, heap', p, b, a, t) BY <1>2, SpliceIs
<1>5. \A m \in Addresses : heap'.kind[m] = g.kind[m] BY <1>4 DEF Spliced
<1>6. PICK i \in 1 .. Len(Children(g, p)) + 1 : b = IF i = 1 THEN Null ELSE Children(g, p)[i - 1]
  BY <1>1, GapPlace
<1>7. /\ Children(heap', p) = Forest!Insert(Children(g, p), i, t)
      /\ \A q \in Addresses : q # p => Children(heap', q) = Children(g, q)
  BY <1>1, <1>2, <1>4, <1>6, SpliceList DEF Sound
<1>8. ASSUME NEW k \in Subtree(heap, src) PROVE f[k] # p
  <2>1. heap.kind[f[k]] = "free" BY <1>1
  <2> QED BY <2>1
<1>9. Children(g, p) = list BY <1>1, <1>8 DEF Unchanged
<1>10. Gone(p, list, i, gone) BY <1>6, <1>9 DEF Gone
<1> HIDE DEF gone, list
<1>11. ASSUME NEW k \in Subtree(heap, src) PROVE Alike(heap, heap', f, k)
  <2>1. Alike(heap, g, f, k) /\ f[k] \in Addresses BY <1>1, NullIsNone
  <2> QED BY <1>3, <1>5, <1>7, <1>8, <2>1 DEF Alike
<1>12. ASSUME NEW m \in Addresses, \A k \in Subtree(heap, src) : f[k] # m
       PROVE  Remains(heap, heap', gone, p, Forest!Insert(list, i, f[src]), m)
  <2>1. Unchanged(heap, g, m) BY <1>1, <1>12
  <2>2. m \notin gone BY DEF gone
  <2> QED BY <1>3, <1>5, <1>7, <1>9, <2>1, <2>2 DEF Remains, Unchanged
<1>13. Forest!Next BY <1>3, <1>10, <1>11, <1>12, CopyStep
<1> QED BY <1>3, <1>13

\* A copy changes nothing about what is below a node that was there before.
LEMMA SubtreeStays ==
  ASSUME NEW h, Sound(h, {}), NEW src \in Addresses, NEW f \in Rooms(h, src),
         NEW g, Cloned(h, g, src, f), NEW x \in Addresses, h.kind[x] # "free"
  PROVE  Subtree(g, x) = Subtree(h, x)
<1> DEFINE S == Subtree(h, src)
           old == Subtree(h, x)
           new == Subtree(g, x)
<1>1. /\ old \in SUBSET Addresses /\ x \in old /\ Closed(h, old)
      /\ \A m \in old : m # x => h.parent[m] \in old
      /\ new \in SUBSET Addresses /\ x \in new /\ Closed(g, new)
  BY SubtreeIs
<1>2. /\ \A T \in SUBSET Addresses : x \in T /\ Closed(g, T) => new \subseteq T
      /\ \A T \in SUBSET Addresses : x \in T /\ Closed(h, T) => old \subseteq T
  BY DEF Subtree
<1>3. \A m \in Addresses : h.kind[m] = "free" => h.parent[m] = Null
  BY DEF Sound, Linked, LinksConsistent, NodeLinked, FreeBlank
<1>4. \A k \in S : h.kind[f[k]] = "free"
  <2>1. f \in [S -> FreeNodes(h)] BY DEF Rooms, Injections
  <2> HIDE DEF S
  <2> QED BY <2>1 DEF FreeNodes
<1>5. \A k \in S : k # src => h.parent[k] \in S BY SubtreeIs
<1>6. /\ \A k \in S : g.parent[f[k]] = IF k = src THEN Null ELSE f[h.parent[k]]
      /\ \A m \in Addresses : (\A k \in S : f[k] # m) => g.parent[m] = h.parent[m]
  BY DEF Cloned
<1> HIDE DEF S, old, new
<1>7. \A m \in old : h.kind[m] # "free" BY <1>1, <1>3, NullIsNone
<1>8. Closed(g, old)
  <2> SUFFICES ASSUME NEW m \in Addresses, g.parent[m] \in old PROVE m \in old BY DEF Closed
  <2>1. \A k \in S : f[k] # m
    <3> SUFFICES ASSUME NEW k \in S, f[k] = m PROVE FALSE OBVIOUS
    <3>1. k # src BY <1>1, <1>6, NullIsNone
    <3>2. g.parent[m] = f[h.parent[k]] /\ h.parent[k] \in S BY <1>5, <1>6, <3>1
    <3> QED BY <1>4, <1>7, <3>2
  <2>2. g.parent[m] = h.parent[m] BY <1>6, <2>1
  <2> QED BY <1>1, <2>2 DEF Closed
<1>9. Closed(h, new)
  <2> SUFFICES ASSUME NEW m \in Addresses, h.parent[m] \in new PROVE m \in new BY DEF Closed
  <2>1. h.kind[m] # "free" BY <1>1, <1>3, NullIsNone
  <2>2. \A k \in S : f[k] # m BY <1>4, <2>1
  <2>3. g.parent[m] = h.parent[m] BY <1>6, <2>2
  <2> QED BY <1>1, <2>3 DEF Closed
<1>10. new \subseteq old BY <1>1, <1>2, <1>8
<1>11. old \subseteq new BY <1>1, <1>2, <1>9
<1> QED BY <1>10, <1>11 DEF old, new

\* ReplaceChild.
LEMMA ReplaceStep ==
  ASSUME Sound(heap, {}), Named(heap), NEW src \in Nodes, heap.kind[src] # "free",
         NEW f \in Rooms(heap, src), NEW x \in Addresses, heap.parent[x] # Null,
         NEW g, g = Clone(heap, src, f), heap' = ReplaceLink(g, x, f[src]), Sound(heap', {})
  PROVE  Forest!Next /\ Named(heap')
<1> DEFINE t == f[src]
           p == heap.parent[x]
           list == Children(heap, p)
           gone == Subtree(heap, x)
           bare == RemoveChild(g, x)
<1>1. /\ Copied(heap, g, {f[k] : k \in Subtree(heap, src)}, t) /\ Sound(g, {t}) /\ Named(g)
      /\ \A k \in Subtree(heap, src) :
           heap.kind[f[k]] = "free" /\ f[k] \in Nodes /\ Alike(heap, g, f, k)
      /\ \A m \in Addresses : (\A k \in Subtree(heap, src) : f[k] # m) => Unchanged(heap, g, m)
  BY CloneStep
<1>2. /\ t \in Nodes /\ t \in Addresses /\ heap.kind[t] = "free" /\ LinkType(g) /\ g.parent[t] = Null
      /\ heap.kind[x] # "free" /\ p \in Addresses /\ heap.kind[p] # "free"
  <2>1. src \in Subtree(heap, src) BY SubtreeIs, NullIsNone
  <2>2. t \in Nodes /\ t \in Addresses /\ heap.kind[t] = "free" BY <1>1, <2>1, NullIsNone
  <2>3. LinkType(g) /\ g.parent[t] = Null BY <1>1 DEF Sound, Linked, Copied
  <2>4. heap.kind[x] # "free" /\ p \in Addresses /\ heap.kind[p] # "free"
    BY DEF Sound, Linked, LinksConsistent, NodeLinked, FreeBlank, ParentLive, LinkType, Pointers
  <2> QED BY <2>2, <2>3, <2>4
<1>3. g.parent[x] = p /\ x # t BY <1>1, <1>2 DEF Copied
<1>4. Subtree(g, x) = gone
  <2>1. Cloned(heap, g, src, f) BY CloneIs, NullIsNone DEF Sound
  <2> QED BY <1>2, <2>1, SubtreeStays, NullIsNone
<1>5. /\ Spliced(bare, heap', p, g.prev[x], g.next[x], t) /\ Gap(bare, {t}, p, g.prev[x], g.next[x])
      /\ g.prev[x] \in Pointers /\ g.next[x] \in Pointers
      /\ p \notin gone /\ t \notin gone
  BY <1>1, <1>2, <1>3, <1>4, ReplaceIs DEF Sound
<1> HIDE DEF gone, p
<1>6. Sound(bare, {t})
  <2>1. g.parent[x] # Null /\ x \notin {t} BY <1>2, <1>3, NullIsNone
  <2>2. Linked(g, {t}) /\ NoRing(g.parent) /\ NoRing(g.next) BY <1>1 DEF Sound
  <2>3. Linked(bare, {t}) /\ NoRing(bare.parent) /\ NoRing(bare.next)
    BY <2>1, <2>2, RemoveKeeps
  <2> QED BY <2>3 DEF Sound
<1>7. \A k \in Subtree(heap, src) : f[k] # p /\ f[k] # x BY <1>1, <1>2
<1>8. Children(g, p) = list BY <1>1, <1>2, <1>7 DEF Unchanged
<1>9. ListIs(g, {t}, p, list) BY <1>1, <1>2, <1>8, ListsAre
<1> HIDE DEF list
<1>10. PICK i \in 1 .. Len(list) : list[i] = x BY <1>2, <1>3, <1>9 DEF ListIs
<1>11. /\ Children(bare, p) = Forest!Without(list, i)
       /\ \A q \in gone : Children(bare, q) = <<>>
       /\ \A q \in Addresses : q \notin gone /\ q # p => Children(bare, q) = Children(g, q)
  <2>1. \A U, j : /\ Sound(g, U) /\ g.parent[x] # Null /\ x \notin U /\ j \in 1 .. Len(Children(g, g.parent[x]))
                 /\ Children(g, g.parent[x])[j] = x
          => /\ Children(bare, g.parent[x]) = Forest!Without(Children(g, g.parent[x]), j)
             /\ \A q \in Subtree(g, x) : Children(bare, q) = <<>>
             /\ \A q \in Addresses : q \notin Subtree(g, x) /\ q # g.parent[x] =>
                  Children(bare, q) = Children(g, q)
    BY RemoveList
  <2> HIDE DEF bare
  <2>2. Children(g, g.parent[x]) = list /\ g.parent[x] = p /\ Subtree(g, x) = gone /\ x \notin {t} /\ p # Null
    BY <1>2, <1>3, <1>4, <1>8, NullIsNone
  <2> QED BY <1>1, <1>10, <2>1, <2>2
<1>12. /\ i \in 1 .. Len(Forest!Without(list, i)) + 1
       /\ g.prev[x] = IF i = 1 THEN Null ELSE Forest!Without(list, i)[i - 1]
  <2>1. g.prev[x] = IF i = 1 THEN Null ELSE list[i - 1] BY <1>9, <1>10 DEF ListIs
  <2>2. list \in Seq(Addresses) BY <1>1, <1>2, <1>8, ElementsAre
  <2> QED BY <1>10, <2>1, <2>2, WithoutIs
<1> HIDE DEF bare
<1>13. /\ Children(heap', p) = Forest!Insert(Forest!Without(list, i), i, t)
       /\ \A q \in Addresses : q # p => Children(heap', q) = Children(bare, q)
  BY <1>2, <1>5, <1>6, <1>11, <1>12, SpliceList DEF Sound
<1>14. /\ Named(heap')
       /\ \A m \in Addresses : /\ heap'.kind[m] = IF m \in gone THEN "free" ELSE g.kind[m]
                               /\ heap'.name[m] = IF m \in gone THEN "" ELSE g.name[m]
  <2> DEFINE r == Splice(g, p, g.prev[x], g.next[x], t)
  <2>1. heap' = Free(r, gone) BY <1>3, <1>4 DEF ReplaceLink
  <2>2. Named(r) /\ r.name = g.name BY <1>1, <1>2, <1>5, SpliceNamed
  <2>3. Spliced(g, r, p, g.prev[x], g.next[x], t) BY <1>2, <1>5, SpliceIs
  <2>4. gone \in SUBSET Addresses BY SubtreeIs DEF gone
  <2> HIDE DEF r
  <2>5. LinkType(r) /\ \A m \in Addresses : r.kind[m] = g.kind[m] BY <2>3 DEF Spliced
  <2>6. Named(heap') /\ \A m \in Addresses : heap'.name[m] = IF m \in gone THEN "" ELSE r.name[m]
    <3>1. Named(Free(r, gone)) BY <2>2, <2>4, <2>5, FreeNamed
    <3>2. \A m \in Addresses : Free(r, gone).name[m] = IF m \in gone THEN "" ELSE r.name[m]
      BY <2>2, <2>4, <2>5, FreeNamed
    <3> QED BY <2>1, <3>1, <3>2
  <2>7. Freed(r, heap', gone) BY <2>1, <2>4, <2>5, FreeIs
  <2>8. \A m \in Addresses : heap'.kind[m] = IF m \in gone THEN "free" ELSE r.kind[m]
    BY <2>7 DEF Freed
  <2> QED BY <2>2, <2>5, <2>6, <2>8
<1>15. \A m \in gone : heap.kind[m] # "free"
  <2>1. \A m \in Addresses : heap.kind[m] = "free" => heap.parent[m] = Null
    BY DEF Sound, Linked, LinksConsistent, NodeLinked, FreeBlank
  <2>2. /\ gone \in SUBSET Addresses /\ \A m \in gone : m # x => heap.parent[m] \in gone
    BY SubtreeIs DEF gone
  <2> QED BY <1>2, <2>1, <2>2, NullIsNone
<1>16. ASSUME NEW k \in Subtree(heap, src) PROVE Alike(heap, heap', f, k)
  <2>1. Alike(heap, g, f, k) /\ f[k] \in Addresses /\ heap.kind[f[k]] = "free" BY <1>1, NullIsNone
  <2>2. f[k] \notin gone /\ f[k] # p BY <1>2, <1>15, <2>1
  <2> QED BY <1>11, <1>13, <1>14, <2>1, <2>2 DEF Alike
<1>17. ASSUME NEW m \in Addresses, \A k \in Subtree(heap, src) : f[k] # m
       PROVE  Remains(heap, heap', gone, p, Forest!Insert(Forest!Without(list, i), i, f[src]), m)
  <2>1. Unchanged(heap, g, m) BY <1>1, <1>17
  <2>2. CASE m = p BY <1>5, <1>13, <1>14, <2>1, <2>2 DEF Remains, Unchanged
  <2>3. CASE m # p /\ m \in gone BY <1>11, <1>13, <1>14, <2>1, <2>3 DEF Remains, Unchanged
  <2>4. CASE m # p /\ m \notin gone BY <1>11, <1>13, <1>14, <2>1, <2>4 DEF Remains, Unchanged
  <2> QED BY <2>2, <2>3, <2>4
<1>18. Gone(p, Forest!Without(list, i), i, gone)
  <2>1. DOMAIN list = 1 .. Len(list) BY <1>2, ElementsAre DEF list
  <2> QED BY <1>10, <2>1 DEF Gone, list, gone
<1> DEFINE rest == Forest!Without(list, i)
<1> HIDE DEF rest
<1>19. Forest!Next
  <2>1. Gone(p, rest, i, gone) BY <1>18 DEF rest
  <2>2. \A m \in Addresses : (\A k \in Subtree(heap, src) : f[k] # m) =>
          Remains(heap, heap', gone, p, Forest!Insert(rest, i, f[src]), m)
    BY <1>17 DEF rest
  <2> QED BY <1>2, <1>14, <1>16, <2>1, <2>2, CopyStep
<1> QED BY <1>14, <1>19

-----------------------------------------------------------------------------
(* What each action is in the forest.                                      *)

LEMMA ForestInit == Init => Forest!Init /\ Named(heap)
<1> SUFFICES ASSUME Init PROVE Forest!Init /\ Named(heap) OBVIOUS
<1>1. heap = EmptyHeap /\ Sound(heap, Unlinked) BY DocInit DEF Init, DocInv
<1>2. /\ \A m \in Addresses : /\ heap.kind[m] = IF m = Doc THEN "document" ELSE "free"
                              /\ heap.name[m] = "" /\ heap.first[m] = Null
      /\ heap.name = [m \in Addresses |-> ""]
  BY <1>1 DEF EmptyHeap
<1>3. Named(heap) BY <1>2 DEF Named, AllNames
<1>4. ASSUME NEW m \in Addresses PROVE Children(heap, m) = <<>>
  <2>1. Path(heap.next, heap.first[m], <<>>) BY <1>2, PathNull
  <2> QED BY <1>1, <2>1, ChildrenAre DEF Sound, Linked
<1>5. Forest!Init
  BY <1>2, <1>4 DEF Forest!Init, Forest!Addresses, Addresses, Forest!Dead
<1> QED BY <1>3, <1>5

\* Who changes neither kinds and names nor the lists changes nothing.
LEMMA ForestStays ==
  ASSUME NEW U, Sound(heap, U), Named(heap), LinkType(heap'), heap'.kind = heap.kind,
         heap'.name = heap.name, heap'.first = heap.first, heap'.next = heap.next
  PROVE  UNCHANGED Forest!vars /\ Named(heap')
<1>1. \A m \in Addresses : Children(heap', m) = Children(heap, m) BY SameList DEF Sound
<1>2. LabelsOf(heap') = LabelsOf(heap) BY DEF LabelsOf
<1>3. KidsOf(heap') = KidsOf(heap) BY <1>1 DEF KidsOf
<1>4. Named(heap') BY DEF Named
<1> QED BY <1>2, <1>3, <1>4 DEF Forest!vars, LabelsOf, KidsOf

LEMMA ForestSame ==
  ASSUME Named(heap), heap' = heap
  PROVE  UNCHANGED Forest!vars /\ Named(heap')
<1>1. LabelsOf(heap') = LabelsOf(heap) /\ KidsOf(heap') = KidsOf(heap) /\ Named(heap') OBVIOUS
<1> QED BY <1>1 DEF Forest!vars, LabelsOf, KidsOf

LEMMA ForestLinkTop ==
  ASSUME DocInv, Named(heap), open # <<>>, LinkTop
  PROVE  Forest!Next /\ Named(heap')
<1>1. /\ Top \in Nodes /\ Top \in Unlinked /\ heap.kind[Top] # "free"
      /\ heap.parent[Top] \in Addresses /\ heap.kind[heap.parent[Top]] # "free"
  BY TopLive
<1>2. Sound(heap, Unlinked) /\ heap' = LinkEndChild(heap, heap.parent[Top], Top)
  BY DEF DocInv, LinkTop
<1> QED BY <1>1, <1>2, AttachStep

LEMMA ForestLoad ==
  ASSUME DocInv, TextInv, DocInv', Named(heap),
         \/ SkipWhiteSpace
         \/ \E n \in FreeNodes(heap) : StartElement(n) \/ Leaf(n) \/ CutLeaf(n) \/ StartText(n)
         \/ Attribute \/ NoAttribute \/ EndOfStartTag \/ EmptyElement
         \/ MoreText \/ EndText \/ EndElement \/ NoEndTag \/ ReturnNull \/ EndDocument
  PROVE  [Forest!Next]_(Forest!vars) /\ Named(heap')
<1>0. ModeInv /\ Sound(heap, Unlinked) /\ LinkType(heap) /\ LinkType(heap') /\ NoRing(heap'.next)
  BY DEF DocInv, Sound, Linked
<1>1. CASE SkipWhiteSpace \/ NoAttribute \/ EndOfStartTag \/ MoreText \/ NoEndTag \/ EndDocument
  <2>1. heap' = heap
    BY <1>1 DEF SkipWhiteSpace, NoAttribute, EndOfStartTag, MoreText, NoEndTag, EndDocument
  <2> QED BY <2>1, ForestSame
<1>2. ASSUME NEW n \in FreeNodes(heap), StartElement(n)
      PROVE  [Forest!Next]_(Forest!vars) /\ Named(heap')
  <2>1. heap' = New(heap, n, "element", token.name, Top) /\ token \in StartTags
    BY <1>2 DEF StartElement
  <2>2. PICK name \in Names : token = Token("open", name) BY <2>1 DEF StartTags
  <2>3. token.name \in AllNames BY <2>2 DEF Token, AllNames
  <2>4. "element" \in Kinds \ {"free", "document"} BY DEF Kinds
  <2>5. Top \in Pointers BY TopLive DEF Pointers
  <2> QED BY <1>0, <2>1, <2>3, <2>4, <2>5, CreateStep
<1>3. ASSUME NEW n \in FreeNodes(heap), StartText(n)
      PROVE  [Forest!Next]_(Forest!vars) /\ Named(heap')
  <2>1. heap' = New(heap, n, "text", Text.name, Top) BY <1>3 DEF StartText
  <2>2. Text.name \in AllNames BY DEF AllNames
  <2>3. "text" \in Kinds \ {"free", "document"} BY DEF Kinds
  <2>4. Top \in Pointers BY TopLive DEF Pointers
  <2> QED BY <1>0, <2>1, <2>2, <2>3, <2>4, CreateStep
<1>4. ASSUME NEW n \in FreeNodes(heap), Leaf(n) \/ CutLeaf(n)
      PROVE  [Forest!Next]_(Forest!vars) /\ Named(heap')
  <2>1. /\ heap' = LinkEndChild(New(heap, n, LeafKind, LeafName, Top), Top, n)
        /\ token \in Leaves \cup Cuts \cup EndTags
    BY <1>4 DEF Leaf, CutLeaf
  <2>2. LeafKind \in Kinds \ {"free", "document"} /\ LeafName \in AllNames
    <3>1. CASE token \in EndTags
      <4>1. PICK name \in Names : token = Token("close", name) BY <3>1 DEF EndTags
      <4>2. token.t = "close" /\ token.name \in Names BY <4>1 DEF Token
      <4> QED BY <4>2 DEF LeafKind, LeafName, Kinds, AllNames
    <3>2. CASE token \in Leaves \cup Cuts
      <4>1. PICK t \in {"leaf", "cut"}, kind \in LeafKinds : token = Token(t, kind)
        BY <3>2 DEF Leaves, Cuts
      <4>2. token.name \in LeafKinds /\ token.t # "close" BY <4>1 DEF Token
      <4> QED BY <4>2, DocumentAssumption DEF LeafKind, LeafName, Kinds, AllNames
    <3> QED BY <2>1, <3>1, <3>2
  <2>3. Top \in Addresses /\ heap.kind[Top] # "free" /\ Top \in {Top, Null} BY TopLive
  <2> QED BY <1>0, <2>1, <2>2, <2>3, CreateAttachedStep
<1>5. CASE Attribute
  <2>1. heap' = heap \/ \E attrs : heap' = WithAttrs(Top, attrs) BY <1>5 DEF Attribute
  <2>2. CASE heap' = heap BY <2>2, ForestSame
  <2>3. CASE \E attrs : heap' = WithAttrs(Top, attrs)
    <3>1. /\ heap'.kind = heap.kind /\ heap'.name = heap.name
          /\ heap'.first = heap.first /\ heap'.next = heap.next
      BY <1>0, <2>3 DEF WithAttrs, LinkType
    <3> QED BY <1>0, <3>1, ForestStays
  <2> QED BY <2>1, <2>2, <2>3
<1>6. CASE EmptyElement \/ EndText \/ EndElement \/ ReturnNull
  <2>1. \/ LinkTop /\ open # <<>>
        \/ heap' = heap
        \/ heap' = Free(heap, {Top}) /\ InText /\ open # <<>>
    BY <1>0, <1>6, TopLive DEF EmptyElement, EndText, EndElement, ReturnNull, ModeInv
  <2>2. CASE heap' = Free(heap, {Top}) /\ InText /\ open # <<>>
    <3>1. \A m \in Addresses : heap.parent[m] # Top BY <2>2 DEF TextInv
    <3> QED BY <1>0, <2>2, <3>1, TopLive, FreeTopStep
  <2> QED BY <2>1, <2>2, ForestSame, ForestLinkTop
<1> QED BY <1>1, <1>2, <1>3, <1>4, <1>5, <1>6

\* What the application does with an edit is the edit, of a document that is not read.
LEMMA ForestEdit ==
  ASSUME DocInv, DocInv', Named(heap),
         \/ \E p \in Live(heap), n \in FreeNodes(heap) : AddChild(p, n)
         \/ \E p, src \in Live(heap) : InsertEndChild(p, src)
         \/ \E x, src \in Live(heap) : \/ InsertBeforeChild(x, src) \/ InsertAfterChild(x, src)
                                       \/ ReplaceChild(x, src)
         \/ \E x \in Live(heap) : RemoveNode(x) \/ ClearNode(x)
         \/ \E e \in Live(heap), name \in AttrNames :
              RemoveAttribute(e, name) \/ \E value \in AttrValues : SetAttribute(e, name, value)
  PROVE  [Forest!Next]_(Forest!vars) /\ Named(heap')
<1>1. mode = "edit" /\ mode' = mode
  BY DEF AddChild, InsertEndChild, InsertBeforeChild, InsertAfterChild, ReplaceChild, RemoveNode,
         ClearNode, SetAttribute, RemoveAttribute, Edit
<1>2. open = <<>> /\ open' = <<>> BY <1>1 DEF DocInv, ModeInv
<1>3. Unlinked = {} /\ Unlinked' = {} BY <1>2 DEF Unlinked
<1>4. /\ Sound(heap, {}) /\ Sound(heap', {}) /\ LinkType(heap) /\ LinkType(heap') /\ NoRing(heap'.next)
      /\ Linked(heap, {}) /\ NoRing(heap.parent)
  BY <1>3 DEF DocInv, Sound, Linked
<1>5. \A n \in Live(heap) : n \in Addresses /\ heap.kind[n] # "free" /\ (n # Doc => n \in Nodes)
  BY DEF Addresses
<1>6. ASSUME NEW p \in Live(heap), NEW n \in FreeNodes(heap), AddChild(p, n)
      PROVE  [Forest!Next]_(Forest!vars) /\ Named(heap')
  <2>1. PICK kind \in {"element", "text"}, name \in AllNames :
          heap' = LinkEndChild(New(heap, n, kind, name, Null), p, n)
    BY <1>6 DEF AddChild, Edit, AllNames
  <2>2. kind \in Kinds \ {"free", "document"} /\ Null \in {p, Null} BY DEF Kinds
  <2> QED BY <1>4, <1>5, <2>1, <2>2, CreateAttachedStep
<1>7. ASSUME NEW src \in Live(heap), src # Doc, NEW f \in Rooms(heap, src),
             NEW g, g = Clone(heap, src, f)
      PROVE  Linked(g, {f[src]})
  <2>1. Copied(heap, g, {f[k] : k \in Subtree(heap, src)}, f[src])
    BY <1>4, <1>5, <1>7, CloneSound
  <2> QED BY <2>1 DEF Copied
<1>8. ASSUME NEW p \in Live(heap), NEW src \in Live(heap), InsertEndChild(p, src)
      PROVE  [Forest!Next]_(Forest!vars) /\ Named(heap')
  <2>1. PICK f \in Rooms(heap, src) : heap' = LinkEndChild(Clone(heap, src, f), p, f[src])
    BY <1>8 DEF InsertEndChild, Edit
  <2> DEFINE g == Clone(heap, src, f)
  <2>2. src # Doc BY <1>8 DEF InsertEndChild
  <2>3. Gap(g, {f[src]}, p, g.last[p], Null) /\ g.last[p] \in Pointers /\ Null \in Pointers
    BY <1>5, <1>7, <2>2, EndGap DEF Pointers
  <2>4. heap' = Splice(g, p, g.last[p], Null, f[src]) BY <2>1 DEF LinkEndChild
  <2> HIDE DEF g
  <2> QED BY <1>4, <1>5, <2>2, <2>3, <2>4, InsertCopyStep DEF g
<1>9. ASSUME NEW x \in Live(heap), NEW src \in Live(heap),
             InsertBeforeChild(x, src) \/ InsertAfterChild(x, src) \/ ReplaceChild(x, src)
      PROVE  [Forest!Next]_(Forest!vars) /\ Named(heap')
  <2>1. PICK f \in Rooms(heap, src) :
          \/ heap' = LinkBefore(Clone(heap, src, f), x, f[src])
          \/ heap' = LinkAfter(Clone(heap, src, f), x, f[src])
          \/ heap' = ReplaceLink(Clone(heap, src, f), x, f[src])
    BY <1>9 DEF InsertBeforeChild, InsertAfterChild, ReplaceChild, Edit
  <2>2. src # Doc /\ heap.parent[x] # Null
    BY <1>9 DEF InsertBeforeChild, InsertAfterChild, ReplaceChild
  <2> DEFINE g == Clone(heap, src, f)
             p == heap.parent[x]
  <2>3. g = Clone(heap, src, f) OBVIOUS
  <2> HIDE DEF g
  <2>4. /\ Linked(g, {f[src]}) /\ g.parent[x] = p /\ x \notin {f[src]} /\ g.parent[x] # Null
        /\ p \in Addresses /\ heap.kind[p] # "free" /\ x \in Addresses /\ x \in Pointers
    <3>1. x \in Addresses /\ x \in Pointers BY <1>5 DEF Pointers
    <3>2. Linked(g, {f[src]}) BY <1>7, <2>2, <2>3
    <3>3. g.parent[x] = p /\ x # f[src]
      <4>1. Copied(heap, g, {f[k] : k \in Subtree(heap, src)}, f[src])
        BY <1>4, <1>5, <2>3, CloneSound
      <4>2. heap.kind[x] # "free" BY <1>5
      <4> QED BY <3>1, <4>1, <4>2 DEF Copied
    <3>4. p \in Addresses /\ heap.kind[p] # "free"
      BY <1>4, <2>2, <3>1 DEF Linked, LinksConsistent, NodeLinked, ParentLive
    <3> QED BY <2>2, <3>1, <3>2, <3>3, <3>4
  <2> HIDE DEF p
  <2>5. /\ Gap(g, {f[src]}, p, g.prev[x], x) /\ g.prev[x] \in Pointers
        /\ Gap(g, {f[src]}, p, x, g.next[x]) /\ g.next[x] \in Pointers
    BY <2>4, BeforeGap, AfterGap
  <2>6. CASE heap' = LinkBefore(g, x, f[src])
    <3>1. heap' = Splice(g, p, g.prev[x], x, f[src]) BY <2>4, <2>6 DEF LinkBefore
    <3> QED BY <1>4, <1>5, <2>2, <2>3, <2>4, <2>5, <3>1, InsertCopyStep
  <2>7. CASE heap' = LinkAfter(g, x, f[src])
    <3>1. heap' = Splice(g, p, x, g.next[x], f[src]) BY <2>4, <2>7 DEF LinkAfter
    <3> QED BY <1>4, <1>5, <2>2, <2>3, <2>4, <2>5, <3>1, InsertCopyStep
  <2>8. CASE heap' = ReplaceLink(g, x, f[src])
    BY <1>4, <1>5, <2>2, <2>3, <2>4, <2>8, ReplaceStep
  <2> QED BY <2>1, <2>3, <2>6, <2>7, <2>8
<1>10. ASSUME NEW x \in Live(heap), RemoveNode(x)
       PROVE  [Forest!Next]_(Forest!vars) /\ Named(heap')
  <2>1. heap.parent[x] # Null /\ heap' = RemoveChild(heap, x) BY <1>10 DEF RemoveNode, Edit
  <2> QED BY <1>4, <1>5, <2>1, DeleteStep
<1>11. ASSUME NEW p \in Live(heap), ClearNode(p)
       PROVE  [Forest!Next]_(Forest!vars) /\ Named(heap')
  <2>1. heap' = Clear(heap, p) BY <1>11 DEF ClearNode, Edit
  <2> QED BY <1>4, <1>5, <2>1, ClearStep
<1>12. ASSUME NEW e \in Live(heap), NEW name \in AttrNames,
              RemoveAttribute(e, name) \/ \E value \in AttrValues : SetAttribute(e, name, value)
       PROVE  [Forest!Next]_(Forest!vars) /\ Named(heap')
  <2>1. PICK attrs : heap' = WithAttrs(e, attrs) BY <1>12 DEF RemoveAttribute, SetAttribute, Edit
  <2>2. /\ heap'.kind = heap.kind /\ heap'.name = heap.name
        /\ heap'.first = heap.first /\ heap'.next = heap.next
    BY <1>4, <2>1 DEF WithAttrs, LinkType
  <2> QED BY <1>4, <2>2, ForestStays
<1> QED BY <1>6, <1>8, <1>9, <1>10, <1>11, <1>12

LEMMA ForestFile ==
  ASSUME DocInv, Named(heap), Keep \/ SaveAndLoad
  PROVE  [Forest!Next]_(Forest!vars) /\ Named(heap')
<1>1. CASE Keep
  <2>1. heap' = heap BY <1>1 DEF Keep
  <2> QED BY <2>1, ForestSame
<1>2. CASE SaveAndLoad
  <2>1. heap' = Clear(heap, Doc) /\ open = <<>> BY <1>2 DEF SaveAndLoad, DocInv, ModeInv
  <2>2. Unlinked = {} BY <2>1 DEF Unlinked
  <2>3. Sound(heap, {}) BY <2>2 DEF DocInv
  <2> QED BY <2>1, <2>3, ClearStep, NullIsNone
<1> QED BY <1>1, <1>2

-----------------------------------------------------------------------------
(* Backwards.                                                              *)

Backwards(s) == [i \in 1 .. Len(s) |-> s[Len(s) + 1 - i]]

LEMMA BackwardsIs ==
  ASSUME NEW s \in Seq(Addresses)
  PROVE  /\ Backwards(s) \in Seq(Addresses) /\ Len(Backwards(s)) = Len(s)
         /\ \A i \in 1 .. Len(s) : Backwards(s)[i] = s[Len(s) + 1 - i]
         /\ Backwards(Backwards(s)) = s
<1> DEFINE t == Backwards(s)
<1>1. Len(s) \in Nat /\ \A i \in 1 .. Len(s) : s[i] \in Addresses OBVIOUS
<1>2. ASSUME NEW i \in 1 .. Len(s)
      PROVE  Len(s) + 1 - i \in 1 .. Len(s) /\ s[Len(s) + 1 - i] \in Addresses
  BY <1>1
<1>3. t \in Seq(Addresses) /\ Len(t) = Len(s) /\ \A i \in 1 .. Len(s) : t[i] = s[Len(s) + 1 - i]
  <2>1. t \in [1 .. Len(s) -> Addresses] BY <1>2 DEF Backwards
  <2> QED BY <1>1, <2>1 DEF Backwards
<1> HIDE DEF t
<1>4. Backwards(t) = s
  <2>1. Backwards(t) = [i \in 1 .. Len(s) |-> t[Len(s) + 1 - i]] BY <1>3 DEF Backwards
  <2>2. \A i \in 1 .. Len(s) : t[Len(s) + 1 - i] = s[i]
    <3> TAKE i \in 1 .. Len(s)
    <3>1. t[Len(s) + 1 - i] = s[Len(s) + 1 - (Len(s) + 1 - i)] BY <1>2, <1>3
    <3>2. Len(s) + 1 - (Len(s) + 1 - i) = i BY <1>1
    <3> QED BY <3>1, <3>2
  <2>3. s = [i \in 1 .. Len(s) |-> s[i]] OBVIOUS
  <2> QED BY <2>1, <2>2, <2>3
<1> QED BY <1>3, <1>4 DEF t

LEMMA BackwardsCons ==
  ASSUME NEW n \in Addresses, NEW t \in Seq(Addresses)
  PROVE  Backwards(<<n>> \o t) = Backwards(t) \o <<n>>
<1> DEFINE s == <<n>> \o t
           u == Backwards(t) \o <<n>>
<1>1. /\ s \in Seq(Addresses) /\ Len(s) = Len(t) + 1 /\ s[1] = n
      /\ \A i \in 2 .. Len(s) : s[i] = t[i - 1]
      /\ Len(t) \in Nat
  OBVIOUS
<1>2. /\ Backwards(t) \in Seq(Addresses) /\ Len(Backwards(t)) = Len(t)
      /\ \A i \in 1 .. Len(t) : Backwards(t)[i] = t[Len(t) + 1 - i]
  BY BackwardsIs
<1>3. /\ u \in Seq(Addresses) /\ Len(u) = Len(t) + 1 /\ u[Len(t) + 1] = n
      /\ \A i \in 1 .. Len(t) : u[i] = Backwards(t)[i]
  BY <1>2
<1> HIDE DEF s, u
<1>4. ASSUME NEW i \in 1 .. Len(s) PROVE s[Len(s) + 1 - i] = u[i]
  <2>1. CASE i = Len(s)
    <3>1. Len(s) + 1 - i = 1 BY <1>1, <2>1
    <3> QED BY <1>1, <1>3, <2>1, <3>1
  <2>2. CASE i # Len(s)
    <3>1. i \in 1 .. Len(t) /\ Len(s) + 1 - i \in 2 .. Len(s) /\ Len(s) + 1 - i - 1 = Len(t) + 1 - i
      BY <1>1, <2>2
    <3>2. s[Len(s) + 1 - i] = t[Len(s) + 1 - i - 1] BY <1>1, <3>1
    <3>3. u[i] = t[Len(t) + 1 - i] BY <1>2, <1>3, <3>1
    <3> QED BY <3>1, <3>2, <3>3
  <2> QED BY <2>1, <2>2
<1>5. u = [i \in 1 .. Len(s) |-> u[i]] BY <1>1, <1>3
<1>6. Backwards(s) = [i \in 1 .. Len(s) |-> s[Len(s) + 1 - i]] BY DEF Backwards
<1> QED BY <1>4, <1>5, <1>6 DEF s, u

\* Where prev leads, ChildrenBack shows.
LEMMA ChildrenBackAre ==
  ASSUME NEW h, LinkType(h), NoRing(h.prev), NEW p \in Addresses,
         NEW s, Path(h.prev, h.last[p], s)
  PROVE  ChildrenBack(h, p) = Backwards(s)
<1> DEFINE f == h.prev
           Chain(c) == c = [n \in Pointers |-> IF n = Null THEN <<>> ELSE c[h.prev[n]] \o <<n>>]
           P == [n \in Pointers |-> CHOOSE t : Path(f, n, t)]
           G == [n \in Pointers |-> Backwards(P[n])]
<1>1. f \in [Addresses -> Pointers] /\ NoRing(f) /\ h.last[p] \in Pointers BY DEF LinkType
<1>2. \A n \in Pointers : Path(f, n, P[n]) BY <1>1, PathExists
<1>3. P[Null] = <<>>
  <2>1. Path(f, Null, P[Null]) BY <1>2 DEF Pointers
  <2> QED BY <2>1, PathNull
<1>4. Backwards(<<>>) = <<>> BY DEF Backwards
<1>5. ASSUME NEW n \in Addresses
      PROVE  f[n] \in Pointers /\ Backwards(P[n]) = Backwards(P[f[n]]) \o <<n>>
  <2>1. f[n] \in Pointers /\ n \in Pointers BY <1>1 DEF Pointers
  <2>2. Path(f, n, <<n>> \o P[f[n]]) BY <1>2, <2>1, PathCons
  <2>3. P[n] = <<n>> \o P[f[n]] BY <1>1, <1>2, <2>1, <2>2, PathUnique
  <2>4. P[f[n]] \in Seq(Addresses) BY <1>2, <2>1 DEF Path
  <2> QED BY <2>1, <2>3, <2>4, BackwardsCons
<1>6. Path(f, h.last[p], s) OBVIOUS
<1>7. s = P[h.last[p]] BY <1>1, <1>2, <1>6, PathUnique
<1> HIDE DEF P
<1>8. Chain(G)
  <2>1. ASSUME NEW n \in Pointers
        PROVE  G[n] = IF n = Null THEN <<>> ELSE G[f[n]] \o <<n>>
    BY <1>3, <1>4, <1>5 DEF Pointers
  <2>2. G = [n \in Pointers |-> G[n]] OBVIOUS
  <2> HIDE DEF G
  <2> QED BY <2>1, <2>2
<1>9. PICK c : Chain(c) /\ ChildrenBack(h, p) = c[h.last[p]]
  <2>1. Chain(CHOOSE c : Chain(c)) BY <1>8
  <2> QED BY <2>1 DEF ChildrenBack
<1>10. \A n \in Pointers : c[n] = IF n = Null THEN <<>> ELSE c[f[n]] \o <<n>> BY <1>9
<1> HIDE DEF Chain, f, G
<1>11. c[Null] = Backwards(P[Null]) BY <1>3, <1>4, <1>10 DEF Pointers
<1>12. ASSUME NEW S, S = {n \in Addresses : c[n] # Backwards(P[n])}, S # {} PROVE FALSE
  <2>1. PICK n \in S : f[n] \notin S BY <1>1, <1>12 DEF NoRing
  <2>2. n \in Addresses /\ n \in Pointers /\ n # Null /\ f[n] \in Pointers
    BY <1>1, <1>12, NullIsNone DEF Pointers
  <2>3. c[f[n]] = Backwards(P[f[n]]) BY <1>11, <1>12, <2>1, <2>2 DEF Pointers
  <2> QED BY <1>5, <1>10, <1>12, <2>2, <2>3
<1>13. c[h.last[p]] = Backwards(P[h.last[p]])
  <2>1. CASE h.last[p] = Null BY <1>11, <2>1
  <2>2. CASE h.last[p] \in Addresses BY <1>12, <2>2
  <2> QED BY <1>1, <2>1, <2>2 DEF Pointers
<1> QED BY <1>7, <1>9, <1>13

\* Backwards too nobody comes round.
LEMMA PrevNoRing ==
  ASSUME NEW h, NEW U, Sound(h, U)
  PROVE  NoRing(h.prev)
<1> SUFFICES ASSUME NEW S \in SUBSET Addresses, S # {}
             PROVE  \E n \in S : h.prev[n] \notin S
  BY DEF NoRing
<1>1. PICK m \in S : TRUE OBVIOUS
<1>2. CASE m \in U \/ h.parent[m] = Null
  <2>1. h.prev[m] = Null BY <1>2 DEF Sound, Linked, LinksConsistent, NodeLinked, Loose
  <2> QED BY <1>1, <2>1, NullIsNone
<1>3. CASE m \notin U /\ h.parent[m] # Null
  <2> DEFINE p == h.parent[m]
             s == Children(h, p)
             T == {i \in 1 .. Len(s) : s[i] \in S}
  <2>1. p \in Addresses BY <1>3 DEF Sound, Linked, LinkType, Pointers
  <2>2. ListIs(h, U, p, s) BY <2>1, ListsAre
  <2>3. \E i \in 1 .. Len(s) : s[i] = m BY <1>3, <2>2 DEF ListIs
  <2>4. T \in SUBSET Nat /\ T # {} BY <1>1, <2>3
  <2>5. PICK i \in T : \A j \in T : i <= j BY <2>4, LeastNumber
  <2>6. h.prev[s[i]] = IF i = 1 THEN Null ELSE s[i - 1] BY <2>2, <2>5 DEF ListIs
  <2>7. CASE i = 1 BY <2>5, <2>6, <2>7, NullIsNone
  <2>8. CASE i # 1
    <3>1. i \in Nat /\ i - 1 \in 1 .. Len(s) /\ ~(i <= i - 1) BY <2>5, <2>8
    <3>2. s[i - 1] \notin S BY <2>5, <3>1
    <3> QED BY <2>5, <2>6, <2>8, <3>2
  <2> QED BY <2>7, <2>8
<1> QED BY <1>2, <1>3

LEMMA BackList ==
  ASSUME NEW h, NEW U, Sound(h, U), NEW p \in Addresses
  PROVE  ChildrenBack(h, p) = Children(h, p)
<1> DEFINE s == Children(h, p)
           t == Backwards(s)
<1>1. ListIs(h, U, p, s) BY ListsAre
<1>2. s \in Seq(Addresses) BY <1>1 DEF ListIs, Path
<1>3. /\ t \in Seq(Addresses) /\ Len(t) = Len(s) /\ Len(s) \in Nat
      /\ \A i \in 1 .. Len(s) : t[i] = s[Len(s) + 1 - i]
      /\ Backwards(t) = s
  BY <1>2, BackwardsIs
<1> HIDE DEF s, t
<1>4. h.last[p] = IF t = <<>> THEN Null ELSE t[1]
  <2>1. t = <<>> <=> s = <<>> BY <1>2, <1>3
  <2>2. s # <<>> => t[1] = s[Len(s)] BY <1>2, <1>3
  <2> QED BY <1>1, <2>1, <2>2 DEF ListIs
<1>5. ASSUME NEW i \in 1 .. Len(t)
      PROVE  h.prev[t[i]] = IF i = Len(t) THEN Null ELSE t[i + 1]
  <2> DEFINE j == Len(s) + 1 - i
  <2>1. j \in 1 .. Len(s) /\ t[i] = s[j] /\ (j = 1 <=> i = Len(t)) BY <1>3
  <2>2. h.prev[s[j]] = IF j = 1 THEN Null ELSE s[j - 1] BY <1>1, <2>1 DEF ListIs
  <2>3. i # Len(t) => t[i + 1] = s[j - 1]
    <3>1. i # Len(t) => i + 1 \in 1 .. Len(s) /\ Len(s) + 1 - (i + 1) = j - 1 BY <1>3
    <3> QED BY <1>3, <3>1
  <2> QED BY <2>1, <2>2, <2>3
<1>6. Path(h.prev, h.last[p], t) BY <1>3, <1>4, <1>5 DEF Path
<1> QED BY <1>3, <1>6, ChildrenBackAre, PrevNoRing DEF Sound, Linked, s

-----------------------------------------------------------------------------
(* Forwards.                                                               *)

\* m is the first of s that is in good, or Null.
IsFirst(s, m, good) ==
  \/ m = Null /\ \A i \in 1 .. Len(s) : s[i] \notin good
  \/ \E i \in 1 .. Len(s) : m = s[i] /\ s[i] \in good /\ \A j \in 1 .. i - 1 : s[j] \notin good

LEMMA FirstExists ==
  ASSUME NEW s \in Seq(Addresses), NEW good
  PROVE  \E m : IsFirst(s, m, good)
<1> DEFINE T == {i \in 1 .. Len(s) : s[i] \in good}
<1>1. CASE T = {} BY <1>1 DEF IsFirst
<1>2. CASE T # {}
  <2>1. T \in SUBSET Nat OBVIOUS
  <2>2. PICK i \in T : \A j \in T : i <= j BY <1>2, <2>1, LeastNumber
  <2>3. \A j \in 1 .. i - 1 : s[j] \notin good
    <3> SUFFICES ASSUME NEW j \in 1 .. i - 1, s[j] \in good PROVE FALSE OBVIOUS
    <3>1. j \in T /\ j < i BY <2>2
    <3> QED BY <2>2, <3>1
  <2> QED BY <2>2, <2>3 DEF IsFirst
<1> QED BY <1>1, <1>2

LEMMA FirstUnique ==
  ASSUME NEW s \in Seq(Addresses), NEW good, NEW m, NEW n, IsFirst(s, m, good), IsFirst(s, n, good)
  PROVE  m = n
<1>1. \A i \in 1 .. Len(s) : s[i] \in Addresses OBVIOUS
<1>2. \A i, j \in 1 .. Len(s) : i = j \/ i \in 1 .. j - 1 \/ j \in 1 .. i - 1 OBVIOUS
<1> QED BY <1>1, <1>2 DEF IsFirst

LEMMA FirstCons ==
  ASSUME NEW n \in Addresses, NEW t \in Seq(Addresses), NEW good
  PROVE  /\ n \in good => IsFirst(<<n>> \o t, n, good)
         /\ \A m : n \notin good /\ IsFirst(t, m, good) => IsFirst(<<n>> \o t, m, good)
<1> DEFINE s == <<n>> \o t
<1>1. /\ Len(s) = Len(t) + 1 /\ s[1] = n /\ Len(t) \in Nat
      /\ \A i \in 2 .. Len(s) : s[i] = t[i - 1]
  OBVIOUS
<1> HIDE DEF s
<1>2. n \in good => IsFirst(s, n, good)
  <2>1. 1 \in 1 .. Len(s) /\ 1 .. 1 - 1 = {} BY <1>1
  <2> QED BY <1>1, <2>1 DEF IsFirst
<1>3. ASSUME NEW m, n \notin good, IsFirst(t, m, good) PROVE IsFirst(s, m, good)
  <2>1. \A i \in 1 .. Len(s) : i = 1 \/ (i \in 2 .. Len(s) /\ i - 1 \in 1 .. Len(t)) BY <1>1
  <2>2. CASE m = Null /\ \A i \in 1 .. Len(t) : t[i] \notin good
    <3>1. \A i \in 1 .. Len(s) : s[i] \notin good BY <1>1, <1>3, <2>1, <2>2
    <3> QED BY <2>2, <3>1 DEF IsFirst
  <2>3. ASSUME NEW i \in 1 .. Len(t), m = t[i], t[i] \in good, \A j \in 1 .. i - 1 : t[j] \notin good
        PROVE  IsFirst(s, m, good)
    <3>1. i + 1 \in 2 .. Len(s) /\ i + 1 \in 1 .. Len(s) /\ i + 1 - 1 = i BY <1>1
    <3>2. m = s[i + 1] /\ s[i + 1] \in good BY <1>1, <2>3, <3>1
    <3>3. ASSUME NEW j \in 1 .. i + 1 - 1 PROVE s[j] \notin good
      <4>1. j = 1 \/ (j \in 2 .. Len(s) /\ j - 1 \in 1 .. i - 1) BY <1>1
      <4> QED BY <1>1, <1>3, <2>3, <4>1
    <3> QED BY <3>1, <3>2, <3>3 DEF IsFirst
  <2> QED BY <1>3, <2>2, <2>3 DEF IsFirst
<1> QED BY <1>2, <1>3 DEF s

Fitting(h, name, elements) == {n \in Addresses : Fits(h, n, name, elements)}

\* FirstChild and NextSibling come to the first that fits, from where they start.
LEMMA ForwardIs ==
  ASSUME NEW h, LinkType(h), NoRing(h.next), NEW name, NEW elements, NEW start \in Pointers,
         NEW s, Path(h.next, start, s)
  PROVE  IsFirst(s, Forward(h, start, name, elements), Fitting(h, name, elements))
<1> DEFINE f == h.next
           good == Fitting(h, name, elements)
           From(c) == c = [n \in Pointers |->
                             IF n = Null \/ Fits(h, n, name, elements) THEN n ELSE c[h.next[n]]]
           P == [n \in Pointers |-> CHOOSE t : Path(f, n, t)]
           G == [n \in Pointers |-> CHOOSE m : IsFirst(P[n], m, good)]
<1>1. f \in [Addresses -> Pointers] /\ NoRing(f) BY DEF LinkType
<1>2. \A n \in Pointers : Path(f, n, P[n]) BY <1>1, PathExists
<1>3. Path(f, start, s) OBVIOUS
<1>4. s = P[start] BY <1>1, <1>2, <1>3, PathUnique
<1>5. P[Null] = <<>>
  <2>1. Path(f, Null, P[Null]) BY <1>2 DEF Pointers
  <2> QED BY <2>1, PathNull
<1>6. \A n \in Pointers : P[n] \in Seq(Addresses) BY <1>2 DEF Path
<1>7. ASSUME NEW n \in Addresses
      PROVE  f[n] \in Pointers /\ n \in Pointers /\ P[n] = <<n>> \o P[f[n]]
  <2>1. f[n] \in Pointers /\ n \in Pointers BY <1>1 DEF Pointers
  <2>2. Path(f, n, <<n>> \o P[f[n]]) BY <1>2, <2>1, PathCons
  <2>3. P[n] = <<n>> \o P[f[n]] BY <1>1, <1>2, <2>1, <2>2, PathUnique
  <2> QED BY <2>1, <2>3
<1>8. \A n \in Addresses : Fits(h, n, name, elements) <=> n \in good BY DEF Fitting
<1>9. \A m : IsFirst(<<>>, m, good) <=> m = Null BY DEF IsFirst
<1> HIDE DEF P, good
<1>10. \A n \in Pointers : IsFirst(P[n], G[n], good) BY <1>6, FirstExists
<1>11. From(G)
  <2>1. ASSUME NEW n \in Pointers
        PROVE  G[n] = IF n = Null \/ Fits(h, n, name, elements) THEN n ELSE G[f[n]]
    <3> HIDE DEF G
    <3>1. CASE n = Null BY <1>5, <1>9, <1>10, <3>1
    <3>2. CASE n # Null /\ n \in good
      <4>1. n \in Addresses BY <3>2 DEF Pointers
      <4>2. IsFirst(P[n], n, good) BY <1>6, <1>7, <3>2, <4>1, FirstCons
      <4>3. G[n] = n BY <1>6, <1>10, <4>2, FirstUnique
      <4> QED BY <1>8, <3>2, <4>1, <4>3
    <3>3. CASE n # Null /\ n \notin good
      <4>1. n \in Addresses BY <3>3 DEF Pointers
      <4>2. IsFirst(P[n], G[f[n]], good) BY <1>6, <1>7, <1>10, <3>3, <4>1, FirstCons
      <4>3. G[n] = G[f[n]] BY <1>6, <1>10, <4>2, FirstUnique
      <4> QED BY <1>8, <3>3, <4>1, <4>3
    <3> QED BY <3>1, <3>2, <3>3
  <2>2. G = [n \in Pointers |-> G[n]] OBVIOUS
  <2> HIDE DEF G
  <2> QED BY <2>1, <2>2
<1>12. PICK c : From(c) /\ Forward(h, start, name, elements) = c[start]
  <2>1. From(CHOOSE c : From(c)) BY <1>11
  <2> QED BY <2>1 DEF Forward
<1>13. \A n \in Pointers :
         c[n] = IF n = Null \/ Fits(h, n, name, elements) THEN n ELSE c[f[n]]
  BY <1>12
<1> HIDE DEF From, f, G
<1>14. IsFirst(P[Null], c[Null], good) BY <1>5, <1>9, <1>13 DEF Pointers
<1>15. ASSUME NEW S, S = {n \in Addresses : ~IsFirst(P[n], c[n], good)}, S # {} PROVE FALSE
  <2>1. PICK n \in S : f[n] \notin S BY <1>1, <1>15 DEF NoRing
  <2>2. n \in Addresses /\ n \in Pointers /\ n # Null /\ f[n] \in Pointers /\ P[f[n]] \in Seq(Addresses)
    BY <1>1, <1>6, <1>15, NullIsNone DEF Pointers
  <2>3. IsFirst(P[f[n]], c[f[n]], good) BY <1>14, <1>15, <2>1, <2>2 DEF Pointers
  <2>4. IsFirst(P[n], c[n], good)
    <3>1. CASE n \in good
      <4>1. c[n] = n BY <1>8, <1>13, <2>2, <3>1
      <4> QED BY <1>7, <2>2, <3>1, <4>1, FirstCons
    <3>2. CASE n \notin good
      <4>1. c[n] = c[f[n]] BY <1>8, <1>13, <2>2, <3>2
      <4> QED BY <1>7, <2>2, <2>3, <3>2, <4>1, FirstCons
    <3> QED BY <3>1, <3>2
  <2> QED BY <1>15, <2>1, <2>4
<1>16. IsFirst(P[start], c[start], good)
  <2>1. CASE start = Null BY <1>14, <2>1
  <2>2. CASE start \in Addresses BY <1>15, <2>2
  <2> QED BY <2>1, <2>2 DEF Pointers
<1> QED BY <1>4, <1>12, <1>16 DEF good

\* m is the first node behind the k-th of s that fits.
FirstBehind(h, s, k, m, name, elements) ==
  \/ m = Null /\ \A i \in k + 1 .. Len(s) : ~Fits(h, s[i], name, elements)
  \/ \E i \in k + 1 .. Len(s) :
       /\ m = s[i] /\ Fits(h, s[i], name, elements)
       /\ \A j \in k + 1 .. i - 1 : ~Fits(h, s[j], name, elements)

Behind(s, k) == IF k = Len(s) THEN Null ELSE s[k + 1]

Threaded(h, s) == \A i \in 1 .. Len(s) : h.next[s[i]] = IF i = Len(s) THEN Null ELSE s[i + 1]

LEMMA ForwardIn ==
  ASSUME NEW h, LinkType(h), NoRing(h.next), NEW s \in Seq(Addresses), Threaded(h, s),
         NEW k \in 0 .. Len(s), NEW start, start = Behind(s, k), NEW name, NEW elements
  PROVE  FirstBehind(h, s, k, Forward(h, start, name, elements), name, elements)
<1> DEFINE t == SubSeq(s, k + 1, Len(s))
           good == Fitting(h, name, elements)
           m == Forward(h, start, name, elements)
<1>0. /\ start = IF k = Len(s) THEN Null ELSE s[k + 1]
      /\ \A i \in 1 .. Len(s) : h.next[s[i]] = IF i = Len(s) THEN Null ELSE s[i + 1]
  BY DEF Behind, Threaded
<1>1. Len(s) \in Nat /\ k \in Nat /\ \A i \in 1 .. Len(s) : s[i] \in Addresses OBVIOUS
<1>2. /\ t \in Seq(Addresses) /\ Len(t) = Len(s) - k
      /\ \A i \in 1 .. Len(s) - k : t[i] = s[k + i]
  OBVIOUS
<1> HIDE DEF t
<1>3. \A i \in 1 .. Len(s) - k : k + i \in 1 .. Len(s) /\ k + i \in k + 1 .. Len(s) BY <1>1
<1>4. Path(h.next, start, t)
  <2>1. t = <<>> <=> k = Len(s) BY <1>1, <1>2
  <2>2. start = IF t = <<>> THEN Null ELSE t[1]
    <3>1. k # Len(s) => 1 \in 1 .. Len(s) - k BY <1>1
    <3> QED BY <1>0, <1>2, <2>1, <3>1
  <2>3. ASSUME NEW i \in 1 .. Len(t) PROVE h.next[t[i]] = IF i = Len(t) THEN Null ELSE t[i + 1]
    <3>1. i \in 1 .. Len(s) - k /\ t[i] = s[k + i] /\ (i = Len(t) <=> k + i = Len(s)) BY <1>1, <1>2
    <3>2. h.next[s[k + i]] = IF k + i = Len(s) THEN Null ELSE s[k + i + 1] BY <1>0, <1>3, <3>1
    <3>3. k + (i + 1) = k + i + 1 BY <1>1, <3>1
    <3>4. i # Len(t) => i + 1 \in 1 .. Len(s) - k
      <4>1. Len(s) \in Nat /\ k \in Nat /\ i \in 1 .. Len(s) - k /\ Len(t) = Len(s) - k
        BY <1>1, <1>2, <3>1
      <4> QED BY ONLY <4>1
    <3> QED BY <1>2, <3>1, <3>2, <3>3, <3>4
  <2> QED BY <1>2, <2>2, <2>3 DEF Path
<1>5. start \in Pointers
  <2>1. k # Len(s) => k + 1 \in 1 .. Len(s) BY <1>1
  <2> QED BY <1>0, <1>1, <2>1 DEF Pointers
<1>6. IsFirst(t, m, good) BY <1>4, <1>5, ForwardIs
<1>7. \A i \in 1 .. Len(s) : s[i] \in good <=> Fits(h, s[i], name, elements)
  BY <1>1 DEF Fitting
<1> HIDE DEF good, m
<1>8. \A i \in k + 1 .. Len(s) : i \in 1 .. Len(s) /\ i - k \in 1 .. Len(t) /\ t[i - k] = s[i]
  <2> TAKE i \in k + 1 .. Len(s)
  <2>1. i - k \in 1 .. Len(s) - k /\ k + (i - k) = i /\ i \in 1 .. Len(s) BY <1>1
  <2> QED BY <1>2, <2>1
<1>9. CASE m = Null /\ \A i \in 1 .. Len(t) : t[i] \notin good
  <2>1. \A i \in k + 1 .. Len(s) : ~Fits(h, s[i], name, elements) BY <1>7, <1>8, <1>9
  <2> QED BY <1>9, <2>1 DEF FirstBehind, m
<1>10. ASSUME NEW i \in 1 .. Len(t), m = t[i], t[i] \in good, \A j \in 1 .. i - 1 : t[j] \notin good
       PROVE  FirstBehind(h, s, k, m, name, elements)
  <2> DEFINE j == k + i
  <2>1. j \in k + 1 .. Len(s) /\ j \in 1 .. Len(s) /\ t[i] = s[j] BY <1>2, <1>3
  <2>2. ASSUME NEW l \in k + 1 .. j - 1 PROVE ~Fits(h, s[l], name, elements)
    <3>1. l \in k + 1 .. Len(s) /\ l - k \in 1 .. i - 1 BY <1>1, <2>1
    <3>2. t[l - k] \notin good BY <1>10, <3>1
    <3> QED BY <1>7, <1>8, <3>1, <3>2
  <2>3. m = s[j] /\ Fits(h, s[j], name, elements) 
    BY <1>7, <1>10, <2>1
  <2> HIDE DEF j
  <2> QED BY <2>1, <2>2, <2>3 DEF FirstBehind
<1> QED BY <1>6, <1>9, <1>10 DEF IsFirst, m

Iterates(S, first, f, count, w) ==
  w \in [0 .. count -> S] /\ w[0] = first /\ \A i \in 1 .. count : w[i] = f[w[i - 1]]

LEMMA IterateExists ==
  ASSUME NEW S, NEW first \in S, NEW f \in [S -> S], NEW count \in Nat
  PROVE  \E w : Iterates(S, first, f, count, w)
<1> DEFINE Done(n) == \E w \in [0 .. n -> S] : w[0] = first /\ \A i \in 1 .. n : w[i] = f[w[i - 1]]
           T == {n \in Nat : ~Done(n)}
<1>1. Done(0)
  <2> DEFINE w == [i \in 0 .. 0 |-> first]
  <2>1. w \in [0 .. 0 -> S] /\ w[0] = first /\ \A i \in 1 .. 0 : w[i] = f[w[i - 1]] OBVIOUS
  <2> QED BY <2>1
<1>2. ASSUME NEW n \in Nat, n # 0, Done(n - 1) PROVE Done(n)
  <2>1. PICK w \in [0 .. n - 1 -> S] :
          w[0] = first /\ \A i \in 1 .. n - 1 : w[i] = f[w[i - 1]]
    BY <1>2
  <2> DEFINE v == [i \in 0 .. n |-> IF i = n THEN f[w[n - 1]] ELSE w[i]]
  <2>2. \A i \in 0 .. n - 1 : i \in 0 .. n /\ v[i] = w[i] BY <1>2
  <2>3. n \in 0 .. n /\ v[n] = f[w[n - 1]] /\ w[n - 1] \in S BY <1>2, <2>1
  <2>4. \A i \in 0 .. n : i = n \/ i \in 0 .. n - 1 BY <1>2
  <2>5. v \in [0 .. n -> S]
    <3>1. \A i \in 0 .. n : v[i] \in S BY <2>1, <2>2, <2>3, <2>4
    <3> QED BY <3>1
  <2> HIDE DEF v
  <2>6. v[0] = first BY <1>2, <2>1, <2>2
  <2>7. ASSUME NEW i \in 1 .. n PROVE v[i] = f[v[i - 1]]
    <3>1. i - 1 \in 0 .. n - 1 /\ (i # n => i \in 1 .. n - 1 /\ i \in 0 .. n - 1) BY <1>2
    <3>2. v[i - 1] = w[i - 1] BY <2>2, <3>1
    <3>3. CASE i = n BY <2>3, <3>2, <3>3
    <3>4. CASE i # n BY <2>1, <2>2, <3>1, <3>2, <3>4
    <3> QED BY <3>3, <3>4
  <2> QED BY <2>5, <2>6, <2>7
<1> HIDE DEF Done
<1>3. T = {}
  <2> SUFFICES ASSUME T # {} PROVE FALSE OBVIOUS
  <2>1. PICK n \in T : \A j \in T : n <= j BY LeastNumber
  <2>2. n # 0 BY <1>1, <2>1
  <2>3. n - 1 \in Nat /\ ~(n <= n - 1) BY <2>1, <2>2
  <2>4. Done(n - 1) BY <2>1, <2>3
  <2> QED BY <1>2, <2>1, <2>2, <2>4
<1>4. Done(count) BY <1>3
<1> QED BY <1>4 DEF Done, Iterates
\* Where Child and ChildElement have come after so many steps.
Ordinal(s, n, i, found) ==
  IF n = Null THEN Cardinality(found) <= i
  ELSE \E k \in found : n = s[k] /\ Cardinality({j \in found : j < k}) = i

Fitted(h, s, name, elements) == {k \in DOMAIN s : Fits(h, s[k], name, elements)}

LEMMA StepIs ==
  ASSUME NEW s \in Seq(Addresses), NEW found \in SUBSET (1 .. Len(s)),
         NEW k \in 0 .. Len(s), NEW i \in Nat, Cardinality({j \in found : j <= k}) = i,
         NEW m,
         \/ m = Null /\ \A j \in k + 1 .. Len(s) : j \notin found
         \/ \E l \in k + 1 .. Len(s) :
              m = s[l] /\ l \in found /\ \A j \in k + 1 .. l - 1 : j \notin found
  PROVE  Ordinal(s, m, i, found)
<1>1. Len(s) \in Nat /\ k \in Nat /\ \A j \in 1 .. Len(s) : s[j] \in Addresses OBVIOUS
<1>2. CASE m = Null /\ \A j \in k + 1 .. Len(s) : j \notin found
  <2>1. {j \in found : j <= k} = found
    <3>1. \A j \in found : j <= k
      <4> SUFFICES ASSUME NEW j \in found, ~(j <= k) PROVE FALSE OBVIOUS
      <4>1. j \in k + 1 .. Len(s) BY <1>1
      <4> QED BY <1>2, <4>1
    <3> QED BY <3>1
  <2>2. Cardinality(found) = i BY <2>1
  <2> QED BY <1>2, <2>2 DEF Ordinal
<1>3. ASSUME NEW l \in k + 1 .. Len(s), m = s[l], l \in found,
             \A j \in k + 1 .. l - 1 : j \notin found
      PROVE  Ordinal(s, m, i, found)
  <2>1. {j \in found : j < l} = {j \in found : j <= k}
    <3>1. ASSUME NEW j \in found PROVE j < l <=> j <= k
      <4>1. j \in Nat /\ l \in Nat /\ k < l BY <1>1
      <4>2. j < l /\ ~(j <= k) => j \in k + 1 .. l - 1 BY <1>1, <4>1
      <4> QED BY <1>1, <1>3, <4>1, <4>2
    <3> QED BY <3>1
  <2>2. Cardinality({j \in found : j < l}) = i BY <2>1
  <2>3. m # Null
    <3>1. l \in 1 .. Len(s) BY <1>1
    <3> QED BY <1>1, <1>3, <3>1, NullIsNone
  <2> QED BY <1>3, <2>2, <2>3 DEF Ordinal
<1> QED BY <1>2, <1>3

Walks(h, p, name, elements, count, w) ==
  w = [i \in 0 .. count |->
         IF i = 0 THEN Forward(h, h.first[p], name, elements)
         ELSE IF w[i - 1] = Null THEN Null
         ELSE Forward(h, h.next[w[i - 1]], name, elements)]

LEMMA WalkIs ==
  ASSUME NEW h, NEW U, Sound(h, U), NEW p \in Addresses, NEW name, NEW elements,
         NEW count \in Nat, NEW w,
         Walks(h, p, name, elements, count, w)
  PROVE  \A i \in 0 .. count :
           Ordinal(Children(h, p), w[i], i, Fitted(h, Children(h, p), name, elements))
<1> DEFINE s == Children(h, p)
           found == Fitted(h, s, name, elements)
           T == {i \in 0 .. count : ~Ordinal(s, w[i], i, found)}
<1>1. LinkType(h) /\ NoRing(h.next) BY DEF Sound, Linked
<1>2. ListIs(h, U, p, s) BY ListsAre
<1>3. /\ s \in Seq(Addresses) /\ h.first[p] = IF s = <<>> THEN Null ELSE s[1]
      /\ \A i \in 1 .. Len(s) : h.next[s[i]] = IF i = Len(s) THEN Null ELSE s[i + 1]
  BY <1>2 DEF ListIs, Path
<1>4. /\ w[0] = Forward(h, h.first[p], name, elements)
      /\ \A i \in 0 .. count : i # 0 =>
           w[i] = IF w[i - 1] = Null THEN Null ELSE Forward(h, h.next[w[i - 1]], name, elements)
  <2>1. 0 \in 0 .. count OBVIOUS
  <2>2. \A i \in 0 .. count :
          w[i] = IF i = 0 THEN Forward(h, h.first[p], name, elements)
                 ELSE IF w[i - 1] = Null THEN Null
                 ELSE Forward(h, h.next[w[i - 1]], name, elements)
    BY DEF Walks
  <2> QED BY <2>1, <2>2
<1> HIDE DEF s
<1>5. found \in SUBSET (1 .. Len(s)) /\ \A k \in 1 .. Len(s) : k \in found <=> Fits(h, s[k], name, elements)
  BY <1>3 DEF Fitted
<1> HIDE DEF found
<1>6. Len(s) \in Nat /\ (s = <<>> <=> Len(s) = 0) BY <1>3
<1>7. ASSUME NEW k \in 0 .. Len(s), NEW i \in Nat, Cardinality({j \in found : j <= k}) = i,
             NEW start, start = IF k = Len(s) THEN Null ELSE s[k + 1]
      PROVE  Ordinal(s, Forward(h, start, name, elements), i, found)
  <2> DEFINE m == Forward(h, start, name, elements)
  <2>1. FirstBehind(h, s, k, m, name, elements)
    <3>1. Threaded(h, s) /\ start = Behind(s, k) BY <1>3, <1>7 DEF Threaded, Behind
    <3> QED BY <1>1, <1>3, <3>1, ForwardIn
  <2> HIDE DEF m
  <2>2. \A j \in k + 1 .. Len(s) : j \in 1 .. Len(s) BY <1>6
  <2>3. CASE m = Null /\ \A j \in k + 1 .. Len(s) : ~Fits(h, s[j], name, elements)
    <3>1. \A j \in k + 1 .. Len(s) : j \notin found BY <1>5, <2>2, <2>3
    <3> QED BY <1>3, <1>5, <1>7, <2>3, <3>1, StepIs DEF m
  <2>4. ASSUME NEW l \in k + 1 .. Len(s), m = s[l], Fits(h, s[l], name, elements),
               \A j \in k + 1 .. l - 1 : ~Fits(h, s[j], name, elements)
        PROVE  Ordinal(s, m, i, found)
    <3>1. l \in found BY <1>5, <2>2, <2>4
    <3>2. \A j \in k + 1 .. l - 1 : j \in 1 .. Len(s) BY <1>6
    <3>3. \A j \in k + 1 .. l - 1 : j \notin found BY <1>5, <2>4, <3>2
    <3> QED BY <1>3, <1>5, <1>7, <2>4, <3>1, <3>3, StepIs
  <2> QED BY <2>1, <2>3, <2>4 DEF m, FirstBehind
<1>8. Ordinal(s, w[0], 0, found)
  <2>1. {j \in found : j <= 0} = {}
    <3>1. \A j \in found : ~(j <= 0) BY <1>5
    <3> QED BY <3>1
  <2>2. Cardinality({j \in found : j <= 0}) = 0 BY <2>1, FS_EmptySet
  <2>3. 0 \in 0 .. Len(s) /\ h.first[p] = IF 0 = Len(s) THEN Null ELSE s[0 + 1] BY <1>3, <1>6
  <2> QED BY <1>4, <1>7, <2>2, <2>3
<1>9. IsFiniteSet(found)
  <2>1. IsFiniteSet(1 .. Len(s)) BY <1>6, FS_Interval
  <2> QED BY <1>5, <2>1, FS_Subset
<1>10. ASSUME NEW i \in 0 .. count, i # 0, Ordinal(s, w[i - 1], i - 1, found)
       PROVE  Ordinal(s, w[i], i, found)
  <2>1. i \in Nat /\ i - 1 \in Nat BY <1>10
  <2>2. CASE w[i - 1] = Null
    <3>1. w[i] = Null BY <1>4, <1>10, <2>2
    <3>2. Cardinality(found) \in Nat BY <1>9, FS_CardinalityType
    <3>3. Cardinality(found) <= i - 1 BY <1>10, <2>2 DEF Ordinal
    <3>4. Cardinality(found) <= i BY <2>1, <3>2, <3>3
    <3> QED BY <3>1, <3>4 DEF Ordinal
  <2>3. CASE w[i - 1] # Null
    <3>1. PICK k \in found : w[i - 1] = s[k] /\ Cardinality({j \in found : j < k}) = i - 1
      BY <1>10, <2>3 DEF Ordinal
    <3>2. k \in 1 .. Len(s) /\ k \in 0 .. Len(s) BY <1>5
    <3>3. {j \in found : j <= k} = {j \in found : j < k} \cup {k}
      <4>1. \A j \in found : j \in Nat BY <1>5
      <4>2. \A j \in found : j <= k <=> j < k \/ j = k BY <3>2, <4>1
      <4> QED BY <3>1, <3>2, <4>2
    <3>4. Cardinality({j \in found : j <= k}) = i
      <4>1. IsFiniteSet({j \in found : j < k}) BY <1>9, FS_Subset
      <4>2. k \notin {j \in found : j < k} BY <3>2
      <4>3. Cardinality({j \in found : j < k} \cup {k}) = Cardinality({j \in found : j < k}) + 1
        BY <4>1, <4>2, FS_AddElement
      <4>4. Cardinality({j \in found : j <= k}) = Cardinality({j \in found : j < k}) + 1
        BY <3>3, <4>3
      <4>5. Cardinality({j \in found : j < k}) = i - 1 BY <3>1
      <4>6. i - 1 + 1 = i BY <2>1
      <4> QED BY <4>4, <4>5, <4>6
    <3>5. w[i] = Forward(h, h.next[s[k]], name, elements) BY <1>4, <1>10, <2>3, <3>1
    <3>6. h.next[s[k]] = IF k = Len(s) THEN Null ELSE s[k + 1] BY <1>3, <3>2
    <3> QED BY <1>7, <2>1, <3>2, <3>4, <3>5, <3>6
  <2> QED BY <2>2, <2>3
<1>11. T = {}
  <2> SUFFICES ASSUME T # {} PROVE FALSE OBVIOUS
  <2>0. T \in SUBSET Nat OBVIOUS
  <2>1. PICK i \in T : \A j \in T : i <= j BY <2>0, LeastNumber
  <2>2. i # 0 BY <1>8, <2>1
  <2>3. i - 1 \in 0 .. count /\ ~(i <= i - 1) BY <2>1, <2>2
  <2>4. Ordinal(s, w[i - 1], i - 1, found) BY <2>1, <2>3
  <2> QED BY <1>10, <2>1, <2>2, <2>4
<1> QED BY <1>11 DEF s, found

LEMMA WalkExists ==
  ASSUME NEW h, NEW U, Sound(h, U), NEW p \in Addresses, NEW name, NEW elements, NEW count \in Nat
  PROVE  \E w : Walks(h, p, name, elements, count, w)
<1> DEFINE f == [m \in Pointers |-> IF m = Null THEN Null ELSE Forward(h, h.next[m], name, elements)]
<1>1. LinkType(h) /\ NoRing(h.next) BY DEF Sound, Linked
<1>2. ASSUME NEW m \in Pointers PROVE Forward(h, m, name, elements) \in Pointers
  <2>1. h.next \in [Addresses -> Pointers] BY <1>1 DEF LinkType
  <2>2. PICK s : Path(h.next, m, s) BY <1>1, <2>1, PathExists
  <2>3. IsFirst(s, Forward(h, m, name, elements), Fitting(h, name, elements))
    BY <1>1, <2>2, ForwardIs
  <2>4. \A i \in 1 .. Len(s) : s[i] \in Addresses BY <2>2 DEF Path
  <2> QED BY <2>3, <2>4 DEF IsFirst, Pointers
<1>3. h.first[p] \in Pointers /\ \A m \in Addresses : h.next[m] \in Pointers BY <1>1 DEF LinkType
<1>4. f \in [Pointers -> Pointers]
  <2>1. \A m \in Pointers : (IF m = Null THEN Null ELSE Forward(h, h.next[m], name, elements)) \in Pointers
    BY <1>2, <1>3 DEF Pointers
  <2> QED BY <2>1
<1>5. PICK w \in [0 .. count -> Pointers] :
        w[0] = Forward(h, h.first[p], name, elements) /\ \A i \in 1 .. count : w[i] = f[w[i - 1]]
  <2>1. Forward(h, h.first[p], name, elements) \in Pointers BY <1>2, <1>3
  <2> HIDE DEF f
  <2>2. \E w : Iterates(Pointers, Forward(h, h.first[p], name, elements), f, count, w)
    BY <1>4, <2>1, IterateExists
  <2> QED BY <2>2 DEF Iterates
<1>6. ASSUME NEW i \in 0 .. count
      PROVE  w[i] = IF i = 0 THEN Forward(h, h.first[p], name, elements)
                    ELSE IF w[i - 1] = Null THEN Null
                    ELSE Forward(h, h.next[w[i - 1]], name, elements)
  <2>1. CASE i = 0 BY <1>5, <2>1
  <2>2. CASE i # 0
    <3>1. i \in 1 .. count /\ i - 1 \in 0 .. count BY <2>2
    <3>2. w[i - 1] \in Pointers /\ w[i] = f[w[i - 1]] BY <1>5, <3>1
    <3> QED BY <2>2, <3>2
  <2> QED BY <2>1, <2>2
<1>7. w = [i \in 0 .. count |-> w[i]] BY <1>5
<1>8. Walks(h, p, name, elements, count, w) BY <1>6, <1>7 DEF Walks
<1> QED BY <1>8

LEMMA ChildIs ==
  ASSUME NEW h, NEW U, Sound(h, U), NEW p \in Addresses, NEW name, NEW i \in Nat
  PROVE  /\ Ordinal(Children(h, p), Child(h, p, name, i), i, Fitted(h, Children(h, p), name, FALSE))
         /\ Ordinal(Children(h, p), ChildElement(h, p, name, i), i,
                    Fitted(h, Children(h, p), name, TRUE))
<1>1. \A elements : Walks(h, p, name, elements, i, CHOOSE w : Walks(h, p, name, elements, i, w))
  <2> TAKE elements
  <2>1. \E w : Walks(h, p, name, elements, i, w) BY WalkExists
  <2> QED BY <2>1
<1>2. ASSUME NEW elements, NEW w, Walks(h, p, name, elements, i, w)
      PROVE  Ordinal(Children(h, p), w[i], i, Fitted(h, Children(h, p), name, elements))
  <2>1. i \in 0 .. i OBVIOUS
  <2> QED BY <1>2, <2>1, WalkIs
<1>3. Child(h, p, name, i) = (CHOOSE w : Walks(h, p, name, FALSE, i, w))[i]
  BY DEF Child, FirstChild, NextSibling, Walks
<1>4. ChildElement(h, p, name, i) = (CHOOSE w : Walks(h, p, name, TRUE, i, w))[i]
  BY DEF ChildElement, FirstChildElement, NextSiblingElement, Walks
<1> QED BY <1>1, <1>2, <1>3, <1>4

-----------------------------------------------------------------------------
(* What is printed of a heap.                                              *)

Values == {"", "v"} \cup AttrValues

Attributes == [name : AttrNames, value : Values]

Tokens ==
  [t : {"open", "close", "attr", "text", "leaf", "cut", "space", ">", "/>"},
   name : Names \cup AttrNames \cup Kinds \cup {"", "t"}, value : Values]

\* The names and attributes that a heap can hold.
Worded(h) == Named(h) /\ h.attrs \in [Addresses -> Seq(Attributes)]

AttrText(attrs) == [i \in DOMAIN Iterated(attrs) |-> AttrToken(Iterated(attrs)[i])]

\* PrintedNode: a node without a child is one without a content.
NodeText(h, n, content) ==
  CASE h.kind[n] = "element" ->
         <<Token("open", h.name[n])>> \o AttrText(h.attrs[n])
           \o (IF content = <<>> THEN <<TagEmpty>>
               ELSE <<TagClose>> \o content \o <<Token("close", h.name[n])>>)
    [] h.kind[n] = "text" -> <<Text>>
    [] h.kind[n] = "unknown" /\ h.name[n] # "" -> <<Token("close", h.name[n])>>
    [] OTHER -> <<Token("leaf", h.kind[n])>>

\* c[n] is what is printed of n and the siblings behind it.
Tells(h, c) ==
  /\ c \in [Pointers -> Seq(Tokens)] /\ c[Null] = <<>>
  /\ \A n \in Addresses : c[n] = NodeText(h, n, c[h.first[n]]) \o c[h.next[n]]

\* There is something, and the end of a start tag is not the last of it.
EndsWell(s) == s # <<>> /\ s[Len(s)] # TagClose

LEMMA TokenIs ==
  /\ \A t \in {"open", "close", "leaf"}, name \in Names \cup Kinds \cup {"", "t"} :
       Token(t, name) \in Tokens /\ Token(t, name) # TagClose
  /\ \A attr \in Attributes : AttrToken(attr) \in Tokens /\ AttrToken(attr) # TagClose
  /\ {Text, TagClose, TagEmpty} \subseteq Tokens /\ Text # TagClose /\ TagEmpty # TagClose
<1>1. "" \in Values BY DEF Values
<1>2. ASSUME NEW t \in {"open", "close", "leaf", "text", ">", "/>"}, NEW name \in Names \cup Kinds \cup {"", "t"}
      PROVE  Token(t, name) \in Tokens
  BY <1>1 DEF Token, Tokens
<1>3. ASSUME NEW attr \in Attributes PROVE AttrToken(attr) \in Tokens /\ AttrToken(attr) # TagClose
  <2>1. attr.name \in AttrNames /\ attr.value \in Values BY DEF Attributes
  <2>2. AttrToken(attr) \in Tokens BY <2>1 DEF AttrToken, Tokens
  <2>3. AttrToken(attr).t = "attr" /\ TagClose.t = ">" BY DEF AttrToken, TagClose, Token
  <2> QED BY <2>2, <2>3
<1>4. ASSUME NEW t, NEW name, t # ">" PROVE Token(t, name) # TagClose
  <2>1. Token(t, name).t = t /\ TagClose.t = ">" BY DEF TagClose, Token
  <2> QED BY <2>1, <1>4
<1> QED BY <1>2, <1>3, <1>4 DEF Text, TagClose, TagEmpty

\* With a name, an attribute is not taken for the sentinel.
HasName(attr) == attr.name # ""

LEMMA IteratedIs ==
  ASSUME NEW attrs \in Seq(Attributes)
  PROVE  /\ Iterated(attrs) \in Seq(Attributes)
         /\ (\A i \in DOMAIN attrs : HasName(attrs[i])) => Iterated(attrs) = attrs
<1> DEFINE end == {i \in DOMAIN attrs : i > 1 /\ Unnamed(attrs[i])}
<1>1. end \in SUBSET Nat /\ end \in SUBSET (1 .. Len(attrs)) OBVIOUS
<1>2. CASE end = {} BY <1>2 DEF Iterated
<1>3. CASE end # {}
  <2> DEFINE k == CHOOSE i \in end : \A j \in end : i <= j
  <2>1. \E i \in end : \A j \in end : i <= j BY <1>1, <1>3, LeastNumber
  <2>2. k \in end BY <2>1
  <2>3. Iterated(attrs) = SubSeq(attrs, 1, k - 1) BY <1>3 DEF Iterated
  <2>4. k \in 1 .. Len(attrs) BY <1>1, <2>2
  <2>5. ~HasName(attrs[k]) /\ k \in DOMAIN attrs BY <2>2 DEF Unnamed, HasName
  <2> HIDE DEF k, end
  <2>6. SubSeq(attrs, 1, k - 1) \in Seq(Attributes) BY <2>4
  <2> QED BY <2>3, <2>5, <2>6
<1> QED BY <1>2, <1>3

LEMMA AttrTextIs ==
  ASSUME NEW attrs \in Seq(Attributes)
  PROVE  AttrText(attrs) \in Seq(Tokens)
<1> DEFINE s == Iterated(attrs)
<1>1. s \in Seq(Attributes) BY IteratedIs
<1> HIDE DEF s
<1>2. ASSUME NEW i \in DOMAIN s PROVE AttrToken(s[i]) \in Tokens
  <2>1. s[i] \in Attributes BY <1>1
  <2> QED BY <2>1, TokenIs
<1>3. [i \in DOMAIN s |-> AttrToken(s[i])] \in Seq(Tokens) BY <1>1, <1>2
<1> QED BY <1>3 DEF AttrText, s

LEMMA NodeTextIs ==
  ASSUME NEW h, LinkType(h), Worded(h), NEW n \in Addresses, NEW content \in Seq(Tokens)
  PROVE  NodeText(h, n, content) \in Seq(Tokens) /\ EndsWell(NodeText(h, n, content))
<1> DEFINE a == AttrText(h.attrs[n])
<1>1. h.kind[n] \in Kinds /\ h.name[n] \in Names \cup {"", "t"} /\ h.attrs[n] \in Seq(Attributes)
  BY DEF LinkType, Worded, Named, AllNames, Text, Token
<1>2. a \in Seq(Tokens) BY <1>1, AttrTextIs
<1>3. /\ Token("open", h.name[n]) \in Tokens
      /\ Token("close", h.name[n]) \in Tokens /\ Token("close", h.name[n]) # TagClose
      /\ Token("leaf", h.kind[n]) \in Tokens /\ Token("leaf", h.kind[n]) # TagClose
      /\ {Text, TagClose, TagEmpty} \subseteq Tokens /\ Text # TagClose /\ TagEmpty # TagClose
  BY <1>1, TokenIs
<1> HIDE DEF a
<1>4. CASE h.kind[n] = "element"
  <2> DEFINE rest == IF content = <<>> THEN <<TagEmpty>>
                     ELSE <<TagClose>> \o content \o <<Token("close", h.name[n])>>
  <2>1. rest \in Seq(Tokens) /\ EndsWell(rest) BY <1>3 DEF EndsWell
  <2>2. NodeText(h, n, content) = <<Token("open", h.name[n])>> \o a \o rest
    BY <1>4 DEF NodeText, a
  <2> HIDE DEF rest
  <2>3. /\ <<Token("open", h.name[n])>> \o a \o rest \in Seq(Tokens)
        /\ EndsWell(<<Token("open", h.name[n])>> \o a \o rest)
    BY <1>2, <1>3, <2>1 DEF EndsWell
  <2> QED BY <2>2, <2>3
<1>5. CASE h.kind[n] # "element"
  <2>1. \E t \in Tokens : t # TagClose /\ NodeText(h, n, content) = <<t>>
    BY <1>3, <1>5 DEF NodeText
  <2> QED BY <2>1 DEF EndsWell
<1> QED BY <1>4, <1>5

\* Who is there is printed, and nothing that is printed ends with the end of a start tag.
LEMMA TellsEnds ==
  ASSUME NEW h, LinkType(h), Worded(h), NoRing(h.next), NEW c, Tells(h, c)
  PROVE  \A n \in Addresses : EndsWell(c[n])
<1> DEFINE S == {n \in Addresses : ~EndsWell(c[n])}
<1>1. SUFFICES ASSUME S # {} PROVE FALSE OBVIOUS
<1>2. PICK n \in S : h.next[n] \notin S BY <1>1 DEF NoRing
<1>3. /\ n \in Addresses /\ h.first[n] \in Pointers /\ h.next[n] \in Pointers
      /\ c[h.first[n]] \in Seq(Tokens) /\ c[h.next[n]] \in Seq(Tokens)
      /\ c[n] = NodeText(h, n, c[h.first[n]]) \o c[h.next[n]]
  BY <1>2 DEF LinkType, Tells
<1>4. (h.next[n] = Null /\ c[h.next[n]] = <<>>) \/ EndsWell(c[h.next[n]])
  BY <1>2, <1>3 DEF Tells, Pointers
<1> DEFINE x == NodeText(h, n, c[h.first[n]])
           y == c[h.next[n]]
<1>5. x \in Seq(Tokens) /\ EndsWell(x) BY <1>3, NodeTextIs
<1>6. y \in Seq(Tokens) /\ (y = <<>> \/ EndsWell(y)) BY <1>3, <1>4
<1> HIDE DEF x, y
<1>7. EndsWell(x \o y) BY <1>5, <1>6 DEF EndsWell
<1> QED BY <1>2, <1>3, <1>7 DEF x, y

\* No text is of nothing but blanks.
TextsSay(h) == \A n \in Addresses : h.kind[n] = "text" => h.name[n] = Text.name

\* Who follows the first children and the next siblings never comes round.
NoRings(h) ==
  \A S \in SUBSET Addresses : S # {} => \E n \in S : h.first[n] \notin S /\ h.next[n] \notin S

LEMMA TextIsPrinted == PrintedText(Text.name) = Text
BY DEF PrintedText, Text, Token

LEMMA TellsPrinted ==
  ASSUME NEW h, LinkType(h), Worded(h), TextsSay(h), NoRing(h.next), NoRings(h),
         NEW c, Tells(h, c)
  PROVE  Printed(h) = c[h.first[Doc]]
<1> DEFINE From(f) == f = [n \in Pointers |->
                             IF n = Null THEN <<>>
                             ELSE PrintedNode(h, n, f[h.first[n]]) \o f[h.next[n]]]
<1>1. \A n \in Addresses : h.first[n] \in Pointers /\ h.next[n] \in Pointers BY DEF LinkType
<1>2. \A n \in Addresses : h.first[n] = Null <=> c[h.first[n]] = <<>>
  <2>1. \A n \in Addresses : c[n] # <<>> BY TellsEnds DEF EndsWell
  <2>2. c[Null] = <<>> BY DEF Tells
  <2> QED BY <1>1, <2>1, <2>2 DEF Pointers
<1>3. \A n \in Addresses : PrintedNode(h, n, c[h.first[n]]) = NodeText(h, n, c[h.first[n]])
  <2>1. \A n \in Addresses : h.kind[n] = "text" => PrintedText(h.name[n]) = Text
    BY TextIsPrinted DEF TextsSay
  <2> QED BY <1>2, <2>1 DEF PrintedNode, NodeText, AttrText
<1>4. From(c)
  <2>1. c = [n \in Pointers |-> c[n]] BY DEF Tells
  <2>2. \A n \in Pointers :
          c[n] = IF n = Null THEN <<>> ELSE PrintedNode(h, n, c[h.first[n]]) \o c[h.next[n]]
    BY <1>3 DEF Tells, Pointers
  <2> QED BY <2>1, <2>2
<1>5. PICK f : From(f) /\ Printed(h) = f[h.first[Doc]]
  <2>1. From(CHOOSE f : From(f)) BY <1>4
  <2> QED BY <2>1 DEF Printed
<1>6. \A n \in Pointers :
        f[n] = IF n = Null THEN <<>> ELSE PrintedNode(h, n, f[h.first[n]]) \o f[h.next[n]]
  BY <1>5
<1> HIDE DEF From
<1>7. ASSUME NEW S, S = {n \in Addresses : f[n] # c[n]}, S # {} PROVE FALSE
  <2>1. PICK n \in S : h.first[n] \notin S /\ h.next[n] \notin S BY <1>7 DEF NoRings
  <2>2. n \in Addresses /\ n \in Pointers /\ n # Null BY <1>7, NullIsNone DEF Pointers
  <2>3. f[Null] = c[Null] BY <1>6 DEF Pointers, Tells
  <2>4. f[h.first[n]] = c[h.first[n]] /\ f[h.next[n]] = c[h.next[n]]
    BY <1>1, <1>7, <2>1, <2>2, <2>3 DEF Pointers
  <2>5. f[n] = NodeText(h, n, c[h.first[n]]) \o c[h.next[n]] BY <1>3, <1>6, <2>2, <2>4
  <2> QED BY <1>7, <2>1, <2>2, <2>5 DEF Tells
<1>8. f[h.first[Doc]] = c[h.first[Doc]]
  <2>1. f[Null] = c[Null] BY <1>6 DEF Pointers, Tells
  <2>2. \A n \in Addresses : f[n] = c[n] BY <1>7
  <2>3. h.first[Doc] \in Pointers BY <1>1, NullIsNone
  <2> QED BY <2>1, <2>2, <2>3 DEF Pointers
<1> QED BY <1>5, <1>8
-----------------------------------------------------------------------------
(* What becomes of it when a node is made, linked or given an attribute.   *)

LEMMA ConcatAssoc ==
  \A x, y, z \in Seq(Tokens) : (x \o y) \o z = x \o (y \o z)
OBVIOUS

LEMMA SameText ==
  ASSUME NEW h, NEW g, NEW n, g.kind[n] = h.kind[n], g.name[n] = h.name[n], g.attrs[n] = h.attrs[n],
         NEW content
  PROVE  NodeText(g, n, content) = NodeText(h, n, content)
BY DEF NodeText

\* No list leads to a node that is in none.
LEMMA NobodyLeads ==
  ASSUME NEW h, NEW U, Sound(h, U), NEW n \in Addresses, n \in U \/ h.parent[n] = Null
  PROVE  /\ h.next[n] = Null /\ h.prev[n] = Null
         /\ \A m \in Addresses : h.first[m] # n /\ h.next[m] # n /\ h.last[m] # n
<1>1. /\ LinkType(h) /\ \A m \in Addresses : NodeLinked(h, U, m) BY DEF Sound, Linked, LinksConsistent
<1>2. h.next[n] = Null /\ h.prev[n] = Null BY <1>1 DEF NodeLinked, Loose
<1>3. ASSUME NEW m \in Addresses PROVE h.first[m] # n /\ h.next[m] # n /\ h.last[m] # n
  <2>1. h.first[m] # n BY <1>1, NullIsNone DEF NodeLinked, FirstLinked
  <2>2. h.last[m] # n BY <1>1, NullIsNone DEF NodeLinked, LastLinked
  <2>3. h.next[m] # n BY <1>1, NullIsNone DEF NodeLinked, NextLinked, Loose
  <2> QED BY <2>1, <2>2, <2>3
<1> QED BY <1>2, <1>3

\* p has x more below it; nobody else has.
Grown(g, d, h, c, p, x) ==
  /\ Tells(g, d) /\ d[g.first[p]] = c[h.first[p]] \o x
  /\ \A q \in Addresses : q # p => d[g.first[q]] = c[h.first[q]]

\* What is below p is printed with the text of n behind it; nothing else changes but p, whom
\* nobody leads to.
LEMMA LinkTells ==
  ASSUME NEW h, NEW U, Sound(h, U), NEW n \in Addresses, n \in U, NEW p \in Addresses,
         h.parent[n] = p, p \in U \/ p = Doc, NEW c, Tells(h, c), Worded(h),
         NEW g, g = LinkEndChild(h, p, n)
  PROVE  /\ c[n] = NodeText(h, n, c[h.first[n]])
         /\ \E d : Grown(g, d, h, c, p, c[n])
<1> DEFINE K == {m \in Addresses : h.parent[m] = p /\ m \notin U}
           d == [m \in Pointers |->
                   IF m \in K THEN c[m] \o c[n]
                   ELSE IF m = p THEN NodeText(h, p, c[h.first[p]] \o c[n]) ELSE c[m]]
<1>1. LinkType(h) /\ \A m \in Addresses : NodeLinked(h, U, m) BY DEF Sound, Linked, LinksConsistent
<1>2. /\ \A m \in Addresses : h.first[m] \in Pointers /\ h.next[m] \in Pointers
      /\ h.last[p] \in Pointers /\ Null \in Pointers
  BY <1>1 DEF LinkType, Pointers
<1>3. Spliced(h, g, p, h.last[p], Null, n) BY <1>1, <1>2, SpliceIs DEF LinkEndChild
<1>4. \A m \in Addresses :
        /\ g.kind[m] = h.kind[m] /\ g.name[m] = h.name[m] /\ g.attrs[m] = h.attrs[m]
        /\ g.next[m] = IF m = n THEN Null ELSE IF m = h.last[p] THEN n ELSE h.next[m]
        /\ g.first[m] = IF m = p /\ h.last[p] = Null THEN n ELSE h.first[m]
  <2>1. g.name = h.name /\ g.attrs = h.attrs BY <1>1 DEF LinkEndChild, Splice, LinkType
  <2> QED BY <1>3, <2>1 DEF Spliced
<1>5. p \in U \/ h.parent[p] = Null BY DEF Sound, Linked
<1>6. p # n /\ h.parent[p] # p
  <2>1. {p} \in SUBSET Addresses /\ NoRing(h.parent) BY DEF Sound
  <2> QED BY <2>1 DEF NoRing
<1>7. /\ h.next[n] = Null /\ h.next[p] = Null
      /\ \A m \in Addresses : h.first[m] # p /\ h.next[m] # p /\ h.last[m] # p
      /\ \A m \in Addresses : h.first[m] # n /\ h.next[m] # n /\ h.last[m] # n
  BY <1>5, NobodyLeads
<1>8. n \notin K /\ p \notin K /\ Null \notin K BY <1>5, <1>6, NullIsNone
<1>9. \A m \in Addresses : m # p => h.first[m] \notin K BY <1>1, NullIsNone DEF NodeLinked, FirstLinked
<1>10. \A m \in Addresses : m \notin K => h.next[m] \notin K
  BY <1>1, NullIsNone DEF NodeLinked, NextLinked, Loose
<1>11. \A m \in K : h.next[m] = Null \/ h.next[m] \in K
  BY <1>1, <1>2 DEF NodeLinked, NextLinked, Pointers
<1>12. \A m \in K : h.next[m] = Null <=> h.last[p] = m
  <2> TAKE m \in K
  <2>1. m \in Addresses /\ h.parent[m] = p /\ m \notin U /\ p # Null /\ m # Null BY NullIsNone
  <2>2. Listed(h, U, m) /\ LastLinked(h, U, p) BY <1>1, <2>1 DEF NodeLinked
  <2> HIDE DEF K
  <2> QED BY <2>1, <2>2 DEF Listed, LastLinked
<1>13. h.last[p] = Null \/ h.last[p] \in K BY <1>1, <1>2 DEF NodeLinked, LastLinked, Pointers
<1>14. /\ h.first[p] = Null <=> h.last[p] = Null
       /\ h.first[p] = Null \/ h.first[p] \in K
  BY <1>1, <1>2 DEF NodeLinked, BothEnds, FirstLinked, Pointers
<1>15. /\ c \in [Pointers -> Seq(Tokens)] /\ c[Null] = <<>>
       /\ \A m \in Addresses : c[m] = NodeText(h, m, c[h.first[m]]) \o c[h.next[m]]
       /\ \A m \in Addresses : m \in Pointers /\ c[m] \in Seq(Tokens)
       /\ \A m \in Addresses : c[h.first[m]] \in Seq(Tokens) /\ c[h.next[m]] \in Seq(Tokens)
  BY <1>2 DEF Tells, Pointers
<1>16. \A m \in Addresses, x \in Seq(Tokens) : NodeText(h, m, x) \in Seq(Tokens)
  BY <1>1, NodeTextIs
<1>17. \A m \in Addresses, x \in Seq(Tokens) : NodeText(g, m, x) = NodeText(h, m, x)
  BY <1>4, SameText
<1>18. c[n] = NodeText(h, n, c[h.first[n]])
  <2>1. c[n] = NodeText(h, n, c[h.first[n]]) \o <<>> BY <1>7, <1>15
  <2>2. NodeText(h, n, c[h.first[n]]) \in Seq(Tokens) BY <1>15, <1>16
  <2> QED BY <2>1, <2>2
<1>19. /\ \A m \in K : d[m] = c[m] \o c[n]
       /\ d[p] = NodeText(h, p, c[h.first[p]] \o c[n])
       /\ \A m \in Pointers : m \notin K /\ m # p => d[m] = c[m]
       /\ d[Null] = <<>>
  BY <1>8, <1>15, NullIsNone DEF Pointers
<1> HIDE DEF d, K
<1>20. d \in [Pointers -> Seq(Tokens)]
  <2>1. ASSUME NEW m \in Pointers PROVE d[m] \in Seq(Tokens)
    <3>1. CASE m \in K
      <4>1. m \in Addresses BY <3>1 DEF K
      <4>2. c[m] \in Seq(Tokens) /\ c[n] \in Seq(Tokens) BY <1>15, <4>1
      <4>3. c[m] \o c[n] \in Seq(Tokens) BY <4>2
      <4>4. d[m] = c[m] \o c[n] BY <1>19, <3>1
      <4> QED BY <4>3, <4>4
    <3>2. CASE m = p
      <4>1. c[h.first[p]] \o c[n] \in Seq(Tokens) BY <1>15
      <4> QED BY <1>16, <1>19, <3>2, <4>1
    <3>3. CASE m \notin K /\ m # p BY <1>15, <1>19, <3>3
    <3> QED BY <3>1, <3>2, <3>3
  <2>2. d = [m \in Pointers |-> d[m]] BY DEF d
  <2> QED BY <2>1, <2>2
<1>21. d[g.first[p]] = c[h.first[p]] \o c[n]
  <2>1. CASE h.last[p] = Null
    <3>1. g.first[p] = n /\ h.first[p] = Null BY <1>4, <1>14, <2>1
    <3>2. d[n] = c[n] /\ c[Null] \o c[n] = c[n] BY <1>6, <1>8, <1>15, <1>19
    <3> QED BY <3>1, <3>2
  <2>2. CASE h.last[p] # Null
    <3>1. g.first[p] = h.first[p] BY <1>4, <2>2
    <3>2. h.first[p] \in K BY <1>14, <2>2
    <3> QED BY <1>19, <3>1, <3>2
  <2> QED BY <2>1, <2>2
<1>22. \A q \in Addresses : q # p => g.first[q] = h.first[q] /\ d[g.first[q]] = c[h.first[q]]
  BY <1>2, <1>4, <1>7, <1>9, <1>19
<1>23. ASSUME NEW m \in Addresses
       PROVE  d[m] = NodeText(g, m, d[g.first[m]]) \o d[g.next[m]]
  <2>1. CASE m = p
    <3>1. g.next[p] = Null BY <1>4, <1>6, <1>7
    <3>2. d[p] = NodeText(g, p, d[g.first[p]])
      <4>1. c[h.first[p]] \o c[n] \in Seq(Tokens) BY <1>15
      <4> QED BY <1>17, <1>19, <1>21, <4>1
    <3>3. d[p] \in Seq(Tokens) BY <1>15, <1>20
    <3>4. d[p] \o <<>> = d[p] /\ d[g.next[p]] = <<>> BY <1>19, <3>1, <3>3
    <3> QED BY <2>1, <3>2, <3>4
  <2>2. CASE m \in K
    <3>1. m # p /\ m # n BY <1>8, <2>2
    <3>2. NodeText(g, m, d[g.first[m]]) = NodeText(h, m, c[h.first[m]]) BY <1>15, <1>17, <1>22, <3>1
    <3> DEFINE x == NodeText(h, m, c[h.first[m]])
    <3>3. x \in Seq(Tokens) BY <1>15, <1>16
    <3>4. d[m] = (x \o c[h.next[m]]) \o c[n] BY <1>15, <1>19, <2>2
    <3> HIDE DEF x
    <3>5. d[m] = x \o (c[h.next[m]] \o c[n])
      <4>1. c[h.next[m]] \in Seq(Tokens) /\ c[n] \in Seq(Tokens) BY <1>15
      <4>2. (x \o c[h.next[m]]) \o c[n] = x \o (c[h.next[m]] \o c[n])
        BY <3>3, <4>1, ConcatAssoc, Zenon
      <4> QED BY <3>4, <4>2
    <3>6. d[g.next[m]] = c[h.next[m]] \o c[n]
      <4>1. CASE h.next[m] = Null
        <5>1. g.next[m] = n BY <1>4, <1>12, <2>2, <3>1, <4>1
        <5>2. d[n] = c[n] /\ <<>> \o c[n] = c[n] BY <1>6, <1>8, <1>15, <1>19
        <5> QED BY <1>15, <4>1, <5>1, <5>2
      <4>2. CASE h.next[m] # Null
        <5>1. g.next[m] = h.next[m] /\ h.next[m] \in K BY <1>4, <1>11, <1>12, <2>2, <3>1, <4>2
        <5> QED BY <1>19, <5>1
      <4> QED BY <4>1, <4>2
    <3> QED BY <3>2, <3>5, <3>6 DEF x
  <2>3. CASE m \notin K /\ m # p
    <3>1. d[m] = c[m] /\ d[g.first[m]] = c[h.first[m]] BY <1>15, <1>19, <1>22, <2>3
    <3>2. g.next[m] = h.next[m]
      <4>1. m # h.last[p] BY <1>13, <2>3, NullIsNone
      <4> QED BY <1>4, <1>7, <4>1
    <3>3. d[h.next[m]] = c[h.next[m]] BY <1>2, <1>7, <1>10, <1>19, <2>3
    <3> QED BY <1>15, <1>17, <3>1, <3>2, <3>3
  <2> QED BY <2>1, <2>2, <2>3
<1>24. Tells(g, d) BY <1>19, <1>20, <1>23 DEF Tells
<1> QED BY <1>18, <1>21, <1>22, <1>24 DEF Grown

\* n is printed otherwise; what is below a node is printed as before.
Changed(g, d, h, c, n) ==
  /\ Tells(g, d) /\ d[n] = NodeText(g, n, c[h.first[n]])
  /\ \A q \in Addresses : d[g.first[q]] = c[h.first[q]]

\* A node that no list leads to is made or changed.
LEMMA ChangeTells ==
  ASSUME NEW h, LinkType(h), NEW n \in Addresses, h.next[n] = Null,
         \A m \in Addresses : h.first[m] # n /\ h.next[m] # n,
         NEW c, Tells(h, c), NEW g, g.first = h.first, g.next = h.next,
         LinkType(g), Worded(g),
         \A m \in Addresses : m # n =>
           g.kind[m] = h.kind[m] /\ g.name[m] = h.name[m] /\ g.attrs[m] = h.attrs[m]
  PROVE  \E d : Changed(g, d, h, c, n)
<1> DEFINE d == [c EXCEPT ![n] = NodeText(g, n, c[h.first[n]])]
<1>1. /\ c \in [Pointers -> Seq(Tokens)] /\ c[Null] = <<>>
      /\ \A m \in Addresses : c[m] = NodeText(h, m, c[h.first[m]]) \o c[h.next[m]]
      /\ \A m \in Addresses : m \in Pointers /\ m # Null
      /\ \A m \in Addresses : h.first[m] \in Pointers /\ h.next[m] \in Pointers
  BY NullIsNone DEF Tells, Pointers, LinkType
<1>2. NodeText(g, n, c[h.first[n]]) \in Seq(Tokens) BY <1>1, NodeTextIs
<1>3. /\ d \in [Pointers -> Seq(Tokens)] /\ d[n] = NodeText(g, n, c[h.first[n]])
      /\ \A m \in Pointers : m # n => d[m] = c[m]
  BY <1>1, <1>2
<1> HIDE DEF d
<1>4. \A q \in Addresses : d[g.first[q]] = c[h.first[q]] /\ d[g.next[q]] = c[h.next[q]]
  BY <1>1, <1>3
<1>5. ASSUME NEW m \in Addresses PROVE d[m] = NodeText(g, m, d[g.first[m]]) \o d[g.next[m]]
  <2>1. CASE m = n
    <3>1. d[g.next[n]] = <<>> BY <1>1, <1>4
    <3>2. d[n] \o <<>> = d[n] BY <1>2, <1>3
    <3> QED BY <1>3, <1>4, <2>1, <3>1, <3>2
  <2>2. CASE m # n
    <3>1. NodeText(g, m, d[g.first[m]]) = NodeText(h, m, c[h.first[m]]) BY <1>4, <2>2, SameText
    <3> QED BY <1>1, <1>3, <1>4, <2>2, <3>1
  <2> QED BY <2>1, <2>2
<1>6. d[Null] = <<>> BY <1>1, <1>3 DEF Pointers
<1>7. Tells(g, d) BY <1>3, <1>5, <1>6 DEF Tells
<1> QED BY <1>3, <1>4, <1>7 DEF Changed

-----------------------------------------------------------------------------
(* What is printed of a document that is being read: the nodes whose Parse *)
(* has not returned are printed without their ends.                        *)

Opening(h, n, end) ==
  IF h.kind[n] = "text" THEN <<Text>>
  ELSE <<Token("open", h.name[n])>> \o AttrText(h.attrs[n]) \o end

Shut == <<TagClose>>
Ends == {<<>>, Shut}

\* Whose children o[i] is: the document or o[i].
Level(o, i) == IF i = 0 THEN Doc ELSE o[i]

Levels(h, o, end, c, b) ==
  /\ b \in [0 .. Len(o) -> Seq(Tokens)] /\ b[0] = c[h.first[Doc]]
  /\ \A i \in 1 .. Len(o) :
       b[i] = b[i - 1] \o Opening(h, o[i], IF i = Len(o) THEN end ELSE Shut) \o c[h.first[o[i]]]

Sofar(h, o, end, c, s) == \E b : Levels(h, o, end, c, b) /\ b[Len(o)] = s

LEMMA ContentIs ==
  ASSUME NEW h, LinkType(h), NEW c, Tells(h, c)
  PROVE  \A n \in Addresses : c[h.first[n]] \in Seq(Tokens)
BY DEF LinkType, Tells

LEMMA OpeningIs ==
  ASSUME NEW h, LinkType(h), Worded(h)
  PROVE  \A n \in Addresses, end \in Ends : Opening(h, n, end) \in Seq(Tokens)
<1> SUFFICES ASSUME NEW n \in Addresses, NEW end \in Ends PROVE Opening(h, n, end) \in Seq(Tokens)
  OBVIOUS
<1> DEFINE a == AttrText(h.attrs[n])
<1>1. h.name[n] \in Names \cup {"", "t"} /\ h.attrs[n] \in Seq(Attributes)
  BY DEF Worded, Named, AllNames, Text, Token
<1>2. a \in Seq(Tokens) BY <1>1, AttrTextIs
<1>3. {Token("open", h.name[n]), Text, TagClose} \subseteq Tokens BY <1>1, TokenIs
<1> HIDE DEF a
<1>4. end \in Seq(Tokens)
  <2>1. CASE end = <<>> BY <2>1
  <2>2. CASE end = <<TagClose>> BY <1>3, <2>2
  <2> QED BY <2>1, <2>2 DEF Ends, Shut
<1>5. <<Token("open", h.name[n])>> \o a \o end \in Seq(Tokens) BY <1>2, <1>3, <1>4
<1> QED BY <1>3, <1>5 DEF Opening, a

LEMMA OuterIs ==
  ASSUME NEW o \in Seq(Nodes), o # <<>>
  PROVE  LET k == Len(o)
             q == SubSeq(o, 1, Len(o) - 1)
         IN  /\ k \in Nat \ {0} /\ k \in DOMAIN o /\ o[k] \in Nodes
             /\ q \in Seq(Nodes) /\ Len(q) = k - 1 /\ DOMAIN q = 1 .. k - 1
             /\ \A i \in 1 .. k - 1 : q[i] = o[i] /\ i \in DOMAIN o /\ i # k /\ o[i] \in Nodes
             /\ o = Append(q, o[k])
<1> DEFINE k == Len(o)
           q == SubSeq(o, 1, k - 1)
<1>1. k \in Nat \ {0} /\ k \in DOMAIN o /\ o[k] \in Nodes OBVIOUS
<1>2. q \in Seq(Nodes) /\ Len(q) = k - 1 /\ \A i \in 1 .. k - 1 : q[i] = o[i]
  <2>1. q \in Seq(Nodes) BY <1>1
  <2>2. Len(q) = k - 1
    <3>1. CASE k = 1 BY <1>1, <3>1
    <3>2. CASE k > 1 BY <1>1, <3>2
    <3> QED BY <1>1, <3>1, <3>2
  <2>3. \A i \in 1 .. k - 1 : q[i] = o[i] BY <1>1
  <2> QED BY <2>1, <2>2, <2>3
<1>3. DOMAIN q = 1 .. k - 1 BY <1>2
<1>4. \A i \in 1 .. k - 1 : i \in DOMAIN o /\ i # k /\ o[i] \in Nodes BY <1>1
<1>5. o = Append(q, o[k]) BY <1>1, <1>2
<1> QED BY <1>1, <1>2, <1>3, <1>4, <1>5

LEMMA SofarIs ==
  ASSUME NEW h, NEW o \in Seq(Nodes), NEW end, NEW c, NEW s, Sofar(h, o, end, c, s)
  PROVE  s \in Seq(Tokens) /\ (o = <<>> => s = c[h.first[Doc]])
BY DEF Sofar, Levels

LEMMA SofarNone ==
  ASSUME NEW h, LinkType(h), NEW end, NEW c, Tells(h, c)
  PROVE  Sofar(h, <<>>, end, c, c[h.first[Doc]])
<1> DEFINE b == [i \in 0 .. 0 |-> c[h.first[Doc]]]
<1>1. c[h.first[Doc]] \in Seq(Tokens) BY NullIsNone, ContentIs
<1>2. Len(<<>>) = 0 /\ 1 .. 0 = {} OBVIOUS
<1>3. b \in [0 .. 0 -> Seq(Tokens)] /\ b[0] = c[h.first[Doc]] BY <1>1
<1> HIDE DEF b
<1>4. Levels(h, <<>>, end, c, b) BY <1>2, <1>3 DEF Levels
<1> QED BY <1>2, <1>3, <1>4 DEF Sofar

\* One node more.
LEMMA SofarMore ==
  ASSUME NEW h, LinkType(h), Worded(h), NEW o \in Seq(Nodes), NEW c, Tells(h, c), NEW s,
         Sofar(h, o, Shut, c, s), NEW n \in Nodes, NEW end \in Ends
  PROVE  Sofar(h, Append(o, n), end, c, s \o Opening(h, n, end) \o c[h.first[n]])
<1> DEFINE k == Len(o) + 1
           q == Append(o, n)
           t == s \o Opening(h, n, end) \o c[h.first[n]]
<1>1. PICK b : Levels(h, o, Shut, c, b) /\ b[Len(o)] = s BY DEF Sofar
<1> DEFINE d == [i \in 0 .. k |-> IF i = k THEN t ELSE b[i]]
<1>2. /\ b \in [0 .. Len(o) -> Seq(Tokens)] /\ b[0] = c[h.first[Doc]]
      /\ \A i \in 1 .. Len(o) : b[i] = b[i - 1] \o Opening(h, o[i], Shut) \o c[h.first[o[i]]]
  BY <1>1 DEF Levels
<1>3. t \in Seq(Tokens)
  <2>1. n \in Addresses /\ s \in Seq(Tokens) BY NullIsNone, SofarIs
  <2>2. Opening(h, n, end) \in Seq(Tokens) /\ c[h.first[n]] \in Seq(Tokens)
    BY <2>1, OpeningIs, ContentIs
  <2> QED BY <2>1, <2>2
<1>4. /\ Len(q) = k /\ q[k] = n /\ k \in Nat \ {0} /\ k - 1 = Len(o)
      /\ \A i \in 1 .. Len(o) : q[i] = o[i] /\ i # k /\ i - 1 # k /\ i - 1 \in 0 .. Len(o)
      /\ \A i \in 0 .. k : i = k \/ i \in 0 .. Len(o)
      /\ \A i \in 1 .. k : i = k \/ i \in 1 .. Len(o)
  OBVIOUS
<1> HIDE DEF t, q, k
<1>5. d \in [0 .. k -> Seq(Tokens)] /\ d[k] = t /\ d[0] = b[0] /\ d[k - 1] = s
  <2>1. d \in [0 .. k -> Seq(Tokens)] BY <1>2, <1>3, <1>4
  <2>2. k \in 0 .. k /\ 0 \in 0 .. k /\ 0 # k /\ k - 1 \in 0 .. k /\ k - 1 # k BY <1>4
  <2> QED BY <1>1, <1>4, <2>1, <2>2
<1>6. \A i \in 1 .. Len(o) : d[i] = b[i] /\ d[i - 1] = b[i - 1]
  <2>1. \A i \in 1 .. Len(o) : i \in 0 .. k /\ i - 1 \in 0 .. k BY <1>4
  <2> QED BY <1>4, <2>1
<1> HIDE DEF d
<1>7. ASSUME NEW i \in 1 .. k
      PROVE  d[i] = d[i - 1] \o Opening(h, q[i], IF i = k THEN end ELSE Shut) \o c[h.first[q[i]]]
  <2>1. CASE i = k BY <1>4, <1>5, <2>1 DEF t
  <2>2. CASE i # k
    <3>1. i \in 1 .. Len(o) BY <1>4, <2>2
    <3>2. (IF i = k THEN end ELSE Shut) = Shut BY <2>2
    <3>3. b[i] = b[i - 1] \o Opening(h, o[i], Shut) \o c[h.first[o[i]]] BY <1>2, <3>1
    <3>4. q[i] = o[i] /\ d[i] = b[i] /\ d[i - 1] = b[i - 1] BY <1>4, <1>6, <3>1
    <3> QED BY <3>2, <3>3, <3>4
  <2> QED BY <2>1, <2>2
<1>8. Levels(h, q, end, c, d) BY <1>2, <1>4, <1>5, <1>7 DEF Levels
<1>9. Sofar(h, q, end, c, t) BY <1>4, <1>5, <1>8 DEF Sofar
<1> QED BY <1>9 DEF q, t

\* One node less.
Inside(h, o, end, c, s) ==
  \E s0 : /\ Sofar(h, SubSeq(o, 1, Len(o) - 1), Shut, c, s0)
          /\ s = s0 \o Opening(h, o[Len(o)], end) \o c[h.first[o[Len(o)]]]

LEMMA SofarLess ==
  ASSUME NEW h, NEW o \in Seq(Nodes), o # <<>>, NEW end, NEW c, NEW s, Sofar(h, o, end, c, s)
  PROVE  Inside(h, o, end, c, s)
<1> DEFINE k == Len(o)
           q == SubSeq(o, 1, Len(o) - 1)
<1>1. PICK b : Levels(h, o, end, c, b) /\ b[k] = s BY DEF Sofar
<1> DEFINE d == [i \in 0 .. k - 1 |-> b[i]]
<1>2. /\ b \in [0 .. k -> Seq(Tokens)] /\ b[0] = c[h.first[Doc]]
      /\ \A i \in 1 .. k : b[i] = b[i - 1] \o Opening(h, o[i], IF i = k THEN end ELSE Shut) \o c[h.first[o[i]]]
  BY <1>1 DEF Levels
<1>3. /\ Len(q) = k - 1 /\ k \in Nat \ {0}
      /\ \A i \in 1 .. k - 1 : q[i] = o[i] /\ i # k /\ i - 1 \in 0 .. k - 1 /\ i \in 0 .. k - 1
      /\ 0 .. k - 1 \subseteq 0 .. k /\ 1 .. k - 1 \subseteq 1 .. k
      /\ 0 \in 0 .. k - 1 /\ k - 1 \in 0 .. k - 1 /\ k \in 1 .. k
  <2>1. k \in Nat \ {0} OBVIOUS
  <2>2. Len(q) = k - 1 /\ \A i \in 1 .. k - 1 : q[i] = o[i] BY OuterIs
  <2> HIDE DEF k, q
  <2>3. /\ 0 .. k - 1 \subseteq 0 .. k /\ 1 .. k - 1 \subseteq 1 .. k
        /\ 0 \in 0 .. k - 1 /\ k - 1 \in 0 .. k - 1 /\ k \in 1 .. k
        /\ \A i \in 1 .. k - 1 : i # k /\ i - 1 \in 0 .. k - 1 /\ i \in 0 .. k - 1
    BY <2>1
  <2> QED BY <2>1, <2>2, <2>3
<1> HIDE DEF q, k
<1>4. d \in [0 .. k - 1 -> Seq(Tokens)] /\ \A i \in 0 .. k - 1 : d[i] = b[i] BY <1>2, <1>3
<1> HIDE DEF d
<1>5. ASSUME NEW i \in 1 .. k - 1
      PROVE  d[i] = d[i - 1] \o Opening(h, q[i], IF i = k - 1 THEN Shut ELSE Shut) \o c[h.first[q[i]]]
  <2>1. i # k /\ i \in 1 .. k BY <1>3
  <2> QED BY <1>2, <1>3, <1>4, <2>1
<1>6. d[0] = b[0] /\ d[k - 1] = b[k - 1] BY <1>3, <1>4
<1>7. Levels(h, q, Shut, c, d) BY <1>2, <1>3, <1>4, <1>5, <1>6 DEF Levels
<1>8. Sofar(h, q, Shut, c, b[k - 1]) BY <1>3, <1>6, <1>7 DEF Sofar
<1>9. s = b[k - 1] \o Opening(h, o[k], end) \o c[h.first[o[k]]]
  BY <1>1, <1>2, <1>3
<1> QED BY <1>8, <1>9 DEF q, k, Inside

\* Only what is of these nodes counts.
SameLevels(g, d, h, c, o) ==
  /\ d[g.first[Doc]] = c[h.first[Doc]]
  /\ \A i \in 1 .. Len(o) :
       /\ \A e \in Ends : Opening(g, o[i], e) = Opening(h, o[i], e)
       /\ d[g.first[o[i]]] = c[h.first[o[i]]]

LEMMA SofarSame ==
  ASSUME NEW h, NEW o \in Seq(Nodes), NEW end \in Ends, NEW c, NEW s, Sofar(h, o, end, c, s),
         NEW g, NEW d, SameLevels(g, d, h, c, o)
  PROVE  Sofar(g, o, end, d, s)
<1>1. PICK b : Levels(h, o, end, c, b) /\ b[Len(o)] = s BY DEF Sofar
<1>2. Levels(g, o, end, d, b)
  <2>2. ASSUME NEW i \in 1 .. Len(o)
        PROVE  b[i] = b[i - 1] \o Opening(g, o[i], IF i = Len(o) THEN end ELSE Shut) \o d[g.first[o[i]]]
    <3> DEFINE e == IF i = Len(o) THEN end ELSE Shut
    <3>1. e \in Ends BY DEF Ends
    <3>2. b[i] = b[i - 1] \o Opening(h, o[i], e) \o c[h.first[o[i]]] BY <1>1 DEF Levels
    <3> HIDE DEF e
    <3>3. Opening(g, o[i], e) = Opening(h, o[i], e) /\ d[g.first[o[i]]] = c[h.first[o[i]]]
      BY <3>1 DEF SameLevels
    <3>4. b[i] = b[i - 1] \o Opening(g, o[i], e) \o d[g.first[o[i]]] BY <3>2, <3>3
    <3> QED BY <3>4 DEF e
  <2> QED BY <1>1, <2>2 DEF Levels, SameLevels
<1> QED BY <1>1, <1>2 DEF Sofar

\* The innermost of them has x more below it.
SameOpenings(g, h, o) ==
  \A i \in 1 .. Len(o), e \in Ends : Opening(g, o[i], e) = Opening(h, o[i], e)

LEMMA SofarGrows ==
  ASSUME NEW h, LinkType(h), Worded(h), NEW c, Tells(h, c),
         NEW g, LinkType(g), Worded(g), NEW d,
         NEW o \in Seq(Nodes), \A i, j \in DOMAIN o : o[i] = o[j] => i = j,
         NEW s, Sofar(h, o, Shut, c, s), NEW x \in Seq(Tokens),
         SameOpenings(g, h, o), Grown(g, d, h, c, Level(o, Len(o)), x)
  PROVE  Sofar(g, o, Shut, d, s \o x)
<1> DEFINE p == Level(o, Len(o))
<1>a. /\ Tells(g, d) /\ d[g.first[p]] = c[h.first[p]] \o x
      /\ \A m \in Addresses : m # p => d[g.first[m]] = c[h.first[m]]
      /\ \A i \in 1 .. Len(o), e \in Ends : Opening(g, o[i], e) = Opening(h, o[i], e)
  BY DEF Grown, SameOpenings
<1>0. s \in Seq(Tokens) /\ (o = <<>> => s = c[h.first[Doc]])
  BY DEF Sofar, Levels
<1>1. CASE o = <<>>
  <2>1. d[g.first[Doc]] = c[h.first[Doc]] \o x BY <1>a, <1>1 DEF Level
  <2>2. s = c[h.first[Doc]] BY <1>0, <1>1
  <2>3. Sofar(g, <<>>, Shut, d, d[g.first[Doc]]) BY <1>a, SofarNone
  <2> QED BY <1>1, <2>1, <2>2, <2>3
<1>2. CASE o # <<>>
  <2> DEFINE k == Len(o)
             q == SubSeq(o, 1, Len(o) - 1)
  <2>1. /\ k \in Nat \ {0} /\ q \in Seq(Nodes) /\ Len(q) = k - 1 /\ o[k] \in Nodes
        /\ \A i \in 1 .. k - 1 : q[i] = o[i] /\ i \in 1 .. k /\ i # k /\ o[i] # o[k] /\ o[i] \in Nodes
        /\ o = Append(q, o[k])
    <3>1. k \in Nat \ {0} /\ o[k] \in Nodes BY <1>2
    <3>2. q \in Seq(Nodes) /\ Len(q) = k - 1 /\ \A i \in 1 .. k - 1 : q[i] = o[i] BY <1>2, OuterIs
    <3>3. \A i \in 1 .. k - 1 : i \in 1 .. k /\ i # k /\ o[i] \in Nodes BY <3>1
    <3>4. \A i \in 1 .. k - 1 : o[i] # o[k]
      <4>1. \A i \in 1 .. k - 1 : i \in DOMAIN o /\ k \in DOMAIN o BY <3>1
      <4> QED BY <3>3, <4>1
    <3>5. o = Append(q, o[k]) BY <1>2, OuterIs
    <3> QED BY <3>1, <3>2, <3>3, <3>4, <3>5
  <2>2. PICK s0 : /\ Sofar(h, q, Shut, c, s0)
                  /\ s = s0 \o Opening(h, o[k], Shut) \o c[h.first[o[k]]]
    <3>1. Inside(h, o, Shut, c, s) BY <1>2, SofarLess DEF Ends
    <3> QED BY <3>1 DEF Inside
  <2> HIDE DEF q, k
  <2>3. /\ d[g.first[o[k]]] = c[h.first[o[k]]] \o x
        /\ \A m \in Addresses : m # o[k] => d[g.first[m]] = c[h.first[m]]
    BY <1>a, <2>1 DEF Level, k
  <2>4. Doc \in Addresses /\ Doc # o[k] /\ o[k] \in Addresses BY <2>1, NullIsNone
  <2>5. Sofar(g, q, Shut, d, s0)
    <3>1. \A i \in 1 .. k - 1 : o[i] \in Addresses BY <2>1, NullIsNone
    <3>2. ASSUME NEW i \in 1 .. Len(q)
          PROVE  /\ \A e \in Ends : Opening(g, q[i], e) = Opening(h, q[i], e)
                 /\ d[g.first[q[i]]] = c[h.first[q[i]]]
      <4>1. i \in 1 .. k - 1 /\ q[i] = o[i] /\ i \in 1 .. Len(o) /\ o[i] # o[k] BY <2>1 DEF k
      <4>2. \A e \in Ends : Opening(g, q[i], e) = Opening(h, q[i], e) BY <1>a, <4>1
      <4>3. d[g.first[o[i]]] = c[h.first[o[i]]] BY <2>3, <3>1, <4>1
      <4> QED BY <4>1, <4>2, <4>3
    <3>3. d[g.first[Doc]] = c[h.first[Doc]] BY <2>3, <2>4
    <3>4. Shut \in Ends BY DEF Ends
    <3>5. q \in Seq(Nodes) BY <2>1
    <3>6. SameLevels(g, d, h, c, q) BY <3>2, <3>3 DEF SameLevels
    <3> QED BY <2>2, <3>4, <3>5, <3>6, SofarSame
  <2>6. Sofar(g, o, Shut, d, s0 \o Opening(g, o[k], Shut) \o d[g.first[o[k]]])
    <3>1. Sofar(g, Append(q, o[k]), Shut, d, s0 \o Opening(g, o[k], Shut) \o d[g.first[o[k]]])
      BY <1>a, <2>1, <2>5, SofarMore DEF Ends
    <3> QED BY <2>1, <3>1
  <2>7. Opening(g, o[k], Shut) = Opening(h, o[k], Shut) BY <1>a, <2>1 DEF k, Ends
  <2>8. s0 \o Opening(h, o[k], Shut) \o (c[h.first[o[k]]] \o x) = s \o x
    <3>1. s0 \in Seq(Tokens) /\ Opening(h, o[k], Shut) \in Seq(Tokens) /\ c[h.first[o[k]]] \in Seq(Tokens)
      BY <2>1, <2>2, <2>4, SofarIs, OpeningIs, ContentIs DEF Ends
    <3> DEFINE y == s0 \o Opening(h, o[k], Shut)
           z == c[h.first[o[k]]]
    <3>2. y \in Seq(Tokens) /\ z \in Seq(Tokens) BY <3>1
    <3> HIDE DEF y, z
    <3>3. (y \o z) \o x = y \o (z \o x) BY <3>2, ConcatAssoc
    <3> QED BY <2>2, <3>3 DEF y, z
  <2> QED BY <2>3, <2>6, <2>7, <2>8
<1> QED BY <1>1, <1>2

-----------------------------------------------------------------------------
(* Normal, token by token.                                                 *)

FileTokens == Markup \cup TagTokens \cup TextTokens \cup {Space, Eof}

LastOf(s) == IF s = <<>> THEN Space ELSE s[Len(s)]

NormalStep(s, t) ==
  CASE t \in {Space, BlankText} \/ (t = Text /\ LastOf(s) = Text) -> s
    [] t.t = "close" /\ LastOf(s) = TagClose -> Append(SubSeq(s, 1, Len(s) - 1), TagEmpty)
    [] t.t = "cut" -> Append(s, Token("leaf", t.name))
    [] OTHER -> Append(s, t)

NormalUpTo(file, w) ==
  w = [i \in 0 .. Len(file) |-> IF i = 0 THEN <<>> ELSE NormalStep(w[i - 1], file[i])]

Normals(file, s) == \E w : NormalUpTo(file, w) /\ w[Len(file)] = s

LEMMA NormalNone == Normals(<<>>, <<>>)
<1> DEFINE w == [i \in 0 .. 0 |-> <<>>]
<1>1. Len(<<>>) = 0 /\ w[0] = <<>> OBVIOUS
<1>2. w = [i \in 0 .. 0 |-> IF i = 0 THEN <<>> ELSE NormalStep(w[i - 1], <<>>[i])] OBVIOUS
<1> QED BY <1>1, <1>2 DEF Normals, NormalUpTo

LEMMA NormalMore ==
  ASSUME NEW file \in Seq(FileTokens), NEW s, Normals(file, s), NEW t \in FileTokens
  PROVE  Normals(Append(file, t), NormalStep(s, t))
<1> DEFINE k == Len(file) + 1
           f == Append(file, t)
           r == NormalStep(s, t)
<1>1. PICK w : NormalUpTo(file, w) /\ w[Len(file)] = s BY DEF Normals
<1> DEFINE v == [i \in 0 .. k |-> IF i = k THEN r ELSE w[i]]
<1>2. /\ Len(f) = k /\ f[k] = t /\ k \in Nat \ {0} /\ k - 1 = Len(file)
      /\ \A i \in 1 .. k - 1 : f[i] = file[i]
  OBVIOUS
<1>3. /\ w[0] = <<>>
      /\ \A i \in 1 .. k - 1 : w[i] = NormalStep(w[i - 1], file[i])
  <2>1. w = [i \in 0 .. k - 1 |-> IF i = 0 THEN <<>> ELSE NormalStep(w[i - 1], file[i])]
    BY <1>1, <1>2 DEF NormalUpTo
  <2>2. 0 \in 0 .. k - 1 /\ \A i \in 1 .. k - 1 : i \in 0 .. k - 1 /\ i # 0 BY <1>2
  <2> HIDE DEF f, r, k
  <2> QED BY <2>1, <2>2
<1> HIDE DEF f, r, k
<1>4. /\ v[0] = <<>> /\ v[k] = r /\ v[k - 1] = s
      /\ \A i \in 1 .. k - 1 : v[i] = w[i] /\ v[i - 1] = w[i - 1]
  <2>1. 0 \in 0 .. k /\ 0 # k /\ k \in 0 .. k /\ k - 1 \in 0 .. k /\ k - 1 # k BY <1>2
  <2>2. \A i \in 1 .. k - 1 : i \in 0 .. k /\ i # k /\ i - 1 \in 0 .. k /\ i - 1 # k BY <1>2
  <2> QED BY <1>1, <1>2, <1>3, <2>1, <2>2
<1>5. v = [i \in 0 .. k |-> v[i]] OBVIOUS
<1> HIDE DEF v
<1>6. ASSUME NEW i \in 0 .. k PROVE v[i] = IF i = 0 THEN <<>> ELSE NormalStep(v[i - 1], f[i])
  <2>1. CASE i = 0 BY <1>4, <2>1
  <2>2. CASE i = k BY <1>2, <1>4, <2>2 DEF r
  <2>3. CASE i # 0 /\ i # k
    <3>1. i \in 1 .. k - 1 BY <1>2, <2>3
    <3> QED BY <1>2, <1>3, <1>4, <2>3, <3>1
  <2> QED BY <2>1, <2>2, <2>3
<1>7. v = [i \in 0 .. k |-> IF i = 0 THEN <<>> ELSE NormalStep(v[i - 1], f[i])] BY <1>5, <1>6
<1>8. NormalUpTo(f, v) BY <1>2, <1>7 DEF NormalUpTo
<1> QED BY <1>2, <1>4, <1>8 DEF Normals, f, r

LEMMA NormalIs ==
  ASSUME NEW file \in Seq(FileTokens), NEW s, Normals(file, s)
  PROVE  Normal(file) = s
<1> DEFINE From(w) == w = [i \in 0 .. Len(file) |->
             IF i = 0 THEN <<>>
             ELSE LET t == file[i]
                      sofar == w[i - 1]
                      end == IF sofar = <<>> THEN Space ELSE sofar[Len(sofar)]
                  IN  CASE t \in {Space, BlankText} \/ (t = Text /\ end = Text) -> sofar
                        [] t.t = "close" /\ end = TagClose ->
                             Append(SubSeq(sofar, 1, Len(sofar) - 1), TagEmpty)
                        [] t.t = "cut" -> Append(sofar, Token("leaf", t.name))
                        [] OTHER -> Append(sofar, t)]
<1>1. \A w : From(w) <=> NormalUpTo(file, w) BY Zenon DEF NormalUpTo, NormalStep, LastOf
<1>2. PICK w : NormalUpTo(file, w) /\ w[Len(file)] = s BY DEF Normals
<1>3. PICK v : NormalUpTo(file, v) /\ Normal(file) = v[Len(file)]
  <2>1. From(CHOOSE v : From(v)) BY <1>1, <1>2
  <2> DEFINE v == CHOOSE v : From(v)
  <2>2. Normal(file) = v[Len(file)] BY DEF Normal
  <2>3. NormalUpTo(file, v) BY <1>1, <2>1
  <2> QED BY <2>2, <2>3
<1> HIDE DEF From
<1> DEFINE k == Len(file)
           T == {i \in 0 .. k : w[i] # v[i]}
<1>4. k \in Nat OBVIOUS
<1>5. /\ \A i \in 0 .. k : w[i] = IF i = 0 THEN <<>> ELSE NormalStep(w[i - 1], file[i])
      /\ \A i \in 0 .. k : v[i] = IF i = 0 THEN <<>> ELSE NormalStep(v[i - 1], file[i])
  BY <1>2, <1>3 DEF NormalUpTo
<1> HIDE DEF k
<1>6. T = {}
  <2> SUFFICES ASSUME T # {} PROVE FALSE OBVIOUS
  <2>1. T \in SUBSET Nat BY <1>4
  <2>2. PICK n \in T : \A j \in T : n <= j BY <2>1, LeastNumber
  <2>3. n \in 0 .. k /\ w[n] # v[n] BY <2>2
  <2>4. n # 0 BY <1>5, <2>3
  <2>5. n - 1 \in 0 .. k /\ ~(n <= n - 1) BY <1>4, <2>3, <2>4
  <2>6. w[n - 1] = v[n - 1] BY <2>2, <2>5
  <2> QED BY <1>5, <2>3, <2>4, <2>6
<1>7. w[k] = v[k]
  <2>1. k \in 0 .. k BY <1>4
  <2> QED BY <1>6, <2>1
<1> QED BY <1>2, <1>3, <1>7 DEF k

-----------------------------------------------------------------------------
(* First children and next siblings never come round.                      *)

LEMMA LinkRings ==
  ASSUME NEW h, NEW U, Sound(h, U), NEW n \in Addresses, n \in U, NEW p \in Addresses,
         h.parent[n] = p, NoRings(h)
  PROVE  NoRings(LinkEndChild(h, p, n))
<1> DEFINE g == LinkEndChild(h, p, n)
           D == Subtree(h, n)
<1>1. /\ LinkType(h) /\ NoRing(h.parent) /\ \A m \in Addresses : NodeLinked(h, U, m)
      /\ h.last[p] \in Pointers /\ Null \in Pointers
  BY DEF Sound, Linked, LinksConsistent, LinkType, Pointers
<1>2. Spliced(h, g, p, h.last[p], Null, n) BY <1>1, SpliceIs DEF LinkEndChild
<1>3. \A m \in Addresses :
        /\ g.next[m] = IF m = n THEN Null ELSE IF m = h.last[p] THEN n ELSE h.next[m]
        /\ g.first[m] = IF m = p /\ h.last[p] = Null THEN n ELSE h.first[m]
  BY <1>2 DEF Spliced
<1>4. /\ D \subseteq Addresses /\ n \in D /\ Closed(h, D)
      /\ \A m \in D : m # n => h.parent[m] \in D
  BY SubtreeIs
<1>5. p \notin D BY <1>1, ParentOutside
<1> HIDE DEF g, D
<1> SUFFICES ASSUME NEW S \in SUBSET Addresses, S # {}
             PROVE  \E m \in S : g.first[m] \notin S /\ g.next[m] \notin S
  BY DEF NoRings, g
<1>6. Null \notin S BY NullIsNone
<1>7. CASE n \notin S
  <2>1. PICK m \in S : h.first[m] \notin S /\ h.next[m] \notin S BY DEF NoRings
  <2>2. g.first[m] \notin S /\ g.next[m] \notin S BY <1>3, <1>6, <1>7, <2>1
  <2> QED BY <2>2
<1>8. CASE n \in S
  <2>1. S \cap D \in SUBSET Addresses /\ S \cap D # {} BY <1>4, <1>8
  <2>2. PICK m \in S \cap D : h.first[m] \notin S \cap D /\ h.next[m] \notin S \cap D
    BY <2>1 DEF NoRings
  <2>3. m \in Addresses /\ m # p BY <1>4, <1>5, <2>2
  <2>4. h.first[m] \notin S
    <3>1. CASE h.first[m] = Null BY <1>6, <3>1
    <3>2. CASE h.first[m] # Null
      <4>1. h.parent[h.first[m]] = m /\ h.first[m] \in Addresses
        BY <1>1, <2>3, <3>2 DEF NodeLinked, FirstLinked, LinkType, Pointers
      <4>2. h.first[m] \in D BY <1>4, <2>2, <4>1 DEF Closed
      <4> QED BY <2>2, <4>2
    <3> QED BY <3>1, <3>2
  <2>5. g.first[m] = h.first[m] BY <1>3, <2>3
  <2>6. g.next[m] \notin S
    <3>1. CASE m = n BY <1>3, <1>6, <2>3, <3>1
    <3>2. CASE m # n
      <4>1. h.parent[m] \in D BY <1>4, <2>2, <3>2
      <4>2. m # h.last[p]
        <5>1. h.last[p] # Null => h.parent[h.last[p]] = p BY <1>1 DEF NodeLinked, LastLinked
        <5> QED BY <1>5, <2>3, <4>1, <5>1, NullIsNone
      <4>3. g.next[m] = h.next[m] BY <1>3, <2>3, <3>2, <4>2
      <4>4. CASE h.next[m] = Null BY <1>6, <4>3, <4>4
      <4>5. CASE h.next[m] # Null
        <5>1. h.parent[h.next[m]] = h.parent[m] /\ h.next[m] \in Addresses
          BY <1>1, <2>3, <4>5 DEF NodeLinked, NextLinked, LinkType, Pointers
        <5>2. h.next[m] \in D BY <1>4, <4>1, <5>1 DEF Closed
        <5> QED BY <2>2, <4>3, <5>2
      <4> QED BY <4>4, <4>5
    <3> QED BY <3>1, <3>2
  <2> QED BY <2>2, <2>4, <2>5, <2>6
<1> QED BY <1>7, <1>8

-----------------------------------------------------------------------------
(* A document that is being read, and what has been read of it.            *)

\* Every node that is read is below the one that was read before it; a text has nothing
\* below it.
Stacked(h, o) ==
  \A i \in 1 .. Len(o) :
    /\ h.parent[o[i]] = Level(o, i - 1)
    /\ h.kind[o[i]] \in {"element", "text"}
    /\ h.kind[o[i]] = "text" => i = Len(o) /\ i > 1 /\ h.first[o[i]] = Null

\* The parser makes no attribute without a name and keeps no text of blanks.
Clean(h) ==
  /\ NoRings(h) /\ Worded(h) /\ TextsSay(h)
  /\ \A n \in Addresses :
       /\ \A i \in DOMAIN h.attrs[n] : HasName(h.attrs[n][i])
       /\ h.kind[n] = "free" => h.attrs[n] = <<>>

Reads(h, o, end, s) == \E c : Tells(h, c) /\ Sofar(h, o, end, c, s)

LEMMA OpenIs ==
  ASSUME DocInv
  PROVE  /\ open \in Seq(Nodes) /\ Sound(heap, Unlinked) /\ LinkType(heap)
         /\ \A i, j \in DOMAIN open : open[i] = open[j] => i = j
         /\ \A i \in 1 .. Len(open) :
              /\ open[i] \in Addresses /\ open[i] \in Unlinked /\ heap.kind[open[i]] # "free"
         /\ Top = Level(open, Len(open)) /\ Top \in Addresses
         /\ Top \in Unlinked \/ Top = Doc
<1>1. open \in Seq(Nodes) /\ Sound(heap, Unlinked) /\ LinkType(heap)
  BY DEF DocInv, StackInv, Sound, Linked
<1>2. \A i, j \in DOMAIN open : open[i] = open[j] => i = j BY DEF DocInv, StackInv
<1>3. ASSUME NEW i \in 1 .. Len(open)
      PROVE  open[i] \in Addresses /\ open[i] \in Unlinked /\ heap.kind[open[i]] # "free"
  <2>1. i \in DOMAIN open BY <1>1
  <2> QED BY <1>1, <2>1, NullIsNone DEF DocInv, StackInv, Unlinked
<1>4. Len(open) = 0 <=> open = <<>> BY <1>1
<1>5. Top = Level(open, Len(open)) BY <1>4 DEF Top, Level
<1>6. Top \in Addresses /\ (Top \in Unlinked \/ Top = Doc) BY TopLive DEF Top
<1> QED BY <1>1, <1>2, <1>3, <1>5, <1>6

\* A node is made: what was printed is printed, and the node as it is.
LEMMA NewTells ==
  ASSUME NEW h, NEW U, Sound(h, U), Clean(h), NEW n \in FreeNodes(h),
         NEW kind \in Kinds, kind # "free", NEW name \in AllNames, NEW p \in Addresses,
         kind = "text" => name = Text.name,
         NEW g, g = New(h, n, kind, name, p), LinkType(g)
  PROVE  /\ Clean(g)
         /\ g.first[n] = Null /\ g.kind[n] = kind /\ g.name[n] = name /\ g.attrs[n] = <<>>
         /\ g.parent[n] = p
         /\ \A m \in Addresses : /\ g.first[m] = h.first[m]
                                 /\ m # n => /\ g.kind[m] = h.kind[m] /\ g.name[m] = h.name[m]
                                             /\ g.attrs[m] = h.attrs[m] /\ g.parent[m] = h.parent[m]
         /\ \A c : Tells(h, c) =>
              \E d : /\ Tells(g, d) /\ d[n] = NodeText(g, n, <<>>)
                     /\ \A q \in Addresses : d[g.first[q]] = c[h.first[q]]
<1>1. n \in Addresses /\ h.kind[n] = "free" /\ p \in Pointers BY NullIsNone DEF FreeNodes, Pointers
<1>2. LinkType(h) /\ Linked(h, U) BY DEF Sound, Linked
<1>3. /\ h.first[n] = Null /\ h.next[n] = Null
      /\ \A m \in Addresses : h.first[m] # n /\ h.next[m] # n
  BY <1>2, FreeUnknown
<1>4. Made(h, g, n, kind, p) BY <1>1, <1>2, NewIs
<1>5. Named(g) /\ \A m \in Addresses : g.name[m] = IF m = n THEN name ELSE h.name[m]
  <2>1. Named(h) BY DEF Clean, Worded
  <2> QED BY <1>1, <1>2, <2>1, NewNamed
<1>6. g.attrs = h.attrs /\ g.first = h.first /\ g.next = h.next BY <1>2 DEF New, LinkType
<1>7. Worded(g) BY <1>5, <1>6 DEF Clean, Worded
<1>8. /\ NoRings(g)
      /\ \A m \in Addresses : g.kind[m] = "free" => h.kind[m] = "free"
  BY <1>1, <1>4, <1>6 DEF Clean, NoRings, Made
<1>9. Clean(g)
  <2>1. \A m \in Addresses : g.kind[m] = IF m = n THEN kind ELSE h.kind[m] BY <1>4 DEF Made
  <2>2. TextsSay(g) BY <1>5, <2>1 DEF Clean, TextsSay
  <2> QED BY <1>6, <1>7, <1>8, <2>2 DEF Clean
<1>10. \A m \in Addresses : m # n => /\ g.kind[m] = h.kind[m] /\ g.name[m] = h.name[m]
                                     /\ g.attrs[m] = h.attrs[m] /\ g.parent[m] = h.parent[m]
  BY <1>4, <1>5, <1>6 DEF Made
<1>11. g.kind[n] = kind /\ g.name[n] = name /\ g.parent[n] = p BY <1>1, <1>4, <1>5 DEF Made
<1>12. g.attrs[n] = <<>> /\ g.first[n] = Null BY <1>1, <1>3, <1>6 DEF Clean
<1>13. ASSUME NEW c, Tells(h, c)
       PROVE  \E d : /\ Tells(g, d) /\ d[n] = NodeText(g, n, <<>>)
                     /\ \A q \in Addresses : d[g.first[q]] = c[h.first[q]]
  <2>1. \E d : Changed(g, d, h, c, n)
    BY <1>1, <1>2, <1>3, <1>6, <1>7, <1>10, <1>13, ChangeTells
  <2>2. c[h.first[n]] = <<>> BY <1>3, <1>13 DEF Tells
  <2> QED BY <2>1, <2>2 DEF Changed
<1> QED BY <1>6, <1>9, <1>10, <1>11, <1>12, <1>13

\* A node is linked.
LEMMA LinkClean ==
  ASSUME NEW h, NEW U, Sound(h, U), NEW n \in Addresses, n \in U, h.kind[n] # "free",
         NEW p \in Addresses, h.parent[n] = p, Clean(h), NEW g, g = LinkEndChild(h, p, n)
  PROVE  /\ Clean(g) /\ LinkType(g)
         /\ \A m \in Addresses :
              /\ g.kind[m] = h.kind[m] /\ g.name[m] = h.name[m] /\ g.attrs[m] = h.attrs[m]
              /\ g.parent[m] = h.parent[m] /\ (m # p => g.first[m] = h.first[m])
<1>1. LinkType(h) /\ h.last[p] \in Pointers /\ Null \in Pointers
  BY DEF Sound, Linked, LinkType, Pointers
<1>2. Spliced(h, g, p, h.last[p], Null, n) BY <1>1, SpliceIs DEF LinkEndChild
<1>3. Named(g) /\ g.name = h.name
  <2>1. Named(h) /\ g = Splice(h, p, h.last[p], Null, n) BY DEF LinkEndChild, Clean, Worded
  <2> QED BY <1>1, <2>1, SpliceNamed
<1>4. g.attrs = h.attrs BY <1>1 DEF LinkEndChild, Splice, LinkType
<1>5. NoRings(g) BY LinkRings DEF Clean
<1>6. \A m \in Addresses : /\ g.kind[m] = h.kind[m] /\ g.parent[m] = h.parent[m]
                           /\ m # p => g.first[m] = h.first[m]
  BY <1>2 DEF Spliced
<1>7. Clean(g)
  <2>1. Worded(g) BY <1>3, <1>4 DEF Clean, Worded
  <2>2. ASSUME NEW m \in Addresses
        PROVE  /\ \A i \in DOMAIN g.attrs[m] : HasName(g.attrs[m][i])
               /\ g.kind[m] = "free" => g.attrs[m] = <<>>
    <3>1. g.attrs[m] = h.attrs[m] /\ g.kind[m] = h.kind[m] BY <1>4, <1>6
    <3> QED BY <3>1 DEF Clean
  <2>3. TextsSay(g) BY <1>3, <1>6 DEF Clean, TextsSay
  <2> QED BY <1>5, <2>1, <2>2, <2>3 DEF Clean
<1> QED BY <1>2, <1>3, <1>4, <1>6, <1>7 DEF Spliced

\* A node is made below the innermost one and its Parse is called.
LEMMA PushReads ==
  ASSUME DocInv, DocInv', Clean(heap), Stacked(heap, open), heap.kind[Top] # "text",
         NEW n \in FreeNodes(heap), NEW kind \in {"element", "text"}, NEW name \in AllNames,
         kind = "text" => open # <<>> /\ name = Text.name,
         heap' = New(heap, n, kind, name, Top), open' = Append(open, n),
         NEW s, Reads(heap, open, Shut, s)
  PROVE  /\ Clean(heap') /\ Stacked(heap', open')
         /\ Top' = n /\ heap'.kind[n] = kind /\ heap'.first[n] = Null
         /\ kind = "text" => Reads(heap', open', Shut, Append(s, Text))
         /\ kind = "element" => Reads(heap', open', <<>>, Append(s, Token("open", name)))
<1>1. kind \in Kinds /\ kind # "free" BY DEF Kinds
<1>2. /\ open \in Seq(Nodes) /\ Sound(heap, Unlinked) /\ LinkType(heap) /\ LinkType(heap')
      /\ \A i \in 1 .. Len(open) :
           open[i] \in Addresses /\ open[i] \in Unlinked /\ heap.kind[open[i]] # "free"
      /\ Top = Level(open, Len(open)) /\ Top \in Addresses
  BY OpenIs DEF DocInv, Sound, Linked
<1>3. /\ Clean(heap')
      /\ heap'.first[n] = Null /\ heap'.kind[n] = kind /\ heap'.name[n] = name
      /\ heap'.attrs[n] = <<>> /\ heap'.parent[n] = Top
      /\ \A m \in Addresses :
           /\ heap'.first[m] = heap.first[m]
           /\ m # n => /\ heap'.kind[m] = heap.kind[m] /\ heap'.name[m] = heap.name[m]
                       /\ heap'.attrs[m] = heap.attrs[m] /\ heap'.parent[m] = heap.parent[m]
      /\ \A c : Tells(heap, c) =>
           \E d : /\ Tells(heap', d) /\ d[n] = NodeText(heap', n, <<>>)
                  /\ \A q \in Addresses : d[heap'.first[q]] = c[heap.first[q]]
  BY <1>1, <1>2, NewTells
<1>4. n \in Nodes /\ heap.kind[n] = "free" /\ \A i \in 1 .. Len(open) : open[i] # n
  BY <1>2 DEF FreeNodes
<1>5. /\ Len(open') = Len(open) + 1 /\ open'[Len(open) + 1] = n /\ Len(open) \in Nat
      /\ \A i \in 1 .. Len(open) : open'[i] = open[i]
      /\ \A i \in 1 .. Len(open) + 1 : i = Len(open) + 1 \/ i \in 1 .. Len(open)
      /\ open' # <<>>
  BY <1>2, <1>4
<1>6. Top' = n BY <1>5 DEF Top
<1>7. Stacked(heap', open')
  <2>1. \A i \in 1 .. Len(open) : Level(open', i - 1) = Level(open, i - 1)
    <3> TAKE i \in 1 .. Len(open)
    <3>1. i - 1 = 0 \/ i - 1 \in 1 .. Len(open) BY <1>5
    <3> QED BY <1>5, <3>1 DEF Level
  <2>2. Level(open', Len(open)) = Level(open, Len(open))
    <3>1. Len(open) = 0 \/ Len(open) \in 1 .. Len(open) BY <1>5
    <3> QED BY <1>5, <3>1 DEF Level
  <2>3. \A i \in 1 .. Len(open) : heap.kind[open[i]] # "text"
    <3> SUFFICES ASSUME NEW i \in 1 .. Len(open), heap.kind[open[i]] = "text" PROVE FALSE OBVIOUS
    <3>1. i = Len(open) /\ i # 0 BY DEF Stacked
    <3> QED BY <1>2, <3>1 DEF Level
  <2>4. ASSUME NEW i \in 1 .. Len(open')
        PROVE  /\ heap'.parent[open'[i]] = Level(open', i - 1)
               /\ heap'.kind[open'[i]] \in {"element", "text"}
               /\ heap'.kind[open'[i]] = "text" =>
                    i = Len(open') /\ i > 1 /\ heap'.first[open'[i]] = Null
    <3>1. CASE i = Len(open) + 1
      <4>1. i - 1 = Len(open) /\ (open # <<>> => i > 1) BY <1>2, <1>5, <3>1
      <4> QED BY <1>2, <1>3, <1>5, <2>2, <3>1, <4>1
    <3>2. CASE i \in 1 .. Len(open)
      <4>1. open'[i] = open[i] /\ open[i] \in Addresses /\ open[i] # n BY <1>2, <1>4, <1>5, <3>2
      <4>2. heap'.kind[open[i]] = heap.kind[open[i]] /\ heap'.parent[open[i]] = heap.parent[open[i]]
        BY <1>3, <4>1
      <4>3. heap.parent[open[i]] = Level(open, i - 1) /\ heap.kind[open[i]] \in {"element", "text"}
        BY <3>2 DEF Stacked
      <4> QED BY <2>1, <2>3, <3>2, <4>1, <4>2, <4>3
    <3> QED BY <1>5, <3>1, <3>2
  <2> QED BY <2>4 DEF Stacked
<1>8. PICK c : Tells(heap, c) /\ Sofar(heap, open, Shut, c, s) BY DEF Reads
<1>9. PICK d : Tells(heap', d) /\ \A q \in Addresses : d[heap'.first[q]] = c[heap.first[q]]
  BY <1>3, <1>8
<1>10. SameLevels(heap', d, heap, c, open)
  <2>1. \A i \in 1 .. Len(open), e \in Ends : Opening(heap', open[i], e) = Opening(heap, open[i], e)
    <3> TAKE i \in 1 .. Len(open), e \in Ends
    <3>1. open[i] \in Addresses /\ open[i] # n BY <1>2, <1>4
    <3>2. /\ heap'.kind[open[i]] = heap.kind[open[i]] /\ heap'.name[open[i]] = heap.name[open[i]]
          /\ heap'.attrs[open[i]] = heap.attrs[open[i]]
      BY <1>3, <3>1
    <3> QED BY <3>2 DEF Opening
  <2> QED BY <1>2, <1>9, <2>1, NullIsNone DEF SameLevels
<1>11. Shut \in Ends /\ <<>> \in Ends BY DEF Ends
<1>12. Sofar(heap', open, Shut, d, s) BY <1>2, <1>8, <1>10, <1>11, SofarSame
<1>13. s \in Seq(Tokens) /\ d[heap'.first[n]] = <<>> BY <1>2, <1>3, <1>8, <1>9, SofarIs DEF Tells
<1>14. ASSUME NEW end \in Ends
       PROVE  Sofar(heap', open', end, d, s \o Opening(heap', n, end) \o <<>>)
  <2>1. Worded(heap') BY <1>3 DEF Clean
  <2>2. Sofar(heap', Append(open, n), end, d, s \o Opening(heap', n, end) \o d[heap'.first[n]])
    BY <1>2, <1>4, <1>9, <1>12, <2>1, SofarMore
  <2> QED BY <1>13, <2>2
<1>15. CASE kind = "text"
  <2>1. Opening(heap', n, Shut) = <<Text>> BY <1>3, <1>15 DEF Opening
  <2>2. s \o <<Text>> \o <<>> = Append(s, Text)
    <3> DEFINE t == Text
    <3>1. t \in Tokens BY TokenIs
    <3> HIDE DEF t
    <3>2. s \o <<t>> \o <<>> = Append(s, t) BY <1>13, <3>1
    <3> QED BY <3>2 DEF t
  <2>3. Sofar(heap', open', Shut, d, Append(s, Text)) BY <1>11, <1>14, <2>1, <2>2
  <2> QED BY <1>3, <1>6, <1>7, <1>9, <1>15, <2>3 DEF Reads
<1>16. CASE kind = "element"
  <2>1. AttrText(heap'.attrs[n]) = <<>>
    <3>1. <<>> \in Seq(Attributes) /\ \A i \in DOMAIN <<>> : HasName(<<>>[i]) OBVIOUS
    <3>2. Iterated(<<>>) = <<>> BY <3>1, IteratedIs
    <3> QED BY <1>3, <3>2 DEF AttrText
  <2> DEFINE t == Token("open", name)
  <2>2. Opening(heap', n, <<>>) = <<t>> \o <<>> \o <<>> BY <1>3, <1>16, <2>1 DEF Opening
  <2>3. t \in Tokens BY TokenIs DEF AllNames, Text, Token
  <2> HIDE DEF t
  <2>4. s \o (<<t>> \o <<>> \o <<>>) \o <<>> = Append(s, t) BY <1>13, <2>3
  <2>5. Sofar(heap', open', <<>>, d, Append(s, t)) BY <1>11, <1>14, <2>2, <2>4
  <2> QED BY <1>3, <1>6, <1>7, <1>9, <1>16, <2>5 DEF Reads, t
<1> QED BY <1>15, <1>16

\* Who changes neither parents nor kinds, and gives a text nothing, leaves the stack.
LEMMA StackedStays ==
  ASSUME NEW h, NEW g, NEW o \in Seq(Nodes), Stacked(h, o),
         \A i \in 1 .. Len(o) :
           /\ g.parent[o[i]] = h.parent[o[i]] /\ g.kind[o[i]] = h.kind[o[i]]
           /\ h.kind[o[i]] = "text" => g.first[o[i]] = h.first[o[i]]
  PROVE  Stacked(g, o)
BY DEF Stacked

LeafToken(kind, name) ==
  IF kind = "unknown" /\ name # "" THEN Token("close", name) ELSE Token("leaf", kind)

\* A leaf is made below the innermost one and linked.
LEMMA LeafReads ==
  ASSUME DocInv, DocInv', Clean(heap), Stacked(heap, open), heap.kind[Top] # "text",
         NEW n \in FreeNodes(heap), NEW kind \in Kinds \ {"free", "element", "text"},
         NEW name \in AllNames,
         heap' = LinkEndChild(New(heap, n, kind, name, Top), Top, n), open' = open,
         NEW s, Reads(heap, open, Shut, s)
  PROVE  /\ Clean(heap') /\ Stacked(heap', open') /\ heap'.kind[Top'] = heap.kind[Top]
         /\ Reads(heap', open', Shut, Append(s, LeafToken(kind, name)))
<1> DEFINE g == New(heap, n, kind, name, Top)
           U == Unlinked \cup {n}
<1>1. kind \in Kinds /\ kind # "free" OBVIOUS
<1>2. /\ open \in Seq(Nodes) /\ Sound(heap, Unlinked) /\ LinkType(heap) /\ LinkType(heap')
      /\ \A i, j \in DOMAIN open : open[i] = open[j] => i = j
      /\ \A i \in 1 .. Len(open) :
           open[i] \in Addresses /\ open[i] \in Unlinked /\ heap.kind[open[i]] # "free"
      /\ Top = Level(open, Len(open)) /\ Top \in Addresses /\ (Top \in Unlinked \/ Top = Doc)
      /\ heap.kind[Top] # "free"
  BY OpenIs, TopLive DEF DocInv, Sound, Linked
<1>3. n \in Addresses /\ n # Top /\ heap.kind[n] = "free" /\ \A i \in 1 .. Len(open) : open[i] # n
  BY <1>2, NullIsNone DEF FreeNodes
<1>4. Sound(g, U)
  <2>1. Top \in Pointers BY <1>2 DEF Pointers
  <2> QED BY <1>1, <1>2, <2>1, NewSound
<1> HIDE DEF g, U
<1>5. LinkType(g) BY <1>4 DEF Sound, Linked
<1>6. /\ Clean(g)
      /\ g.first[n] = Null /\ g.kind[n] = kind /\ g.name[n] = name
      /\ g.parent[n] = Top
      /\ \A m \in Addresses :
           /\ g.first[m] = heap.first[m]
           /\ m # n => /\ g.kind[m] = heap.kind[m] /\ g.name[m] = heap.name[m]
                       /\ g.attrs[m] = heap.attrs[m] /\ g.parent[m] = heap.parent[m]
      /\ \A c : Tells(heap, c) =>
           \E d : /\ Tells(g, d) /\ d[n] = NodeText(g, n, <<>>)
                  /\ \A q \in Addresses : d[g.first[q]] = c[heap.first[q]]
  BY <1>1, <1>2, <1>5, NewTells DEF g
<1>7. heap' = LinkEndChild(g, Top, n) /\ n \in U /\ (Top \in U \/ Top = Doc) BY <1>2 DEF g, U
<1>8. /\ Clean(heap')
      /\ \A m \in Addresses :
           /\ heap'.kind[m] = g.kind[m] /\ heap'.name[m] = g.name[m] /\ heap'.attrs[m] = g.attrs[m]
           /\ heap'.parent[m] = g.parent[m] /\ (m # Top => heap'.first[m] = g.first[m])
  BY <1>1, <1>2, <1>3, <1>4, <1>6, <1>7, LinkClean
<1>9. \A m \in Addresses : m # n =>
        /\ heap'.kind[m] = heap.kind[m] /\ heap'.name[m] = heap.name[m]
        /\ heap'.attrs[m] = heap.attrs[m] /\ heap'.parent[m] = heap.parent[m]
        /\ m # Top => heap'.first[m] = heap.first[m]
  BY <1>6, <1>8
<1>10. Stacked(heap', open)
  <2>1. ASSUME NEW i \in 1 .. Len(open)
        PROVE  /\ heap'.parent[open[i]] = heap.parent[open[i]]
               /\ heap'.kind[open[i]] = heap.kind[open[i]]
               /\ heap.kind[open[i]] = "text" => heap'.first[open[i]] = heap.first[open[i]]
    <3>1. open[i] \in Addresses /\ open[i] # n BY <1>2, <1>3
    <3> QED BY <1>9, <3>1
  <2> QED BY <1>2, <2>1, StackedStays
<1>11. PICK c : Tells(heap, c) /\ Sofar(heap, open, Shut, c, s) BY DEF Reads
<1>12. PICK d : /\ Tells(g, d) /\ d[n] = NodeText(g, n, <<>>)
                /\ \A q \in Addresses : d[g.first[q]] = c[heap.first[q]]
  BY <1>6, <1>11
<1>13. \A i \in 1 .. Len(open), e \in Ends :
         /\ Opening(g, open[i], e) = Opening(heap, open[i], e)
         /\ Opening(heap', open[i], e) = Opening(g, open[i], e)
  <2> TAKE i \in 1 .. Len(open), e \in Ends
  <2>1. open[i] \in Addresses /\ open[i] # n BY <1>2, <1>3
  <2>2. /\ g.kind[open[i]] = heap.kind[open[i]] /\ g.name[open[i]] = heap.name[open[i]]
        /\ g.attrs[open[i]] = heap.attrs[open[i]]
    BY <1>6, <2>1
  <2>3. /\ heap'.kind[open[i]] = g.kind[open[i]] /\ heap'.name[open[i]] = g.name[open[i]]
        /\ heap'.attrs[open[i]] = g.attrs[open[i]]
    BY <1>8, <2>1
  <2> QED BY <2>2, <2>3 DEF Opening
<1>14. Sofar(g, open, Shut, d, s)
  <2>1. SameLevels(g, d, heap, c, open) BY <1>2, <1>12, <1>13, NullIsNone DEF SameLevels
  <2>2. Shut \in Ends BY DEF Ends
  <2> QED BY <1>2, <1>11, <2>1, <2>2, SofarSame
<1>15. PICK e : Grown(heap', e, g, d, Top, d[n])
  <2>1. Worded(g) BY <1>6 DEF Clean
  <2> QED BY <1>2, <1>3, <1>4, <1>6, <1>7, <1>12, <2>1, LinkTells
<1>16. d[n] \in Seq(Tokens) /\ Worded(g) /\ Worded(heap') BY <1>3, <1>6, <1>8, <1>12 DEF Tells, Clean, Pointers
<1>17. Sofar(heap', open, Shut, e, s \o d[n])
  <2>1. SameOpenings(heap', g, open) BY <1>13 DEF SameOpenings
  <2>2. Grown(heap', e, g, d, Level(open, Len(open)), d[n]) BY <1>2, <1>15
  <2> QED BY <1>2, <1>5, <1>12, <1>14, <1>16, <2>1, <2>2, SofarGrows
<1> DEFINE t == LeafToken(kind, name)
<1>18. d[n] = <<t>>
  <2>1. kind # "element" /\ kind # "text" OBVIOUS
  <2> QED BY <1>6, <1>12, <2>1 DEF NodeText, LeafToken
<1>19. t \in Tokens BY TokenIs DEF AllNames, Text, Token, LeafToken
<1> HIDE DEF t
<1>20. s \o d[n] = Append(s, t)
  <2>1. s \in Seq(Tokens) BY <1>2, <1>11, SofarIs
  <2> QED BY <1>18, <1>19, <2>1
<1>21. Reads(heap', open', Shut, Append(s, t)) BY <1>15, <1>17, <1>20 DEF Reads, Grown
<1>22. heap'.kind[Top'] = heap.kind[Top] BY <1>2, <1>3, <1>9 DEF Top
<1> QED BY <1>8, <1>10, <1>21, <1>22 DEF t

\* q is o without its last node.
IsOuter(o, q) ==
  /\ Len(o) \in Nat \ {0} /\ o[Len(o)] \in Nodes
  /\ q \in Seq(Nodes) /\ Len(q) = Len(o) - 1 /\ DOMAIN q = 1 .. Len(o) - 1
  /\ \A i \in 1 .. Len(q) : q[i] = o[i] /\ i \in 1 .. Len(o) /\ i \in DOMAIN o /\ i # Len(o)
  /\ Level(q, Len(q)) = Level(o, Len(o) - 1)

LEMMA OuterIn ==
  ASSUME NEW o \in Seq(Nodes), o # <<>>
  PROVE  IsOuter(o, SubSeq(o, 1, Len(o) - 1))
<1> DEFINE q == SubSeq(o, 1, Len(o) - 1)
<1>1. /\ Len(o) \in Nat \ {0} /\ o[Len(o)] \in Nodes
      /\ q \in Seq(Nodes) /\ Len(q) = Len(o) - 1 /\ DOMAIN q = 1 .. Len(o) - 1
      /\ \A i \in 1 .. Len(o) - 1 : q[i] = o[i] /\ i \in DOMAIN o /\ i # Len(o)
  BY OuterIs
<1> HIDE DEF q
<1>2. Level(q, Len(q)) = Level(o, Len(o) - 1)
  <2>1. Len(q) = 0 \/ Len(q) \in 1 .. Len(o) - 1 BY <1>1
  <2> QED BY <1>1, <2>1 DEF Level
<1>3. \A i \in 1 .. Len(q) : i \in 1 .. Len(o) - 1 /\ i \in 1 .. Len(o) BY <1>1
<1> QED BY <1>1, <1>2, <1>3 DEF IsOuter, q

\* A Parse returns and its caller links the node.
Returned(h, n, end, s, t) ==
  \E s0, x \in Seq(Tokens) :
    /\ s = s0 \o Opening(h, n, end) \o x /\ t = s0 \o NodeText(h, n, x)
    /\ (x = <<>> \/ EndsWell(x)) /\ (h.first[n] = Null => x = <<>>)

LEMMA LinkTopReads ==
  ASSUME DocInv, DocInv', Clean(heap), Stacked(heap, open), open # <<>>, LinkTop,
         NEW end \in Ends, NEW s, Reads(heap, open, end, s)
  PROVE  /\ Clean(heap') /\ Stacked(heap', open') /\ heap'.kind[Top'] # "text"
         /\ \E t : Returned(heap, Top, end, s, t) /\ Reads(heap', open', Shut, t)
<1> DEFINE n == Top
           p == heap.parent[n]
           q == Outer
           k == Len(open)
<1>1. /\ open \in Seq(Nodes) /\ Sound(heap, Unlinked) /\ LinkType(heap) /\ LinkType(heap')
      /\ \A i, j \in DOMAIN open : open[i] = open[j] => i = j
      /\ \A i \in 1 .. Len(open) : open[i] \in Addresses
      /\ NoRing(heap.next)
  BY OpenIs DEF DocInv, Sound, Linked
<1>2. /\ n \in Nodes /\ n \in Addresses /\ n \in Unlinked /\ heap.kind[n] # "free"
      /\ p \in Addresses /\ heap.kind[p] # "free"
  BY TopLive
<1>3. n = open[k] BY DEF Top
<1>4. heap' = LinkEndChild(heap, p, n) /\ open' = q BY DEF LinkTop
<1>5. /\ k \in Nat \ {0} /\ q \in Seq(Nodes) /\ Len(q) = k - 1 /\ DOMAIN q = 1 .. k - 1
      /\ \A i \in 1 .. Len(q) : q[i] = open[i] /\ i \in 1 .. k /\ i \in DOMAIN open /\ i # k
      /\ Level(q, Len(q)) = Level(open, k - 1)
  <2>1. IsOuter(open, q) BY <1>1, OuterIn DEF Outer
  <2> HIDE DEF q
  <2> QED BY <2>1 DEF IsOuter
<1>6. p = Level(q, Len(q)) /\ k \in 1 .. k /\ k \in DOMAIN open
  <2>1. k \in 1 .. k /\ k \in DOMAIN open BY <1>1, <1>5
  <2> QED BY <1>3, <1>5, <2>1 DEF Stacked
<1> HIDE DEF n, p, q, k
<1>7. p \in Unlinked \/ p = Doc
  <2>1. Len(q) = 0 \/ Len(q) \in 1 .. Len(q) BY <1>5
  <2>2. \A i \in 1 .. Len(q) : q[i] \in Unlinked BY <1>5 DEF Unlinked
  <2> QED BY <1>6, <2>1, <2>2 DEF Level
<1>8. /\ Clean(heap')
      /\ \A m \in Addresses :
           /\ heap'.kind[m] = heap.kind[m] /\ heap'.name[m] = heap.name[m]
           /\ heap'.attrs[m] = heap.attrs[m]
           /\ heap'.parent[m] = heap.parent[m] /\ (m # p => heap'.first[m] = heap.first[m])
  BY <1>1, <1>2, <1>4, LinkClean DEF p
<1>9. \A i \in 1 .. Len(q) :
        /\ q[i] \in Addresses /\ heap.parent[q[i]] = Level(q, i - 1)
        /\ heap.kind[q[i]] = "element"
  <2> TAKE i \in 1 .. Len(q)
  <2>1. q[i] = open[i] /\ i \in 1 .. Len(open) /\ i # Len(open) BY <1>5 DEF k
  <2>2. heap.parent[q[i]] = Level(open, i - 1) /\ heap.kind[q[i]] = "element" BY <2>1 DEF Stacked
  <2>3. i - 1 = 0 \/ i - 1 \in 1 .. Len(q) BY <1>5
  <2>4. Level(open, i - 1) = Level(q, i - 1) BY <1>5, <2>3 DEF Level
  <2> QED BY <1>1, <2>1, <2>2, <2>4
<1>10. Stacked(heap', q)
  <2>1. ASSUME NEW i \in 1 .. Len(q)
        PROVE  heap'.parent[q[i]] = Level(q, i - 1) /\ heap'.kind[q[i]] = "element"
    BY <1>8, <1>9
  <2> QED BY <2>1 DEF Stacked
<1>11. heap'.kind[Top'] # "text"
  <2>1. open' = <<>> => Top' = Doc BY DEF Top
  <2>2. open' # <<>> => Top' = q[Len(q)] /\ Len(q) \in 1 .. Len(q)
    BY <1>4, <1>5 DEF Top
  <2>3. heap'.kind[Doc] = "document" BY DEF DocInv, Sound, Linked
  <2> QED BY <1>8, <1>9, <2>1, <2>2, <2>3
<1>12. PICK c : Tells(heap, c) /\ Sofar(heap, open, end, c, s) BY DEF Reads
<1>13. PICK s0 : /\ Sofar(heap, q, Shut, c, s0)
                 /\ s = s0 \o Opening(heap, n, end) \o c[heap.first[n]]
  <2>1. Inside(heap, open, end, c, s) BY <1>1, <1>12, SofarLess
  <2> QED BY <1>3, <2>1 DEF Inside, q, k, Outer
<1>14. Worded(heap) BY DEF Clean
<1>15. /\ c[n] = NodeText(heap, n, c[heap.first[n]])
       /\ \E d : Grown(heap', d, heap, c, p, c[n])
  <2>1. heap.parent[n] = p BY DEF p
  <2> QED BY <1>1, <1>2, <1>4, <1>7, <1>12, <1>14, <2>1, LinkTells
<1>16. PICK d : Grown(heap', d, heap, c, p, c[n]) BY <1>15
<1>17. Sofar(heap', q, Shut, d, s0 \o c[n])
  <2>1. \A i, j \in DOMAIN q : q[i] = q[j] => i = j BY <1>1, <1>5
  <2>2. SameOpenings(heap', heap, q)
    <3>1. \A i \in 1 .. Len(q), e \in Ends : Opening(heap', q[i], e) = Opening(heap, q[i], e)
      <4> TAKE i \in 1 .. Len(q), e \in Ends
      <4>1. /\ heap'.kind[q[i]] = heap.kind[q[i]] /\ heap'.name[q[i]] = heap.name[q[i]]
            /\ heap'.attrs[q[i]] = heap.attrs[q[i]]
        BY <1>8, <1>9
      <4> QED BY <4>1 DEF Opening
    <3> QED BY <3>1 DEF SameOpenings
  <2>3. Grown(heap', d, heap, c, Level(q, Len(q)), c[n]) BY <1>6, <1>16
  <2>4. Worded(heap') /\ c[n] \in Seq(Tokens) BY <1>2, <1>8, <1>12 DEF Clean, Tells, Pointers
  <2> QED BY <1>1, <1>5, <1>12, <1>13, <1>14, <2>1, <2>2, <2>3, <2>4, SofarGrows
<1>18. Reads(heap', open', Shut, s0 \o c[n]) BY <1>4, <1>16, <1>17 DEF Reads, Grown
<1>19. Returned(heap, n, end, s, s0 \o c[n])
  <2> DEFINE x == c[heap.first[n]]
  <2>1. x \in Seq(Tokens) BY <1>1, <1>2, <1>12, ContentIs
  <2>2. s0 \in Seq(Tokens) BY <1>5, <1>13, SofarIs
  <2>3. x = <<>> \/ EndsWell(x)
    <3>1. heap.first[n] = Null \/ heap.first[n] \in Addresses BY <1>1, <1>2 DEF LinkType, Pointers
    <3>2. c[Null] = <<>> BY <1>12 DEF Tells
    <3> QED BY <1>1, <1>12, <1>14, <3>1, <3>2, TellsEnds
  <2>4. heap.first[n] = Null => x = <<>> BY <1>12 DEF Tells
  <2> HIDE DEF x
  <2>5. s = s0 \o Opening(heap, n, end) \o x /\ s0 \o c[n] = s0 \o NodeText(heap, n, x)
    BY <1>13, <1>15 DEF x
  <2> QED BY <2>1, <2>2, <2>3, <2>4, <2>5 DEF Returned
<1> QED BY <1>4, <1>8, <1>10, <1>11, <1>18, <1>19 DEF n

-----------------------------------------------------------------------------
(* What is in the tag of the innermost element.                            *)

\* s0 is what is printed of all that is around it.
Around(end, c, s) ==
  \E s0 \in Seq(Tokens) : /\ Sofar(heap, Outer, Shut, c, s0)
                          /\ s = s0 \o Opening(heap, Top, end) \o <<>>

LEMMA InTagReads ==
  ASSUME DocInv, open # <<>>, heap.first[Top] = Null, NEW s, NEW end \in Ends,
         NEW c, Tells(heap, c), Sofar(heap, open, end, c, s)
  PROVE  Around(end, c, s)
<1>1. open \in Seq(Nodes) /\ Top = open[Len(open)] BY OpenIs DEF Top
<1>2. c[heap.first[Top]] = <<>> BY DEF Tells
<1>3. Inside(heap, open, end, c, s) BY <1>1, SofarLess
<1>4. PICK s0 : /\ Sofar(heap, Outer, Shut, c, s0)
                /\ s = s0 \o Opening(heap, Top, end) \o <<>>
  BY <1>1, <1>2, <1>3 DEF Inside, Outer
<1>5. Outer \in Seq(Nodes)
  <2>1. IsOuter(open, Outer) BY <1>1, OuterIn DEF Outer
  <2> QED BY <2>1 DEF IsOuter
<1>6. s0 \in Seq(Tokens) BY <1>4, <1>5, SofarIs
<1> QED BY <1>4, <1>6 DEF Around

\* The end of the start tag.
LEMMA ShutReads ==
  ASSUME DocInv, open # <<>>, heap.kind[Top] = "element", heap.first[Top] = Null, Clean(heap),
         NEW s, Reads(heap, open, <<>>, s)
  PROVE  Reads(heap, open, Shut, Append(s, TagClose))
<1>1. /\ open \in Seq(Nodes) /\ LinkType(heap) /\ Worded(heap) /\ <<>> \in Ends /\ Shut \in Ends
      /\ Top = open[Len(open)]
  BY OpenIs DEF Clean, Ends, Top
<1>2. PICK c : Tells(heap, c) /\ Sofar(heap, open, <<>>, c, s) BY DEF Reads
<1>3. PICK s0 \in Seq(Tokens) : /\ Sofar(heap, Outer, Shut, c, s0)
                                /\ s = s0 \o Opening(heap, Top, <<>>) \o <<>>
  <2>1. Around(<<>>, c, s) BY <1>1, <1>2, InTagReads
  <2> QED BY <2>1 DEF Around
<1>4. Outer \in Seq(Nodes) /\ Top \in Nodes /\ Append(Outer, Top) = open
  BY <1>1, OuterIs DEF Outer
<1>5. Sofar(heap, open, Shut, c, s0 \o Opening(heap, Top, Shut) \o c[heap.first[Top]])
  <2>1. Sofar(heap, Append(Outer, Top), Shut, c, s0 \o Opening(heap, Top, Shut) \o c[heap.first[Top]])
    BY <1>1, <1>2, <1>3, <1>4, SofarMore
  <2> QED BY <1>4, <2>1
<1>6. c[heap.first[Top]] = <<>> BY <1>2 DEF Tells
<1> DEFINE y == <<Token("open", heap.name[Top])>> \o AttrText(heap.attrs[Top])
           t == TagClose
<1>7. /\ Opening(heap, Top, Shut) = y \o <<t>> /\ Opening(heap, Top, <<>>) = y \o <<>>
      /\ y \o <<>> \in Seq(Tokens)
  BY <1>1, <1>4, NullIsNone, OpeningIs DEF Opening, Shut
<1>8. t \in Tokens BY TokenIs
<1>9. y \in Seq(Tokens)
  <2>1. Top \in Addresses BY <1>4, NullIsNone
  <2>2. heap.name[Top] \in Names \cup {"", "t"} /\ heap.attrs[Top] \in Seq(Attributes)
    BY <1>1, <2>1 DEF Worded, Named, AllNames, Text, Token
  <2>3. Token("open", heap.name[Top]) \in Tokens BY <2>2, TokenIs
  <2> DEFINE z == AttrText(heap.attrs[Top])
  <2>4. z \in Seq(Tokens) BY <2>2, AttrTextIs
  <2> HIDE DEF z
  <2>5. <<Token("open", heap.name[Top])>> \o z \in Seq(Tokens) BY <2>3, <2>4
  <2> QED BY <2>5 DEF z
<1> HIDE DEF y, t
<1>10. s0 \o (y \o <<t>>) \o <<>> = Append(s0 \o (y \o <<>>) \o <<>>, t) BY <1>8, <1>9
<1>11. Sofar(heap, open, Shut, c, Append(s, t)) BY <1>3, <1>5, <1>6, <1>7, <1>10
<1> QED BY <1>2, <1>11 DEF Reads, t

LEMMA AttrTextMore ==
  ASSUME NEW attrs \in Seq(Attributes), \A i \in DOMAIN attrs : HasName(attrs[i]),
         NEW attr \in Attributes, HasName(attr)
  PROVE  /\ AttrText(Append(attrs, attr)) = Append(AttrText(attrs), AttrToken(attr))
         /\ Append(attrs, attr) \in Seq(Attributes)
         /\ \A i \in DOMAIN Append(attrs, attr) : HasName(Append(attrs, attr)[i])
<1> DEFINE r == Append(attrs, attr)
           k == Len(attrs)
<1>1. /\ r \in Seq(Attributes) /\ Len(r) = k + 1 /\ DOMAIN r = 1 .. k + 1 /\ DOMAIN attrs = 1 .. k
      /\ r[k + 1] = attr /\ k \in Nat /\ \A i \in 1 .. k : r[i] = attrs[i]
  <2>1. k \in Nat /\ DOMAIN attrs = 1 .. k OBVIOUS
  <2>2. r \in Seq(Attributes) /\ Len(r) = k + 1 OBVIOUS
  <2>3. r[k + 1] = attr /\ \A i \in 1 .. k : r[i] = attrs[i] OBVIOUS
  <2> HIDE DEF r
  <2> QED BY <2>1, <2>2, <2>3
<1> HIDE DEF r, k
<1>2. \A i \in 1 .. k + 1 : i \in 1 .. k \/ i = k + 1 BY <1>1
<1>3. \A i \in DOMAIN r : HasName(r[i]) BY <1>1, <1>2
<1>4. Iterated(r) = r /\ Iterated(attrs) = attrs BY <1>1, <1>3, IteratedIs
<1> DEFINE u == [i \in 1 .. k + 1 |-> AttrToken(r[i])]
           v == [i \in 1 .. k |-> AttrToken(attrs[i])]
           t == AttrToken(attr)
<1>5. AttrText(r) = u /\ AttrText(attrs) = v BY <1>1, <1>4 DEF AttrText
<1>6. v \in Seq(Tokens) /\ t \in Tokens /\ u \in Seq(Tokens)
  BY <1>1, <1>5, AttrTextIs, TokenIs
<1>7. /\ u[k + 1] = t /\ \A i \in 1 .. k : u[i] = v[i]
      /\ DOMAIN u = 1 .. k + 1 /\ DOMAIN v = 1 .. k
  <2>1. \A i \in 1 .. k : i \in 1 .. k + 1 BY <1>1
  <2>2. k + 1 \in 1 .. k + 1 BY <1>1
  <2> QED BY <1>1, <2>1, <2>2
<1> HIDE DEF u, v, t
<1>8. Len(u) = k + 1 /\ Len(v) = k BY <1>1, <1>6, <1>7
<1>9. u = Append(v, t) BY <1>1, <1>2, <1>6, <1>7, <1>8
<1> QED BY <1>1, <1>3, <1>5, <1>9 DEF r, t

\* An attribute more.
LEMMA AttrReads ==
  ASSUME DocInv, open # <<>>, heap.kind[Top] = "element", heap.first[Top] = Null, Clean(heap),
         Stacked(heap, open), NEW attr \in Attributes, HasName(attr),
         heap' = WithAttrs(Top, Append(heap.attrs[Top], attr)), open' = open,
         NEW s, Reads(heap, open, <<>>, s)
  PROVE  /\ Clean(heap') /\ Stacked(heap', open') /\ heap'.first[Top'] = Null
         /\ heap'.kind[Top'] = "element"
         /\ Reads(heap', open', <<>>, Append(s, AttrToken(attr)))
<1> DEFINE attrs == heap.attrs[Top]
           g == heap'
<1>1. /\ open \in Seq(Nodes) /\ Sound(heap, Unlinked) /\ LinkType(heap) /\ Worded(heap)
      /\ <<>> \in Ends /\ Shut \in Ends
      /\ \A i, j \in DOMAIN open : open[i] = open[j] => i = j
      /\ \A i \in 1 .. Len(open) : open[i] \in Addresses
      /\ Top = open[Len(open)]
  BY OpenIs DEF Clean, Ends, Top
<1>2. Top \in Nodes /\ Top \in Addresses /\ Top \in Unlinked BY TopLive
<1>3. /\ attrs \in Seq(Attributes) /\ \A i \in DOMAIN attrs : HasName(attrs[i])
      /\ heap.attrs \in [Addresses -> Seq(Attributes)]
  BY <1>1, <1>2 DEF Clean, Worded
<1> DEFINE r == Append(attrs, attr)
<1>4. /\ r \in Seq(Attributes) /\ \A i \in DOMAIN r : HasName(r[i])
      /\ AttrText(r) = Append(AttrText(attrs), AttrToken(attr))
  BY <1>3, AttrTextMore
<1> HIDE DEF attrs, r
<1>5. /\ g.kind = heap.kind /\ g.name = heap.name /\ g.first = heap.first /\ g.next = heap.next
      /\ g.parent = heap.parent /\ g.attrs = [heap.attrs EXCEPT ![Top] = r]
  BY <1>1 DEF WithAttrs, LinkType, r, attrs
<1>6. Sound(g, Unlinked) BY <1>1, AttrsSound
<1>7. /\ g.attrs \in [Addresses -> Seq(Attributes)] /\ g.attrs[Top] = r
      /\ \A m \in Addresses : m # Top => g.attrs[m] = heap.attrs[m]
  BY <1>2, <1>3, <1>4, <1>5
<1> HIDE DEF g
<1>8. LinkType(g) /\ Worded(g)
  <2>1. Named(heap) BY <1>1 DEF Worded
  <2> QED BY <1>5, <1>6, <1>7, <2>1 DEF Sound, Linked, Worded, Named
<1>9. Clean(g)
  <2>1. NoRings(g) BY <1>5 DEF NoRings, Clean
  <2>2. ASSUME NEW m \in Addresses
        PROVE  /\ \A i \in DOMAIN g.attrs[m] : HasName(g.attrs[m][i])
               /\ g.kind[m] = "free" => g.attrs[m] = <<>>
    <3>1. CASE m = Top BY <1>4, <1>5, <1>7, <3>1
    <3>2. CASE m # Top
      <4>1. g.attrs[m] = heap.attrs[m] /\ g.kind[m] = heap.kind[m] BY <1>5, <1>7, <3>2
      <4> QED BY <4>1 DEF Clean
    <3> QED BY <3>1, <3>2
  <2>3. TextsSay(g) BY <1>5 DEF Clean, TextsSay
  <2> QED BY <1>8, <2>1, <2>2, <2>3 DEF Clean
<1>10. Stacked(g, open) BY <1>1, <1>5, StackedStays
<1>11. PICK c : Tells(heap, c) /\ Sofar(heap, open, <<>>, c, s) BY DEF Reads
<1>12. PICK s0 \in Seq(Tokens) : /\ Sofar(heap, Outer, Shut, c, s0)
                                 /\ s = s0 \o Opening(heap, Top, <<>>) \o <<>>
  <2>1. Around(<<>>, c, s) BY <1>1, <1>11, InTagReads
  <2> QED BY <2>1 DEF Around
<1>13. PICK d : Tells(g, d) /\ \A q \in Addresses : d[g.first[q]] = c[heap.first[q]]
  <2>1. /\ heap.next[Top] = Null
        /\ \A m \in Addresses : heap.first[m] # Top /\ heap.next[m] # Top
    BY <1>1, <1>2, NobodyLeads
  <2>2. \A m \in Addresses : m # Top =>
          g.kind[m] = heap.kind[m] /\ g.name[m] = heap.name[m] /\ g.attrs[m] = heap.attrs[m]
    BY <1>5, <1>7
  <2>3. \E d : Changed(g, d, heap, c, Top)
    BY <1>1, <1>2, <1>5, <1>8, <1>11, <2>1, <2>2, ChangeTells
  <2> QED BY <2>3 DEF Changed
<1>14. Outer \in Seq(Nodes) /\ Append(Outer, Top) = open
  BY <1>1, OuterIs DEF Outer
<1>15. Sofar(g, Outer, Shut, d, s0)
  <2>1. IsOuter(open, Outer) BY <1>1, OuterIn DEF Outer
  <2>2. \A i \in 1 .. Len(Outer) : Outer[i] \in Addresses /\ Outer[i] # Top
    <3>1. Len(open) \in DOMAIN open BY <1>1, OuterIs
    <3> QED BY <1>1, <2>1, <3>1 DEF IsOuter
  <2>3. ASSUME NEW i \in 1 .. Len(Outer), NEW e \in Ends
        PROVE  Opening(g, Outer[i], e) = Opening(heap, Outer[i], e)
    <3>1. /\ g.kind[Outer[i]] = heap.kind[Outer[i]] /\ g.name[Outer[i]] = heap.name[Outer[i]]
          /\ g.attrs[Outer[i]] = heap.attrs[Outer[i]]
      BY <1>5, <1>7, <2>2
    <3> QED BY <3>1 DEF Opening
  <2>4. SameLevels(g, d, heap, c, Outer) BY <1>13, <2>2, <2>3, NullIsNone DEF SameLevels
  <2> QED BY <1>1, <1>12, <1>14, <2>4, SofarSame
<1>16. Sofar(g, open, <<>>, d, s0 \o Opening(g, Top, <<>>) \o d[g.first[Top]])
  <2>1. Sofar(g, Append(Outer, Top), <<>>, d, s0 \o Opening(g, Top, <<>>) \o d[g.first[Top]])
    BY <1>1, <1>2, <1>8, <1>13, <1>14, <1>15, SofarMore
  <2> QED BY <1>14, <2>1
<1>17. d[g.first[Top]] = <<>> BY <1>5, <1>13 DEF Tells
<1> DEFINE y == AttrText(attrs)
           o == Token("open", heap.name[Top])
           t == AttrToken(attr)
<1>18. /\ Opening(heap, Top, <<>>) = <<o>> \o y \o <<>>
       /\ Opening(g, Top, <<>>) = <<o>> \o Append(y, t) \o <<>>
  BY <1>4, <1>5, <1>7 DEF Opening, attrs
<1>19. o \in Tokens /\ y \in Seq(Tokens) /\ t \in Tokens
  <2>1. heap.name[Top] \in Names \cup {"", "t"}
    BY <1>1, <1>2 DEF Worded, Named, AllNames, Text, Token
  <2> QED BY <1>3, <2>1, TokenIs, AttrTextIs
<1> HIDE DEF y, o, t
<1>20. s0 \o (<<o>> \o Append(y, t) \o <<>>) \o <<>> = Append(s0 \o (<<o>> \o y \o <<>>) \o <<>>, t)
  BY <1>19
<1>21. Sofar(g, open, <<>>, d, Append(s, t)) BY <1>12, <1>16, <1>17, <1>18, <1>20
<1>22. Top' = Top BY DEF Top
<1> QED BY <1>5, <1>9, <1>10, <1>13, <1>21, <1>22 DEF Reads, t, g

-----------------------------------------------------------------------------
(* A load without an error.                                                *)

End == IF inTag THEN <<>> ELSE Shut

\* A text that has nothing but blanks so far is in the document and not in the file.
Heard(s) == IF blank THEN Append(s, Text) ELSE s

\* What is printed of the document as it is so far is what a file looks like that ends
\* here; texts that are side by side in the file are one text.
Loading ==
  /\ Clean(heap) /\ Stacked(heap, open) /\ (inTag => heap.first[Top] = Null)
  /\ token \in FileTokens /\ read \in Seq(FileTokens) /\ inTag \in BOOLEAN
  /\ blank \in BOOLEAN /\ (blank => InText)
  /\ \E s \in Seq(Tokens) :
       /\ Normals(read, s) /\ Reads(heap, open, End, Heard(s))
       /\ token \in TextTokens \cup {Space} /\ (InText => blank) /\ ~lost => LastOf(s) # Text

LEMMA ReadsIs ==
  ASSUME DocInv, NEW end, NEW s, Reads(heap, open, end, s)
  PROVE  s \in Seq(Tokens)
<1>1. open \in Seq(Nodes) BY OpenIs
<1> QED BY <1>1, SofarIs DEF Reads

LEMMA AdvanceIs ==
  ASSUME mode = "load", Loading, \E tag \in BOOLEAN : Advance(tag)
  PROVE  /\ token' \in FileTokens /\ read' \in Seq(FileTokens)
         /\ \A s : Normals(read, s) => Normals(read', NormalStep(s, token))
<1>1. read' = Append(read, token) /\ \E tag \in BOOLEAN : token' \in Following(read', tag)
  BY DEF Advance
<1>2. token' \in FileTokens BY <1>1 DEF Following, FileTokens
<1>3. token \in FileTokens /\ read \in Seq(FileTokens) BY DEF Loading
<1> QED BY <1>1, <1>2, <1>3, NormalMore

LEMMA LastIs ==
  ASSUME NEW s \in Seq(Tokens)
  PROVE  /\ \A t \in Tokens : LastOf(Append(s, t)) = t
         /\ LastOf(s) = TagClose => s # <<>> /\ s[Len(s)] = TagClose
<1>1. \A t \in Tokens : LastOf(Append(s, t)) = t BY DEF LastOf
<1>2. Space # TagClose
  <2>1. Space.t = "space" /\ TagClose.t = ">" BY DEF Space, TagClose, Token
  <2> QED BY <2>1
<1> QED BY <1>1, <1>2 DEF LastOf

LEMMA KindIs ==
  /\ Space.t = "space" /\ Text.t = "text" /\ BlankText.t = "blank" /\ TagClose.t = ">" /\ TagEmpty.t = "/>" /\ Eof.t = "eof"
  /\ \A t, name : Token(t, name).t = t /\ Token(t, name).name = name
  /\ \A attr : AttrToken(attr).t = "attr" /\ AttrToken(attr).name = attr.name
BY DEF Space, Text, BlankText, TagClose, TagEmpty, Eof, Token, AttrToken

\* What a token makes of what was read before it.
LEMMA StepsAre ==
  ASSUME NEW s, NEW t
  PROVE  /\ t \in {Space, BlankText} => NormalStep(s, t) = s
         /\ t = Text => NormalStep(s, t) = IF LastOf(s) = Text THEN s ELSE Append(s, Text)
         /\ t.t \in {"open", "attr", ">", "/>", "leaf"} => NormalStep(s, t) = Append(s, t)
         /\ t.t = "cut" => NormalStep(s, t) = Append(s, Token("leaf", t.name))
         /\ t.t = "close" =>
              NormalStep(s, t) = IF LastOf(s) = TagClose
                                 THEN Append(SubSeq(s, 1, Len(s) - 1), TagEmpty) ELSE Append(s, t)
<1>1. t \in {Space, BlankText} => NormalStep(s, t) = s
  <2>1. t \in {Space, BlankText} => t.t # "close" /\ t.t # "cut" BY KindIs
  <2> QED BY <2>1 DEF NormalStep
<1>2. t = Text => NormalStep(s, t) = IF LastOf(s) = Text THEN s ELSE Append(s, Text)
  <2>1. t = Text => t # Space /\ t # BlankText /\ t.t # "close" /\ t.t # "cut" BY KindIs
  <2> QED BY <2>1 DEF NormalStep
<1>3. t.t \notin {"space", "text", "blank"} => t # Space /\ t # Text /\ t # BlankText BY KindIs
<1>4. t.t \in {"open", "attr", ">", "/>", "leaf"} => NormalStep(s, t) = Append(s, t)
  BY <1>3 DEF NormalStep
<1>5. t.t = "cut" => NormalStep(s, t) = Append(s, Token("leaf", t.name)) BY <1>3 DEF NormalStep
<1>6. t.t = "close" =>
        NormalStep(s, t) = IF LastOf(s) = TagClose
                           THEN Append(SubSeq(s, 1, Len(s) - 1), TagEmpty) ELSE Append(s, t)
  BY <1>3 DEF NormalStep
<1> QED BY <1>1, <1>2, <1>4, <1>5, <1>6

LEMMA LoadInit == Init => Loading
<1> SUFFICES ASSUME Init PROVE Loading OBVIOUS
<1>1. /\ heap = EmptyHeap /\ open = <<>> /\ inTag = FALSE /\ lost = FALSE /\ read = <<>>
      /\ blank = FALSE /\ token \in FileTokens
  BY DEF Init, FileTokens
<1>2. DocInv BY DocInit
<1>3. Sound(heap, Unlinked) /\ LinkType(heap) BY <1>2, OpenIs
<1>4. /\ \A m \in Addresses : heap.first[m] = Null /\ heap.next[m] = Null /\ heap.attrs[m] = <<>>
      /\ heap.attrs = [m \in Addresses |-> <<>>]
  BY <1>1 DEF EmptyHeap
<1>5. Worded(heap)
  <2>1. heap.attrs \in [Addresses -> Seq(Attributes)] BY <1>4
  <2>2. Named(heap) BY ForestInit
  <2> QED BY <2>1, <2>2 DEF Worded
<1>6. Clean(heap)
  <2>1. NoRings(heap) BY <1>4, NullIsNone DEF NoRings
  <2>2. TextsSay(heap) BY <1>1 DEF TextsSay, EmptyHeap
  <2> QED BY <1>4, <1>5, <2>1, <2>2 DEF Clean
<1>7. Stacked(heap, open)
  <2>1. 1 .. Len(open) = {} BY <1>1
  <2> QED BY <2>1 DEF Stacked
<1> DEFINE c == [m \in Pointers |-> IF m = Null THEN <<>> ELSE NodeText(heap, m, <<>>)]
<1>8. Tells(heap, c)
  <2> DEFINE x == <<>>
  <2>0. x \in Seq(Tokens) OBVIOUS
  <2>1. \A m \in Addresses : NodeText(heap, m, x) \in Seq(Tokens)
    <3> HIDE DEF x
    <3> QED BY <1>3, <1>5, <2>0, NodeTextIs
  <2>2. \A m \in Addresses : m \in Pointers /\ m # Null BY NullIsNone DEF Pointers
  <2>3. \A m \in Pointers : m = Null \/ m \in Addresses BY DEF Pointers
  <2>4. Null \in Pointers BY DEF Pointers
  <2>5. c[Null] = <<>> /\ \A m \in Addresses : c[m] = NodeText(heap, m, <<>>) BY <2>2, <2>4
  <2>6. c \in [Pointers -> Seq(Tokens)]
    <3>1. \A m \in Pointers : c[m] \in Seq(Tokens) BY <2>1, <2>3, <2>5
    <3> QED BY <3>1
  <2> HIDE DEF c
  <2>7. ASSUME NEW m \in Addresses
        PROVE  c[m] = NodeText(heap, m, c[heap.first[m]]) \o c[heap.next[m]]
    <3>1. c[heap.first[m]] = <<>> /\ c[heap.next[m]] = <<>> BY <1>4, <2>5
    <3> DEFINE y == NodeText(heap, m, <<>>)
    <3>2. y \in Seq(Tokens) BY <2>1
    <3> HIDE DEF y
    <3>3. y \o <<>> = y BY <3>2
    <3> QED BY <2>5, <3>1, <3>3 DEF y
  <2> QED BY <2>5, <2>6, <2>7 DEF Tells
<1>9. Reads(heap, open, End, <<>>)
  <2>1. Sofar(heap, <<>>, End, c, c[heap.first[Doc]]) BY <1>3, <1>8, SofarNone
  <2>2. c[heap.first[Doc]] = <<>> BY <1>4, <1>8, NullIsNone DEF Tells
  <2> QED BY <1>1, <1>8, <2>1, <2>2 DEF Reads
<1>10. LastOf(<<>>) # Text
  <2>1. Space # Text BY KindIs
  <2> QED BY <2>1 DEF LastOf
<1>11. Normals(read, <<>>) /\ read \in Seq(FileTokens) BY <1>1, NormalNone
<1>12. Heard(<<>>) = <<>> BY <1>1 DEF Heard
<1> DEFINE s == <<>>
<1>13. s \in Seq(Tokens) OBVIOUS
<1>14. Normals(read, s) /\ Reads(heap, open, End, Heard(s)) /\ LastOf(s) # Text
  BY <1>9, <1>10, <1>11, <1>12
<1> HIDE DEF s
<1> QED BY <1>1, <1>6, <1>7, <1>11, <1>13, <1>14 DEF Loading

\* One token more.
LEMMA LoadMore ==
  ASSUME DocInv', mode = "load", Loading, \E tag \in BOOLEAN : Advance(tag),
         NEW s, Normals(read, s), NEW r, NormalStep(s, token) = r,
         Clean(heap'), Stacked(heap', open'), inTag' \in BOOLEAN, blank' = FALSE,
         inTag' => heap'.first[Top'] = Null, Reads(heap', open', End', r),
         token' \in TextTokens \cup {Space} /\ ~InText' /\ ~lost' => LastOf(r) # Text
  PROVE  Loading'
<1>1. token' \in FileTokens /\ read' \in Seq(FileTokens) /\ Normals(read', r) BY AdvanceIs
<1>2. Heard(r)' = r BY DEF Heard
<1>3. Reads(heap', open', End', Heard(r)') BY <1>2
<1>4. r \in Seq(Tokens)
  <2>1. open' \in Seq(Nodes) BY DEF DocInv, StackInv
  <2> QED BY <2>1, SofarIs DEF Reads
<1> QED BY <1>1, <1>3, <1>4 DEF Loading

\* What a load is doing outside texts.
LEMMA LoadingIs ==
  ASSUME DocInv, Loading, ~InText
  PROVE  \E s \in Seq(Tokens) :
           /\ Normals(read, s) /\ Reads(heap, open, End, s)
           /\ token \in TextTokens \cup {Space} /\ ~lost => LastOf(s) # Text
<1>1. PICK s \in Seq(Tokens) :
         /\ Normals(read, s) /\ Reads(heap, open, End, Heard(s))
         /\ token \in TextTokens \cup {Space} /\ ~lost => LastOf(s) # Text
  BY DEF Loading
<1>2. Heard(s) = s BY DEF Heard, Loading
<1> QED BY <1>1, <1>2

\* The innermost text is the last of what is printed, and before it is what there was.
LEMMA TextIsLast ==
  ASSUME DocInv, Loading, InText, NEW r, Reads(heap, open, End, r)
  PROVE  \E s \in Seq(Tokens) : r = Append(s, Text)
<1>1. ~inTag /\ open # <<>> /\ heap.kind[Top] = "text"
  BY TopLive DEF DocInv, ModeInv, InText
<1>2. heap.first[Top] = Null
  <2>1. open \in Seq(Nodes) /\ Len(open) \in 1 .. Len(open) /\ Top = open[Len(open)]
    BY <1>1, OpenIs DEF Top
  <2> QED BY <1>1, <2>1 DEF Loading, Stacked
<1>3. PICK c : Tells(heap, c) /\ Sofar(heap, open, Shut, c, r) BY <1>1 DEF Reads, End
<1>4. Around(Shut, c, r) BY <1>1, <1>2, <1>3, InTagReads DEF Ends
<1>5. Opening(heap, Top, Shut) = <<Text>> BY <1>1 DEF Opening
<1>6. PICK s0 \in Seq(Tokens) : r = s0 \o <<Text>> \o <<>> BY <1>4, <1>5 DEF Around
<1> DEFINE t == Text
<1>7. t \in Tokens BY TokenIs
<1> HIDE DEF t
<1>8. s0 \o <<t>> \o <<>> = Append(s0, t) BY <1>7
<1> QED BY <1>6, <1>8 DEF t

\* Only the place in the file moves.
LEMMA LoadSkip ==
  ASSUME DocInv, Loading, mode = "load", error' = "none",
         SkipWhiteSpace \/ (MoreText /\ blank' = blank)
  PROVE  Loading'
<1>1. /\ UNCHANGED <<heap, open, inTag, blank, lost>> /\ ~lost
      /\ \E tag \in BOOLEAN : Advance(tag)
      /\ token \in TextTokens \cup {Space} /\ (token = Text => InText /\ ~blank)
  <2>1. CASE SkipWhiteSpace
    <3>1. inTag \in BOOLEAN /\ Advance(inTag) BY <2>1 DEF SkipWhiteSpace, Loading
    <3>2. \E tag \in BOOLEAN : Advance(tag) BY <3>1, Zenon
    <3>3. token = Space /\ Space # Text BY <2>1, KindIs DEF SkipWhiteSpace
    <3> QED BY <2>1, <3>2, <3>3 DEF SkipWhiteSpace, Parsing, NoError
  <2>2. CASE MoreText /\ blank' = blank
    <3>1. /\ token \in TextTokens /\ InText /\ Advance(FALSE) /\ ~lost
          /\ UNCHANGED <<heap, open, inTag, lost>> /\ blank' = (blank /\ token = BlankText)
      BY <2>2 DEF MoreText, Parsing, NoError
    <3>2. token = Text => ~blank
      <4>1. Text # BlankText BY KindIs
      <4>2. blank \in BOOLEAN BY DEF Loading
      <4>3. CASE blank = TRUE
        <5>1. token = BlankText BY <2>2, <3>1, <4>3
        <5> QED BY <4>1, <5>1
      <4>4. CASE blank = FALSE BY <4>4
      <4> QED BY <4>2, <4>3, <4>4
    <3> QED BY <2>2, <3>1, <3>2
  <2> QED BY <2>1, <2>2
<1>2. PICK s \in Seq(Tokens) :
         /\ Normals(read, s) /\ Reads(heap, open, End, Heard(s))
         /\ token \in TextTokens \cup {Space} /\ (InText => blank) /\ ~lost => LastOf(s) # Text
  BY DEF Loading
<1>3. NormalStep(s, token) = s
  <2>1. CASE token \in {Space, BlankText} BY <2>1, StepsAre
  <2>2. CASE token = Text
    <3>1. Heard(s) = s BY <1>1, <2>2 DEF Heard
    <3>2. PICK s0 \in Seq(Tokens) : s = Append(s0, Text) BY <1>1, <1>2, <2>2, <3>1, TextIsLast
    <3>3. LastOf(s) = Text BY <3>2, TokenIs, LastIs DEF LastOf
    <3> QED BY <2>2, <3>3, StepsAre
  <2> QED BY <1>1, <2>1, <2>2 DEF TextTokens
<1>4. token' \in FileTokens /\ read' \in Seq(FileTokens) /\ Normals(read', s)
  BY <1>1, <1>2, <1>3, AdvanceIs
<1>5. (InText => blank) => LastOf(s) # Text BY <1>1, <1>2
<1>6. /\ Clean(heap') /\ Stacked(heap', open') /\ (inTag' => heap'.first[Top'] = Null)
      /\ inTag' \in BOOLEAN /\ (InText' <=> InText) /\ blank' \in BOOLEAN /\ (blank' => InText')
  BY <1>1 DEF Loading, Top, InText
<1>7. Heard(s)' = Heard(s) /\ End' = End BY <1>1 DEF Heard, End
<1>8. Reads(heap', open', End', Heard(s)') BY <1>1, <1>2, <1>7
<1> QED BY <1>1, <1>4, <1>5, <1>6, <1>8 DEF Loading

\* A text that had nothing but blanks goes on.
LEMMA LoadMoreText ==
  ASSUME DocInv, DocInv', Loading, mode = "load", MoreText, blank' # blank
  PROVE  Loading'
<1>1. /\ token \in TextTokens /\ InText /\ Advance(FALSE) /\ ~lost
      /\ UNCHANGED <<heap, open, inTag>> /\ blank' = (blank /\ token = BlankText)
      /\ blank \in BOOLEAN
  BY DEF MoreText, Parsing, NoError, Loading
<1>2. blank /\ blank' = FALSE /\ token # BlankText
  <2>1. CASE blank = FALSE BY <1>1, <2>1
  <2>2. CASE blank = TRUE BY <1>1, <2>2
  <2> QED BY <1>1, <2>1, <2>2
<1>3. token = Text BY <1>1, <1>2 DEF TextTokens
<1>4. PICK s \in Seq(Tokens) :
         Normals(read, s) /\ Reads(heap, open, End, Heard(s)) /\ LastOf(s) # Text
  BY <1>1, <1>2 DEF Loading
<1> DEFINE r == Append(s, Text)
<1>5. NormalStep(s, token) = r BY <1>3, <1>4, StepsAre
<1>6. Heard(s) = r BY <1>2 DEF Heard
<1>7. /\ Clean(heap') /\ Stacked(heap', open') /\ (inTag' => heap'.first[Top'] = Null)
      /\ inTag' \in BOOLEAN /\ InText'
  BY <1>1 DEF Loading, Top, InText
<1>8. Reads(heap', open', End', r) BY <1>1, <1>4, <1>6 DEF End
<1>9. \E tag \in BOOLEAN : Advance(tag) BY <1>1
<1> HIDE DEF r
<1> QED BY <1>2, <1>4, <1>5, <1>7, <1>8, <1>9, LoadMore

LEMMA OpenEnd ==
  /\ StartTags = {Token("open", name) : name \in Names}
  /\ \A t \in StartTags : t = Token("open", t.name) /\ t.t = "open" /\ t.name \in Names
  /\ \A t \in EndTags : t = Token("close", t.name) /\ t.t = "close" /\ t.name \in Names
  /\ \A t \in Leaves : t = Token("leaf", t.name) /\ t.t = "leaf" /\ t.name \in LeafKinds
  /\ \A t \in Cuts : t = Token("cut", t.name) /\ t.t = "cut" /\ t.name \in LeafKinds
<1>1. \A t, name : Token(t, name).t = t /\ Token(t, name).name = name BY KindIs
<1> QED BY <1>1 DEF StartTags, EndTags, Leaves, Cuts

LEMMA LoadStart ==
  ASSUME DocInv, DocInv', Loading, mode = "load", error' = "none",
         NEW n \in FreeNodes(heap), StartElement(n)
  PROVE  Loading'
<1>1. /\ ~inTag /\ heap.kind[Top] # "text" /\ token \in StartTags
      /\ heap' = New(heap, n, "element", token.name, Top)
      /\ open' = Append(open, n) /\ inTag' = TRUE /\ Advance(TRUE) /\ ~lost
      /\ ~InText /\ blank' = blank
  BY DEF StartElement, Between, Parsing, InText
<1>2. ~lost'
  <2>1. token' # Eof BY DEF StartElement, Fail, SetError
  <2> QED BY <1>1, <2>1 DEF StartElement, NoError
<1> DEFINE name == token.name
<1>3. token = Token("open", name) /\ token.t = "open" /\ name \in Names /\ name \in AllNames
  BY <1>1, OpenEnd DEF AllNames
<1>4. PICK s \in Seq(Tokens) : Normals(read, s) /\ Reads(heap, open, Shut, s)
  BY <1>1, LoadingIs DEF End
<1> DEFINE r == Append(s, token)
<1>5. NormalStep(s, token) = r BY <1>3, StepsAre
<1>6. Clean(heap) /\ Stacked(heap, open) BY DEF Loading
<1> DEFINE kind == "element"
<1>7. kind \in {"element", "text"} /\ kind # "text" /\ kind = "element" OBVIOUS
<1>8. heap' = New(heap, n, kind, name, Top) BY <1>1
<1> HIDE DEF name, kind
<1>9. /\ Clean(heap') /\ Stacked(heap', open')
      /\ Top' = n /\ heap'.kind[n] = kind /\ heap'.first[n] = Null
      /\ Reads(heap', open', <<>>, Append(s, Token("open", name)))
  BY <1>1, <1>3, <1>4, <1>6, <1>7, <1>8, PushReads
<1>10. Reads(heap', open', End', r) BY <1>1, <1>3, <1>9 DEF End
<1>11. LastOf(r) # Text
  <2>1. token \in Tokens BY <1>3, TokenIs
  <2> QED BY <1>3, <2>1, LastIs, KindIs
<1> HIDE DEF r
<1>12. \E tag \in BOOLEAN : Advance(tag) BY <1>1
<1>13. inTag' \in BOOLEAN /\ blank' = FALSE BY <1>1 DEF Loading
<1> QED BY <1>4, <1>5, <1>9, <1>10, <1>11, <1>12, <1>13, LoadMore

LEMMA LoadText ==
  ASSUME DocInv, DocInv', Loading, mode = "load", error' = "none",
         NEW n \in FreeNodes(heap), StartText(n)
  PROVE  Loading'
<1> DEFINE name == Text.name
           kind == "text"
<1>1. /\ ~inTag /\ heap.kind[Top] # "text" /\ token \in TextTokens /\ open # <<>>
      /\ heap' = New(heap, n, kind, name, Top) /\ blank' = (token = BlankText)
      /\ open' = Append(open, n) /\ inTag' = inTag /\ Advance(FALSE) /\ ~lost
      /\ ~InText
  BY DEF StartText, Between, Parsing, InText
<1>2. name \in AllNames BY DEF AllNames
<1>3. PICK s \in Seq(Tokens) : Normals(read, s) /\ Reads(heap, open, Shut, s) /\ LastOf(s) # Text
  BY <1>1, LoadingIs DEF End
<1> DEFINE r == Append(s, Text)
<1>5. Clean(heap) /\ Stacked(heap, open) BY DEF Loading
<1>6. kind \in {"element", "text"} /\ kind = "text" /\ name = Text.name OBVIOUS
<1> HIDE DEF name, kind
<1>7. /\ Clean(heap') /\ Stacked(heap', open')
      /\ Top' = n /\ heap'.kind[n] = kind /\ heap'.first[n] = Null
      /\ Reads(heap', open', Shut, Append(s, Text))
  BY <1>1, <1>2, <1>3, <1>5, <1>6, PushReads
<1>8. Reads(heap', open', End', r) BY <1>1, <1>7 DEF End
<1>9. InText' BY <1>6, <1>7 DEF InText
<1>10. \E tag \in BOOLEAN : Advance(tag) BY <1>1
<1>11. inTag' \in BOOLEAN /\ ~inTag' BY <1>1 DEF Loading
<1>12. CASE token = Text
  <2>1. NormalStep(s, token) = r BY <1>3, <1>12, StepsAre
  <2>2. token # BlankText BY <1>12, KindIs
  <2>3. blank' = FALSE BY <1>1, <2>2
  <2> HIDE DEF r
  <2> QED BY <1>3, <1>7, <1>8, <1>9, <1>10, <1>11, <2>1, <2>3, LoadMore
<1>13. CASE token = BlankText
  <2>1. NormalStep(s, token) = s BY <1>13, StepsAre
  <2>2. blank' = TRUE BY <1>1, <1>13
  <2>3. token' \in FileTokens /\ read' \in Seq(FileTokens) /\ Normals(read', s)
    BY <1>3, <1>10, <2>1, AdvanceIs
  <2>4. Heard(s)' = r BY <2>2 DEF Heard
  <2> HIDE DEF r
  <2>5. Reads(heap', open', End', Heard(s)') BY <1>8, <2>4
  <2> QED BY <1>3, <1>7, <1>9, <1>11, <2>2, <2>3, <2>5 DEF Loading
<1> QED BY <1>1, <1>12, <1>13 DEF TextTokens

LEMMA LoadAttribute ==
  ASSUME DocInv, DocInv', Loading, mode = "load", error' = "none", Attribute
  PROVE  Loading'
<1> DEFINE attr == [name |-> token.name, value |-> token.value]
<1>1. /\ inTag /\ token.t = "attr" /\ HasName(attr) /\ Advance(TRUE) /\ ~lost
      /\ open' = open /\ inTag' = inTag /\ blank' = blank /\ ~InText
  BY DEF Attribute, Parsing, HasName, DocInv, ModeInv, InText
<1>2. heap' = WithAttrs(Top, Append(heap.attrs[Top], attr)) /\ ~lost'
  <2>1. ~(token' = Eof \/ token.name \in NameOf(heap.attrs[Top])) BY DEF Attribute, Fail, SetError
  <2> QED BY <1>1, <2>1 DEF Attribute, NoError
<1>3. attr \in Attributes /\ token = AttrToken(attr)
  <2>1. token \in FileTokens BY DEF Loading
  <2> DEFINE Attrs == {AttrToken([name |-> name, value |-> "v"]) : name \in AttrNames}
  <2>0. token \in Attrs
    <3>1. token \in Markup \cup Attrs \cup {TagClose, TagEmpty, Space, Text, BlankText, Eof}
      BY <2>1 DEF FileTokens, Markup, TagTokens, TextTokens
    <3>2. \A t \in Markup : t.t # "attr" BY OpenEnd DEF Markup
    <3> HIDE DEF Attrs
    <3> QED BY <1>1, <3>1, <3>2, KindIs
  <2>2. PICK name \in AttrNames : token = AttrToken([name |-> name, value |-> "v"]) BY <2>0
  <2> DEFINE z == [name |-> name, value |-> "v"]
  <2>3. z \in Attributes /\ z.name = name /\ z.value = "v" BY DEF Attributes, Values
  <2>4. token.name = name /\ token.value = "v" BY <2>2 DEF AttrToken
  <2>5. attr = z BY <2>4
  <2> QED BY <2>2, <2>3, <2>5
<1> HIDE DEF attr
<1>4. PICK s \in Seq(Tokens) : Normals(read, s) /\ Reads(heap, open, <<>>, s)
  BY <1>1, LoadingIs DEF End
<1> DEFINE r == Append(s, token)
<1>5. NormalStep(s, token) = r BY <1>1, StepsAre
<1>6. /\ Clean(heap) /\ Stacked(heap, open) /\ open # <<>> /\ heap.kind[Top] = "element"
      /\ heap.first[Top] = Null
  BY <1>1 DEF Loading, DocInv, ModeInv
<1>7. /\ Clean(heap') /\ Stacked(heap', open') /\ heap'.first[Top'] = Null
      /\ Reads(heap', open', <<>>, Append(s, AttrToken(attr)))
  BY <1>1, <1>2, <1>3, <1>4, <1>6, AttrReads
<1>8. Reads(heap', open', End', r) BY <1>1, <1>3, <1>7 DEF End
<1>9. LastOf(r) # Text
  <2>1. token \in Tokens BY <1>3, TokenIs
  <2> QED BY <1>1, <2>1, LastIs, KindIs
<1> HIDE DEF r
<1>10. \E tag \in BOOLEAN : Advance(tag) BY <1>1
<1>11. inTag' \in BOOLEAN /\ blank' = FALSE BY <1>1 DEF Loading
<1> QED BY <1>4, <1>5, <1>7, <1>8, <1>9, <1>10, <1>11, LoadMore

LEMMA LoadShut ==
  ASSUME DocInv, DocInv', Loading, mode = "load", EndOfStartTag
  PROVE  Loading'
<1>1. /\ inTag /\ token = TagClose /\ Advance(FALSE) /\ ~lost
      /\ open' = open /\ inTag' = FALSE /\ heap' = heap /\ blank' = blank /\ ~InText
  BY DEF EndOfStartTag, Parsing, DocInv, ModeInv, InText
<1>2. PICK s \in Seq(Tokens) : Normals(read, s) /\ Reads(heap, open, <<>>, s)
  BY <1>1, LoadingIs DEF End
<1> DEFINE r == Append(s, token)
<1>3. token.t = ">" BY <1>1, KindIs
<1>4. NormalStep(s, token) = r BY <1>3, StepsAre
<1>5. /\ Clean(heap) /\ Stacked(heap, open) /\ open # <<>> /\ heap.kind[Top] = "element"
      /\ heap.first[Top] = Null
  BY <1>1 DEF Loading, DocInv, ModeInv
<1>6. Reads(heap, open, Shut, r) BY <1>1, <1>2, <1>5, ShutReads
<1>7. Reads(heap', open', End', r) BY <1>1, <1>6 DEF End
<1>8. LastOf(r) # Text
  <2>1. token \in Tokens BY <1>1, TokenIs
  <2> QED BY <1>3, <2>1, LastIs, KindIs
<1> HIDE DEF r
<1>9. \E tag \in BOOLEAN : Advance(tag) BY <1>1
<1>10. /\ inTag' \in BOOLEAN /\ ~inTag' /\ blank' = FALSE
       /\ Clean(heap') /\ Stacked(heap', open')
  BY <1>1, <1>5 DEF Loading
<1> QED BY <1>2, <1>4, <1>7, <1>8, <1>9, <1>10, LoadMore

LEMMA LeafTokenIs ==
  /\ \A kind : LeafToken(kind, "") = Token("leaf", kind)
  /\ \A name \in Names : LeafToken("unknown", name) = Token("close", name)
<1>1. \A kind : LeafToken(kind, "") = Token("leaf", kind) BY Zenon DEF LeafToken
<1>2. \A name \in Names : name # "" BY DocumentAssumption
<1>3. \A name \in Names : LeafToken("unknown", name) = Token("close", name) BY <1>2, Zenon DEF LeafToken
<1> QED BY <1>1, <1>3

\* What a leaf in the file becomes.
LEMMA LeafIs ==
  /\ token \in Leaves \cup Cuts => LeafToken(LeafKind, LeafName) = Token("leaf", token.name)
  /\ token \in EndTags => LeafToken(LeafKind, LeafName) = token
  /\ token \in Leaves \cup Cuts \cup EndTags =>
       LeafKind \in Kinds \ {"free", "element", "text"} /\ LeafName \in AllNames
<1>1. ASSUME token \in Leaves \cup Cuts
      PROVE  /\ LeafToken(LeafKind, LeafName) = Token("leaf", token.name)
             /\ LeafKind \in Kinds \ {"free", "element", "text"} /\ LeafName \in AllNames
  <2>1. token.t # "close" /\ token.name \in LeafKinds BY <1>1, OpenEnd
  <2>2. LeafKind = token.name BY <2>1 DEF LeafKind
  <2>3. LeafName = "" BY <2>1 DEF LeafName
  <2>4. LeafToken(LeafKind, LeafName) = Token("leaf", token.name) BY <2>2, <2>3, LeafTokenIs, Zenon
  <2>5. token.name \in Kinds \ {"free", "element", "text"}
    BY <2>1, DocumentAssumption DEF Kinds
  <2>6. LeafName \in AllNames BY <2>3 DEF AllNames
  <2> QED BY <2>2, <2>4, <2>5, <2>6, Zenon
<1>2. ASSUME token \in EndTags
      PROVE  /\ LeafToken(LeafKind, LeafName) = token
             /\ LeafKind \in Kinds \ {"free", "element", "text"} /\ LeafName \in AllNames
  <2>1. token.t = "close" /\ token.name \in Names /\ token = Token("close", token.name)
    BY <1>2, OpenEnd
  <2>2. LeafKind = "unknown" BY <2>1 DEF LeafKind
  <2>3. LeafName = token.name BY <2>1 DEF LeafName
  <2>4. LeafToken(LeafKind, LeafName) = token BY <2>1, <2>2, <2>3, LeafTokenIs, Zenon
  <2>5. LeafKind \in Kinds \ {"free", "element", "text"} BY <2>2 DEF Kinds
  <2>6. LeafName \in AllNames BY <2>1, <2>3 DEF AllNames
  <2> QED BY <2>4, <2>5, <2>6
<1> QED BY <1>1, <1>2, Zenon

LEMMA LoadLeaf ==
  ASSUME DocInv, DocInv', Loading, mode = "load", NEW n \in FreeNodes(heap), Leaf(n)
  PROVE  Loading'
<1> DEFINE kind == LeafKind
           name == LeafName
           x == LeafToken(kind, name)
<1>1. /\ ~inTag /\ heap.kind[Top] # "text" /\ (token \in Leaves \/ (token \in EndTags /\ open = <<>>))
      /\ heap' = LinkEndChild(New(heap, n, kind, name, Top), Top, n)
      /\ open' = open /\ inTag' = inTag /\ Advance(FALSE) /\ blank' = blank /\ ~InText
  BY DEF Leaf, Between, Parsing, InText
<1>2. /\ x = token /\ kind \in Kinds \ {"free", "element", "text"} /\ name \in AllNames
      /\ token \in Tokens /\ token.t \in {"leaf", "close"}
  <2>1. x = token /\ kind \in Kinds \ {"free", "element", "text"} /\ name \in AllNames
    BY <1>1, LeafIs, OpenEnd
  <2>2. token.t = "leaf" \/ token.t = "close" BY <1>1, OpenEnd
  <2>3. token \in Tokens
    <3>1. CASE token \in Leaves
      <4>1. token = Token("leaf", token.name) /\ token.name \in Kinds
        BY <3>1, OpenEnd, DocumentAssumption DEF Kinds
      <4> QED BY <4>1, TokenIs
    <3>2. CASE token \in EndTags
      <4>1. token = Token("close", token.name) /\ token.name \in Names BY <3>2, OpenEnd
      <4> QED BY <4>1, TokenIs
    <3> QED BY <1>1, <3>1, <3>2
  <2> QED BY <2>1, <2>2, <2>3
<1>3. PICK s \in Seq(Tokens) : Normals(read, s) /\ Reads(heap, open, Shut, s)
  BY <1>1, LoadingIs DEF End
<1> DEFINE r == Append(s, token)
<1>4. NormalStep(s, token) = r
  <2>1. CASE token.t = "leaf" BY <2>1, StepsAre
  <2>2. CASE token.t = "close"
    <3>1. open = <<>> BY <1>1, <2>2, OpenEnd
    <3>2. LastOf(s) # TagClose
      <4>1. PICK c : Tells(heap, c) /\ Sofar(heap, open, Shut, c, s) BY <1>3 DEF Reads
      <4>2. s = c[heap.first[Doc]]
        <5>1. open \in Seq(Nodes) BY OpenIs
        <5>2. open = <<>> => s = c[heap.first[Doc]] BY <4>1, <5>1, SofarIs
        <5> QED BY <3>1, <5>2
      <4>3. LinkType(heap) /\ Worded(heap) /\ NoRing(heap.next)
        BY OpenIs DEF Loading, Clean, DocInv, Sound
      <4>4. \A m \in Addresses : EndsWell(c[m]) BY <4>1, <4>3, TellsEnds
      <4>5. heap.first[Doc] = Null \/ heap.first[Doc] \in Addresses
        BY <4>3, NullIsNone DEF LinkType, Pointers
      <4>6. s = <<>> \/ EndsWell(s) BY <4>1, <4>2, <4>4, <4>5 DEF Tells
      <4>7. s # <<>> => s[Len(s)] # TagClose BY <4>6 DEF EndsWell
      <4> QED BY <4>7, LastIs
    <3> QED BY <2>2, <3>2, StepsAre
  <2> QED BY <1>2, <2>1, <2>2
<1>5. Clean(heap) /\ Stacked(heap, open) BY DEF Loading
<1> HIDE DEF kind, name
<1>6. /\ Clean(heap') /\ Stacked(heap', open')
      /\ Reads(heap', open', Shut, Append(s, x))
  BY <1>1, <1>2, <1>3, <1>5, LeafReads
<1>7. Reads(heap', open', End', r) BY <1>1, <1>2, <1>6 DEF End
<1>8. LastOf(r) # Text BY <1>2, LastIs, KindIs
<1> HIDE DEF r
<1>9. \E tag \in BOOLEAN : Advance(tag) BY <1>1
<1>10. inTag' \in BOOLEAN /\ ~inTag' /\ blank' = FALSE BY <1>1 DEF Loading
<1> QED BY <1>3, <1>4, <1>6, <1>7, <1>8, <1>9, <1>10, LoadMore

LEMMA LoadCut ==
  ASSUME DocInv, DocInv', Loading, mode = "load", NEW n \in FreeNodes(heap), CutLeaf(n)
  PROVE  Loading'
<1> DEFINE kind == LeafKind
           name == LeafName
           x == LeafToken(kind, name)
<1>1. /\ ~inTag /\ heap.kind[Top] # "text" /\ token \in Cuts
      /\ heap' = LinkEndChild(New(heap, n, kind, name, Top), Top, n)
      /\ open' = open /\ inTag' = inTag /\ read' = Append(read, token)
      /\ (token' = Eof \/ (token' = token /\ lost' = TRUE)) /\ blank' = blank /\ ~InText
  BY DEF CutLeaf, Between, Parsing, InText
<1>2. /\ x = Token("leaf", token.name)
      /\ kind \in Kinds \ {"free", "element", "text"} /\ name \in AllNames
      /\ token.t = "cut"
  BY <1>1, LeafIs, OpenEnd
<1>3. PICK s \in Seq(Tokens) : Normals(read, s) /\ Reads(heap, open, Shut, s)
  BY <1>1, LoadingIs DEF End
<1> DEFINE r == Append(s, x)
<1>4. NormalStep(s, token) = r BY <1>2, StepsAre
<1>5. Clean(heap) /\ Stacked(heap, open) /\ token \in FileTokens /\ read \in Seq(FileTokens)
  BY DEF Loading
<1> HIDE DEF kind, name
<1>6. /\ Clean(heap') /\ Stacked(heap', open') /\ Reads(heap', open', Shut, r)
  BY <1>1, <1>2, <1>3, <1>5, LeafReads
<1> HIDE DEF r
<1>7. Reads(heap', open', End', r) BY <1>1, <1>6 DEF End
<1>8. Normals(read', r) /\ read' \in Seq(FileTokens) BY <1>1, <1>3, <1>4, <1>5, NormalMore
<1>9. token' \in FileTokens BY <1>1, <1>5 DEF FileTokens
<1>10. token' \in TextTokens \cup {Space} /\ ~lost' => FALSE
  <2>1. Eof # Space /\ Eof # Text /\ Eof # BlankText BY KindIs
  <2> QED BY <1>1, <2>1 DEF TextTokens
<1>11. inTag' \in BOOLEAN /\ ~inTag' /\ blank' = FALSE BY <1>1 DEF Loading
<1>12. PICK u : u = r OBVIOUS
<1>13. Heard(u)' = u BY <1>11 DEF Heard
<1>14. Reads(heap', open', End', Heard(u)') /\ Normals(read', u) BY <1>7, <1>8, <1>12, <1>13
<1>15. u \in Seq(Tokens)
  <2>1. open' \in Seq(Nodes) BY DEF DocInv, StackInv
  <2> QED BY <1>6, <1>12, <2>1, SofarIs DEF Reads
<1> QED BY <1>6, <1>8, <1>9, <1>10, <1>11, <1>14, <1>15 DEF Loading

\* The Parse of a node returns.
LEMMA LoadReturns ==
  ASSUME DocInv, DocInv', Loading, open # <<>>, LinkTop,
         NEW s, Reads(heap, open, End, s)
  PROVE  /\ Clean(heap') /\ Stacked(heap', open') /\ ~InText'
         /\ \E t : Returned(heap, Top, End, s, t) /\ Reads(heap', open', Shut, t)
<1>1. Clean(heap) /\ Stacked(heap, open) BY DEF Loading
<1> DEFINE end == End
<1>2. end \in Ends BY DEF End, Ends
<1>3. Reads(heap, open, end, s) OBVIOUS
<1> HIDE DEF end
<1>4. /\ Clean(heap') /\ Stacked(heap', open') /\ heap'.kind[Top'] # "text"
      /\ \E t : Returned(heap, Top, end, s, t) /\ Reads(heap', open', Shut, t)
  BY <1>1, <1>2, <1>3, LinkTopReads
<1> QED BY <1>4 DEF InText, end

\* The text of an element that is not a tag, when it is made of that tag.
ElementText(h, n, x, s0, y) ==
  /\ y \in Seq(Tokens) /\ s0 \o y \in Seq(Tokens)
  /\ s0 \o Opening(h, n, <<>>) \o <<>> = s0 \o y
  /\ s0 \o Opening(h, n, Shut) \o x = s0 \o y \o <<TagClose>> \o x
  /\ s0 \o NodeText(h, n, x) =
       IF x = <<>> THEN Append(s0 \o y, TagEmpty)
       ELSE Append(s0 \o y \o <<TagClose>> \o x, Token("close", h.name[n]))

LEMMA ElementIs ==
  ASSUME NEW h, LinkType(h), Worded(h), NEW n \in Addresses, h.kind[n] = "element",
         NEW x \in Seq(Tokens), NEW s0 \in Seq(Tokens)
  PROVE  \E y : ElementText(h, n, x, s0, y)
<1> DEFINE o == Token("open", h.name[n])
           a == AttrText(h.attrs[n])
           z == Token("close", h.name[n])
           e == TagEmpty
           g == TagClose
           y == <<o>> \o a
<1>1. h.name[n] \in Names \cup {"", "t"} /\ h.attrs[n] \in Seq(Attributes)
  BY DEF Worded, Named, AllNames, Text, Token
<1>2. a \in Seq(Tokens) BY <1>1, AttrTextIs
<1>3. o \in Tokens /\ z \in Tokens /\ e \in Tokens /\ g \in Tokens BY <1>1, TokenIs
<1>4. /\ Opening(h, n, <<>>) = <<o>> \o a \o <<>>
      /\ Opening(h, n, Shut) = <<o>> \o a \o <<g>>
  BY DEF Opening, Shut
<1>5. NodeText(h, n, x) = <<o>> \o a \o (IF x = <<>> THEN <<e>> ELSE <<g>> \o x \o <<z>>)
  BY DEF NodeText
<1> HIDE DEF o, a, z, e, g
<1>6. y \in Seq(Tokens) /\ s0 \o y \in Seq(Tokens) BY <1>2, <1>3
<1>7. s0 \o (<<o>> \o a \o <<>>) \o <<>> = s0 \o y BY <1>2, <1>3
<1>8. s0 \o (y \o <<g>>) \o x = s0 \o y \o <<g>> \o x
  <2> HIDE DEF y
  <2>1. <<g>> \in Seq(Tokens) BY <1>3
  <2>2. s0 \o (y \o <<g>>) = s0 \o y \o <<g>> BY <1>6, <2>1, ConcatAssoc
  <2> QED BY <2>2
<1>9. s0 \o (y \o <<e>>) = Append(s0 \o y, e)
  <2> HIDE DEF y
  <2> QED BY <1>3, <1>6
<1>10. s0 \o (y \o (<<g>> \o x \o <<z>>)) = Append(s0 \o y \o <<g>> \o x, z)
  <2> HIDE DEF y
  <2> DEFINE v == <<g>> \o x
  <2>1. v \in Seq(Tokens) BY <1>3
  <2>2. s0 \o y \o <<g>> \o x = s0 \o y \o v
    <3> DEFINE u == s0 \o y
    <3>1. u \in Seq(Tokens) /\ <<g>> \in Seq(Tokens) BY <1>3, <1>6
    <3> HIDE DEF u
    <3>2. (u \o <<g>>) \o x = u \o (<<g>> \o x) BY <3>1, ConcatAssoc
    <3> QED BY <3>2 DEF u
  <2> HIDE DEF v
  <2> DEFINE u == s0 \o y
  <2>3. s0 \o (y \o (v \o <<z>>)) = Append(u \o v, z)
    <3>1. <<z>> \in Seq(Tokens) /\ v \o <<z>> \in Seq(Tokens) BY <1>3, <2>1
    <3>2. s0 \o (y \o (v \o <<z>>)) = u \o (v \o <<z>>) BY <1>6, <3>1, ConcatAssoc
    <3> HIDE DEF u
    <3>3. u \in Seq(Tokens) BY <1>6 DEF u
    <3>4. u \o (v \o <<z>>) = Append(u \o v, z) BY <1>3, <2>1, <3>3
    <3> QED BY <3>2, <3>4
  <2> QED BY <2>2, <2>3 DEF v
<1>11. ElementText(h, n, x, s0, y)
  <2>1. s0 \o Opening(h, n, <<>>) \o <<>> = s0 \o y BY <1>4, <1>7
  <2>2. s0 \o Opening(h, n, Shut) \o x = s0 \o y \o <<g>> \o x BY <1>4, <1>8
  <2>3. s0 \o NodeText(h, n, x) = IF x = <<>> THEN Append(s0 \o y, e)
                                  ELSE Append(s0 \o y \o <<g>> \o x, z)
    BY <1>5, <1>9, <1>10
  <2> HIDE DEF y
  <2> QED BY <1>6, <2>1, <2>2, <2>3 DEF ElementText, e, g, z
<1> QED BY <1>11

LEMMA LoadEmpty ==
  ASSUME DocInv, DocInv', Loading, mode = "load", EmptyElement
  PROVE  Loading'
<1>1. /\ inTag /\ token = TagEmpty /\ Advance(FALSE) /\ LinkTop /\ inTag' = FALSE
      /\ open # <<>> /\ heap.kind[Top] = "element" /\ heap.first[Top] = Null
      /\ blank' = blank /\ ~InText
  BY DEF EmptyElement, Parsing, DocInv, ModeInv, Loading, InText
<1>2. PICK s \in Seq(Tokens) : Normals(read, s) /\ Reads(heap, open, End, s)
  BY <1>1, LoadingIs
<1>3. Clean(heap') /\ Stacked(heap', open') BY <1>1, <1>2, LoadReturns
<1>4. PICK t : Returned(heap, Top, <<>>, s, t) /\ Reads(heap', open', Shut, t)
  BY <1>1, <1>2, LoadReturns DEF End
<1>5. PICK s0 \in Seq(Tokens) : s = s0 \o Opening(heap, Top, <<>>) \o <<>> /\ t = s0 \o NodeText(heap, Top, <<>>)
  BY <1>1, <1>4 DEF Returned
<1> DEFINE x == <<>>
<1>6. PICK y : ElementText(heap, Top, x, s0, y)
  <2>1. x \in Seq(Tokens) OBVIOUS
  <2>2. LinkType(heap) /\ Worded(heap) /\ Top \in Addresses BY OpenIs DEF Loading, Clean
  <2> HIDE DEF x
  <2> QED BY <1>1, <2>1, <2>2, ElementIs
<1>7. t = Append(s, TagEmpty) BY <1>5, <1>6 DEF ElementText
<1>8. token.t = "/>" BY <1>1, KindIs
<1>9. NormalStep(s, token) = t BY <1>1, <1>7, <1>8, StepsAre
<1>10. LastOf(t) # Text
  <2>1. token \in Tokens BY <1>1, TokenIs
  <2> QED BY <1>1, <1>7, <1>8, <2>1, LastIs, KindIs
<1>11. Reads(heap', open', End', t) BY <1>1, <1>4 DEF End
<1>12. \E tag \in BOOLEAN : Advance(tag) BY <1>1
<1>13. inTag' \in BOOLEAN /\ ~inTag' /\ blank' = FALSE BY <1>1 DEF Loading
<1> QED BY <1>2, <1>3, <1>9, <1>10, <1>11, <1>12, <1>13, LoadMore

\* What is appended is the last, and the rest is the rest.
LEMMA AppendOnce ==
  ASSUME NEW s \in Seq(Tokens), NEW u \in Seq(Tokens), NEW t \in Tokens, Append(s, t) = Append(u, t)
  PROVE  s = u
<1>1. Len(s) = Len(u) OBVIOUS
<1>2. \A i \in 1 .. Len(s) : s[i] = Append(s, t)[i] /\ u[i] = Append(u, t)[i] BY <1>1
<1>3. s = [i \in 1 .. Len(s) |-> s[i]] /\ u = [i \in 1 .. Len(u) |-> u[i]] OBVIOUS
<1> QED BY <1>1, <1>2, <1>3

\* A node that is in no list and has nothing below it is deleted: the rest is printed as
\* it was.
LEMMA FreeTells ==
  ASSUME NEW h, NEW U, Sound(h, U), Clean(h), NEW n \in Addresses, n \in U, h.first[n] = Null,
         NEW S \in SUBSET Addresses, \A m : m \in S <=> m = n, NEW g, g = Free(h, S)
  PROVE  /\ Clean(g)
         /\ \A m \in Addresses : /\ g.first[m] = h.first[m]
                                 /\ m # n => /\ g.kind[m] = h.kind[m] /\ g.name[m] = h.name[m]
                                             /\ g.attrs[m] = h.attrs[m] /\ g.parent[m] = h.parent[m]
         /\ \A c : Tells(h, c) =>
              \E d : Tells(g, d) /\ \A q \in Addresses : d[g.first[q]] = c[h.first[q]]
<1>1. LinkType(h) /\ Worded(h) /\ Named(h) BY DEF Sound, Linked, Clean, Worded
<1>2. /\ h.next[n] = Null
      /\ \A m \in Addresses : h.first[m] # n /\ h.next[m] # n
  BY NobodyLeads
<1>3. Freed(h, g, S) BY <1>1, FreeIs
<1>4. Named(g) /\ \A m \in Addresses : m # n => g.name[m] = h.name[m]
  <2>1. /\ Named(Free(h, S))
        /\ \A m \in Addresses : Free(h, S).name[m] = IF m \in S THEN "" ELSE h.name[m]
    BY <1>1, FreeNamed
  <2>2. \A m \in Addresses : m # n => Free(h, S).name[m] = h.name[m] BY <2>1
  <2> QED BY <2>1, <2>2
<1>5. g.attrs = [m \in Addresses |-> IF m \in S THEN <<>> ELSE h.attrs[m]] BY DEF Free
<1>6. /\ g.attrs \in [Addresses -> Seq(Attributes)] /\ g.attrs[n] = <<>>
      /\ \A m \in Addresses : m # n => g.attrs[m] = h.attrs[m]
  <2>1. h.attrs \in [Addresses -> Seq(Attributes)] /\ <<>> \in Seq(Attributes) BY <1>1 DEF Worded
  <2> QED BY <1>5, <2>1
<1>7. /\ LinkType(g) /\ g.kind[n] = "free"
      /\ \A m \in Addresses : /\ g.first[m] = h.first[m] /\ g.next[m] = h.next[m]
                              /\ m # n => g.kind[m] = h.kind[m] /\ g.parent[m] = h.parent[m]
  <2>1. LinkType(g) BY <1>3 DEF Freed
  <2>2. \A m \in Addresses : m # n =>
          /\ g.first[m] = h.first[m] /\ g.next[m] = h.next[m]
          /\ g.kind[m] = h.kind[m] /\ g.parent[m] = h.parent[m]
    BY <1>3 DEF Freed
  <2>3. g.first[n] = Null /\ g.next[n] = Null /\ g.kind[n] = "free" BY <1>3 DEF Freed
  <2> QED BY <1>2, <2>1, <2>2, <2>3
<1>8. g.first = h.first /\ g.next = h.next BY <1>1, <1>7 DEF LinkType
<1>9. Worded(g) BY <1>4, <1>6 DEF Worded
<1>10. Clean(g)
  <2>1. NoRings(g) BY <1>8 DEF NoRings, Clean
  <2>2. ASSUME NEW m \in Addresses
        PROVE  /\ \A i \in DOMAIN g.attrs[m] : HasName(g.attrs[m][i])
               /\ g.kind[m] = "free" => g.attrs[m] = <<>>
    <3>1. CASE m = n
      <4>1. DOMAIN g.attrs[m] = {} BY <1>6, <3>1
      <4> QED BY <1>6, <3>1, <4>1
    <3>2. CASE m # n
      <4>1. g.attrs[m] = h.attrs[m] /\ g.kind[m] = h.kind[m] BY <1>6, <1>7, <3>2
      <4> QED BY <4>1 DEF Clean
    <3> QED BY <3>1, <3>2
  <2>3. TextsSay(g)
    <3>1. \A m \in Addresses : g.kind[m] = "text" => m # n BY <1>7
    <3> QED BY <1>4, <1>7, <3>1 DEF Clean, TextsSay
  <2> QED BY <1>9, <2>1, <2>2, <2>3 DEF Clean
<1>11. ASSUME NEW c, Tells(h, c)
       PROVE  \E d : Tells(g, d) /\ \A q \in Addresses : d[g.first[q]] = c[h.first[q]]
  <2>1. \E d : Changed(g, d, h, c, n)
    BY <1>1, <1>2, <1>4, <1>6, <1>7, <1>8, <1>9, <1>11, ChangeTells
  <2> QED BY <2>1 DEF Changed
<1> QED BY <1>4, <1>6, <1>7, <1>10, <1>11

\* A text that has nothing but blanks is deleted.
LEMMA FreeReads ==
  ASSUME DocInv, DocInv', Loading, InText, heap' = Free(heap, {Top}), open' = Outer,
         NEW s \in Seq(Tokens), Reads(heap, open, End, Append(s, Text))
  PROVE  Clean(heap') /\ Stacked(heap', open') /\ Reads(heap', open', Shut, s)
<1> DEFINE n == Top
           S == {n}
           q == Outer
           g == heap'
<1>1. /\ open \in Seq(Nodes) /\ Sound(heap, Unlinked) /\ LinkType(heap)
      /\ Clean(heap) /\ Stacked(heap, open) /\ ~inTag /\ open # <<>>
      /\ n \in Addresses /\ n \in Unlinked /\ heap.kind[n] = "text"
      /\ n = open[Len(open)] /\ Len(open) \in 1 .. Len(open)
      /\ \A i, j \in DOMAIN open : open[i] = open[j] => i = j
      /\ \A i \in 1 .. Len(open) : open[i] \in Addresses
  BY OpenIs, TopLive DEF Loading, DocInv, ModeInv, InText, Top
<1>2. heap.first[n] = Null BY <1>1 DEF Stacked
<1>3. IsOuter(open, q) BY <1>1, OuterIn DEF Outer
<1>4. g = Free(heap, S) /\ S \in SUBSET Addresses /\ \A m : m \in S <=> m = n BY <1>1
<1>5. open' = q OBVIOUS
<1> HIDE DEF n, S, q, g
<1>6. /\ Clean(g)
      /\ \A m \in Addresses : /\ g.first[m] = heap.first[m]
                              /\ m # n => /\ g.kind[m] = heap.kind[m] /\ g.name[m] = heap.name[m]
                                          /\ g.attrs[m] = heap.attrs[m] /\ g.parent[m] = heap.parent[m]
      /\ \A c : Tells(heap, c) =>
           \E d : Tells(g, d) /\ \A m \in Addresses : d[g.first[m]] = c[heap.first[m]]
  BY <1>1, <1>2, <1>4, FreeTells
<1>7. \A i \in 1 .. Len(q) : /\ q[i] = open[i] /\ i \in 1 .. Len(open) /\ i # Len(open)
                             /\ q[i] \in Addresses /\ q[i] # n
  <2> TAKE i \in 1 .. Len(q)
  <2>1. q[i] = open[i] /\ i \in 1 .. Len(open) /\ i \in DOMAIN open /\ i # Len(open)
    BY <1>3 DEF IsOuter
  <2>2. Len(open) \in DOMAIN open BY <1>1
  <2> QED BY <1>1, <2>1, <2>2
<1>8. Stacked(g, q)
  <2>1. ASSUME NEW i \in 1 .. Len(q)
        PROVE  g.parent[q[i]] = Level(q, i - 1) /\ g.kind[q[i]] = "element"
    <3>1. heap.parent[q[i]] = Level(open, i - 1) /\ heap.kind[q[i]] = "element"
      BY <1>1, <1>7 DEF Stacked
    <3>2. i - 1 = 0 \/ i - 1 \in 1 .. Len(q) BY <1>3 DEF IsOuter
    <3>3. Level(open, i - 1) = Level(q, i - 1) BY <1>7, <3>2 DEF Level
    <3> QED BY <1>6, <1>7, <3>1, <3>3
  <2> QED BY <2>1 DEF Stacked
<1> DEFINE r == Append(s, Text)
<1>9. PICK c : Tells(heap, c) /\ Sofar(heap, open, Shut, c, r) BY <1>1 DEF Reads, End
<1>10. PICK s0 \in Seq(Tokens) : Sofar(heap, q, Shut, c, s0) /\ r = s0 \o <<Text>> \o <<>>
  <2>1. Around(Shut, c, r) BY <1>1, <1>2, <1>9, InTagReads DEF Ends, n
  <2>2. Opening(heap, n, Shut) = <<Text>> BY <1>1 DEF Opening
  <2> QED BY <2>1, <2>2 DEF Around, n, q
<1>11. s = s0
  <2> DEFINE t == Text
  <2>1. t \in Tokens /\ Append(s, t) = s0 \o <<t>> \o <<>> BY <1>10, TokenIs
  <2> HIDE DEF t
  <2>2. Append(s, t) = Append(s0, t) BY <2>1
  <2> QED BY <2>1, <2>2, AppendOnce
<1>12. PICK d : Tells(g, d) /\ \A m \in Addresses : d[g.first[m]] = c[heap.first[m]] BY <1>6, <1>9
<1>13. Sofar(g, q, Shut, d, s)
  <2>1. ASSUME NEW i \in 1 .. Len(q), NEW e \in Ends
        PROVE  Opening(g, q[i], e) = Opening(heap, q[i], e)
    <3>1. /\ g.kind[q[i]] = heap.kind[q[i]] /\ g.name[q[i]] = heap.name[q[i]]
          /\ g.attrs[q[i]] = heap.attrs[q[i]]
      BY <1>6, <1>7
    <3> QED BY <3>1 DEF Opening
  <2>2. SameLevels(g, d, heap, c, q) BY <1>7, <1>12, <2>1, NullIsNone DEF SameLevels
  <2>3. q \in Seq(Nodes) /\ Shut \in Ends BY <1>3 DEF IsOuter, Ends
  <2> QED BY <1>10, <1>11, <2>2, <2>3, SofarSame
<1> QED BY <1>5, <1>6, <1>8, <1>12, <1>13 DEF Reads, g

LEMMA LoadEndText ==
  ASSUME DocInv, DocInv', Loading, mode = "load", EndText
  PROVE  Loading'
<1>1. /\ token \notin TextTokens \cup {Space} /\ InText /\ heap.kind[Top] = "text"
      /\ IF blank THEN heap' = Free(heap, {Top}) /\ open' = Outer ELSE LinkTop
      /\ token' = token /\ read' = read /\ inTag' = inTag /\ blank' = FALSE
      /\ open # <<>> /\ ~inTag
  BY TopLive DEF EndText, Stay, DocInv, ModeInv, InText
<1>2. PICK s \in Seq(Tokens) : Normals(read, s) /\ Reads(heap, open, End, Heard(s)) BY DEF Loading
<1>3. Clean(heap') /\ Stacked(heap', open') /\ Reads(heap', open', Shut, s)
  <2>1. CASE blank
    <3>1. Heard(s) = Append(s, Text) BY <2>1 DEF Heard
    <3> QED BY <1>1, <1>2, <2>1, <3>1, FreeReads
  <2>2. CASE ~blank
    <3>1. Heard(s) = s /\ LinkTop BY <1>1, <2>2 DEF Heard
    <3>2. Clean(heap') /\ Stacked(heap', open') BY <1>1, <1>2, <3>1, LoadReturns
    <3>3. PICK t : Returned(heap, Top, Shut, s, t) /\ Reads(heap', open', Shut, t)
      BY <1>1, <1>2, <3>1, LoadReturns DEF End
    <3>4. heap.first[Top] = Null
      <4>1. open \in Seq(Nodes) /\ Len(open) \in 1 .. Len(open) /\ Top = open[Len(open)]
        BY <1>1, OpenIs DEF Top
      <4> QED BY <1>1, <4>1 DEF Loading, Stacked
    <3>5. PICK s0 \in Seq(Tokens) : s = s0 \o <<Text>> \o <<>> /\ t = s0 \o <<Text>>
      <4>1. Opening(heap, Top, Shut) = <<Text>> BY <1>1 DEF Opening
      <4>2. \A x : NodeText(heap, Top, x) = <<Text>> BY <1>1 DEF NodeText
      <4> QED BY <3>3, <3>4, <4>1, <4>2 DEF Returned
    <3>6. t = s
      <4> DEFINE z == Text
      <4>1. z \in Tokens BY TokenIs
      <4>2. s = s0 \o <<z>> \o <<>> /\ t = s0 \o <<z>> BY <3>5
      <4> HIDE DEF z
      <4>3. s0 \o <<z>> \in Seq(Tokens) BY <4>1
      <4> QED BY <4>2, <4>3
    <3> QED BY <3>2, <3>3, <3>6
  <2> QED BY <2>1, <2>2
<1>4. Heard(s)' = s /\ End' = Shut BY <1>1 DEF Heard, End
<1>5. Reads(heap', open', End', Heard(s)') BY <1>3, <1>4
<1>6. inTag' \in BOOLEAN /\ ~inTag' /\ token' \in FileTokens /\ read' \in Seq(FileTokens)
  BY <1>1 DEF Loading
<1> QED BY <1>1, <1>2, <1>3, <1>5, <1>6 DEF Loading

LEMMA LoadEnd ==
  ASSUME DocInv, DocInv', Loading, mode = "load", error' = "none", EndElement
  PROVE  Loading'
<1>1. /\ token \in EndTags /\ open # <<>> /\ ~inTag /\ ~InText /\ inTag' = inTag
      /\ token.name = heap.name[Top] /\ LinkTop /\ Advance(FALSE) /\ blank' = blank
  BY DEF EndElement, Between, Fail, SetError
<1>2. PICK s \in Seq(Tokens) : Normals(read, s) /\ Reads(heap, open, End, s)
  BY <1>1, LoadingIs
<1>3. Clean(heap') /\ Stacked(heap', open') BY <1>1, <1>2, LoadReturns
<1>4. PICK t : Returned(heap, Top, Shut, s, t) /\ Reads(heap', open', Shut, t)
  BY <1>1, <1>2, LoadReturns DEF End
<1>5. heap.kind[Top] = "element"
  <2>1. open \in Seq(Nodes) /\ Len(open) \in 1 .. Len(open) /\ Top = open[Len(open)]
    BY <1>1, OpenIs DEF Top
  <2> QED BY <1>1, <2>1 DEF Loading, Stacked, InText
<1>6. PICK s0 \in Seq(Tokens), x \in Seq(Tokens) :
         /\ s = s0 \o Opening(heap, Top, Shut) \o x /\ t = s0 \o NodeText(heap, Top, x)
         /\ x = <<>> \/ EndsWell(x)
  BY <1>4 DEF Returned
<1>7. PICK y : ElementText(heap, Top, x, s0, y)
  <2>1. LinkType(heap) /\ Worded(heap) /\ Top \in Addresses BY OpenIs DEF Loading, Clean
  <2> QED BY <1>5, <2>1, ElementIs
<1> DEFINE u == s0 \o y
           g == TagClose
<1>8. /\ u \in Seq(Tokens) /\ s = u \o <<g>> \o x
      /\ t = IF x = <<>> THEN Append(u, TagEmpty) ELSE Append(s, token)
  <2>1. token = Token("close", heap.name[Top]) BY <1>1, OpenEnd
  <2> QED BY <1>6, <1>7, <2>1 DEF ElementText
<1>9. token.t = "close" /\ token \in Tokens
  <2>1. token.t = "close" /\ token = Token("close", token.name) /\ token.name \in Names
    BY <1>1, OpenEnd
  <2> QED BY <2>1, TokenIs
<1>10. g \in Tokens /\ TagEmpty \in Tokens BY TokenIs
<1>11. NormalStep(s, token) = t /\ LastOf(t) # Text
  <2> HIDE DEF u
  <2>1. CASE x = <<>>
    <3>1. s = Append(u, TagClose)
      <4> HIDE DEF g
      <4>1. u \o <<g>> \in Seq(Tokens) BY <1>8, <1>10
      <4>2. s = u \o <<g>> BY <1>8, <2>1, <4>1
      <4>3. s = Append(u, g) BY <1>8, <1>10, <4>2
      <4> QED BY <4>3 DEF g
    <3>2. LastOf(s) = TagClose BY <1>8, <1>10, <3>1, LastIs
    <3>3. SubSeq(s, 1, Len(s) - 1) = u
      <4> HIDE DEF g
      <4>1. s = Append(u, g) BY <3>1 DEF g
      <4> QED BY <1>8, <1>10, <4>1
    <3>4. NormalStep(s, token) = Append(u, TagEmpty) BY <1>9, <3>2, <3>3, StepsAre
    <3>5. LastOf(t) = TagEmpty BY <1>8, <1>10, <2>1, LastIs
    <3> QED BY <1>8, <2>1, <3>4, <3>5, KindIs
  <2>2. CASE x # <<>>
    <3>1. EndsWell(x) BY <1>6, <2>2
    <3>2. s # <<>> /\ s[Len(s)] # g
      <4> HIDE DEF g
      <4>1. u \o <<g>> \in Seq(Tokens) BY <1>8, <1>10
      <4>2. x # <<>> /\ x[Len(x)] # g BY <3>1 DEF EndsWell, g
      <4> DEFINE v == u \o <<g>>
      <4> HIDE DEF v
      <4>3. v \in Seq(Tokens) /\ s = v \o x BY <1>8, <4>1 DEF v
      <4> QED BY <4>2, <4>3
    <3>3. LastOf(s) # TagClose BY <3>2, LastIs
    <3>4. NormalStep(s, token) = Append(s, token) BY <1>9, <3>3, StepsAre
    <3>5. LastOf(t) = token BY <1>8, <1>9, <2>2, LastIs
    <3> QED BY <1>8, <1>9, <2>2, <3>4, <3>5, KindIs
  <2> QED BY <2>1, <2>2
<1>12. Reads(heap', open', End', t) BY <1>1, <1>4 DEF End
<1>13. \E tag \in BOOLEAN : Advance(tag) BY <1>1
<1>14. inTag' \in BOOLEAN /\ ~inTag' /\ blank' = FALSE BY <1>1 DEF Loading
<1> QED BY <1>2, <1>3, <1>11, <1>12, <1>13, <1>14, LoadMore

LoadInv == mode = "load" /\ error = "none" => Loading

\* Without an error the place in the file is lost only at its end and at what is cut off.
LostInv == mode = "load" /\ error = "none" /\ lost => token \in {Eof} \cup Cuts

LoadedInv == LoadInv /\ LostInv /\ NothingLost

\* What the parser does until the document is read.
LEMMA ParseStep ==
  ASSUME DocInv, DocInv', LoadInv, mode = "load", error' = "none",
         \/ SkipWhiteSpace \/ MoreText
         \/ \E n \in FreeNodes(heap) : StartElement(n) \/ Leaf(n) \/ CutLeaf(n) \/ StartText(n)
         \/ Attribute \/ NoAttribute \/ EndOfStartTag \/ EmptyElement
         \/ EndText \/ EndElement \/ NoEndTag \/ ReturnNull
  PROVE  Loading'
\* An error stays.
<1>1. ASSUME SetError("READING_ATTRIBUTES") \/ SetError("READING_END_TAG")
             \/ SetError("READING_ELEMENT_VALUE") PROVE FALSE
  BY <1>1 DEF SetError
<1>2. ~NoAttribute BY <1>1 DEF NoAttribute, Fail
<1>3. ~NoEndTag BY <1>1 DEF NoEndTag, Fail
<1>4. ~ReturnNull BY <1>1 DEF ReturnNull
<1>5. ASSUME error = "none" \/ UNCHANGED error PROVE Loading BY <1>5 DEF LoadInv
<1>6. CASE SkipWhiteSpace \/ MoreText
  <2>1. Loading BY <1>5, <1>6 DEF SkipWhiteSpace, MoreText, NoError
  <2>2. CASE SkipWhiteSpace \/ (MoreText /\ blank' = blank) BY <2>1, <2>2, LoadSkip
  <2>3. CASE MoreText /\ blank' # blank BY <2>1, <2>3, LoadMoreText
  <2> QED BY <1>6, <2>2, <2>3
<1>7. ASSUME NEW n \in FreeNodes(heap), StartElement(n) PROVE Loading'
  <2>1. Loading BY <1>5, <1>7 DEF StartElement, NoError, Fail, SetError
  <2> QED BY <1>7, <2>1, LoadStart
<1>8. ASSUME NEW n \in FreeNodes(heap), Leaf(n) PROVE Loading'
  <2>1. Loading BY <1>5, <1>8 DEF Leaf, NoError
  <2> QED BY <1>8, <2>1, LoadLeaf
<1>9. ASSUME NEW n \in FreeNodes(heap), CutLeaf(n) PROVE Loading'
  <2>1. Loading BY <1>5, <1>9 DEF CutLeaf
  <2> QED BY <1>9, <2>1, LoadCut
<1>10. ASSUME NEW n \in FreeNodes(heap), StartText(n) PROVE Loading'
  <2>1. Loading BY <1>5, <1>10 DEF StartText, NoError
  <2> QED BY <1>10, <2>1, LoadText
<1>11. CASE Attribute
  <2>1. Loading BY <1>5, <1>11 DEF Attribute, NoError, Fail, SetError
  <2> QED BY <1>11, <2>1, LoadAttribute
<1>12. CASE EndOfStartTag
  <2>1. Loading BY <1>5, <1>12 DEF EndOfStartTag, NoError
  <2> QED BY <1>12, <2>1, LoadShut
<1>13. CASE EmptyElement
  <2>1. Loading BY <1>5, <1>13 DEF EmptyElement, NoError
  <2> QED BY <1>13, <2>1, LoadEmpty
<1>14. CASE EndText
  <2>1. Loading BY <1>5, <1>14 DEF EndText
  <2> QED BY <1>14, <2>1, LoadEndText
<1>15. CASE EndElement
  <2>1. Loading BY <1>5, <1>15 DEF EndElement, NoError, Fail, SetError
  <2> QED BY <1>15, <2>1, LoadEnd
<1> QED BY <1>2, <1>3, <1>4, <1>6, <1>7, <1>8, <1>9, <1>10, <1>11, <1>12, <1>13, <1>14, <1>15

LEMMA LostStep ==
  ASSUME DocInv, LostInv, mode = "load", error' = "none",
         \/ SkipWhiteSpace \/ MoreText
         \/ \E n \in FreeNodes(heap) : StartElement(n) \/ Leaf(n) \/ CutLeaf(n) \/ StartText(n)
         \/ Attribute \/ NoAttribute \/ EndOfStartTag \/ EmptyElement
         \/ EndText \/ EndElement \/ NoEndTag \/ ReturnNull
  PROVE  lost' => token' \in {Eof} \cup Cuts
<1>1. ASSUME NEW code \in {"READING_ATTRIBUTES", "READING_END_TAG", "READING_ELEMENT_VALUE",
                          "PARSING_ELEMENT", "FAILED_TO_READ_ELEMENT_NAME"}, SetError(code)
      PROVE  FALSE
  BY <1>1 DEF SetError
<1>2. ~NoAttribute
  <2>1. ~SetError("READING_ATTRIBUTES") BY <1>1
  <2> QED BY <2>1, Zenon DEF NoAttribute, Fail
<1>3. ~NoEndTag BY <1>1 DEF NoEndTag, Fail
<1>4. ~ReturnNull BY <1>1 DEF ReturnNull
<1>5. ASSUME NoError, ~lost PROVE ~lost' BY <1>5 DEF NoError
<1>6. CASE SkipWhiteSpace \/ MoreText \/ EndOfStartTag \/ EmptyElement
  BY <1>5, <1>6 DEF SkipWhiteSpace, MoreText, EndOfStartTag, EmptyElement, Parsing
<1>7. CASE \E n \in FreeNodes(heap) : StartElement(n) \/ Leaf(n) \/ StartText(n)
  BY <1>1, <1>5, <1>7 DEF StartElement, Leaf, StartText, Between, Parsing, Fail
<1>8. ASSUME NEW n \in FreeNodes(heap), CutLeaf(n) PROVE lost' => token' \in {Eof} \cup Cuts
  BY <1>8 DEF CutLeaf, Between, Parsing
<1>9. CASE Attribute
  <2>1. ~SetError("PARSING_ELEMENT") BY <1>1
  <2>2. ~lost BY <1>9, Zenon DEF Attribute, Parsing
  <2>3. NoError BY <1>9, <2>1, Zenon DEF Attribute, Fail
  <2> QED BY <1>5, <2>2, <2>3
<1>11. CASE EndElement
  BY <1>1, <1>5, <1>11 DEF EndElement, Between, Parsing, Fail
<1>10. CASE EndText BY <1>10 DEF EndText, Stay
<1> QED BY <1>2, <1>3, <1>4, <1>6, <1>7, <1>8, <1>9, <1>10, <1>11

\* When the document is read, what is printed of it is the file.
LEMMA ReadStep ==
  ASSUME DocInv, LoadInv, EndDocument, mode = "load", error' = "none"
  PROVE  Printed(heap') = Normal(read')
<1>1. error = "none" /\ open = <<>> /\ heap' = heap /\ read' = read
  BY DEF EndDocument, Stay, SetError
<1>2. Loading BY <1>1 DEF LoadInv
<1>3. PICK s : Normals(read, s) /\ Reads(heap, open, End, s)
  <2>1. ~InText BY <1>1, TopLive
  <2> QED BY <1>2, <2>1, LoadingIs
<1>4. PICK c : Tells(heap, c) /\ Sofar(heap, open, End, c, s) BY <1>3 DEF Reads
<1>5. s = c[heap.first[Doc]]
  <2>1. open \in Seq(Nodes) BY OpenIs
  <2>2. open = <<>> => s = c[heap.first[Doc]] BY <1>4, <2>1, SofarIs
  <2> QED BY <1>1, <2>2
<1>6. Printed(heap) = c[heap.first[Doc]]
  <2>1. LinkType(heap) /\ NoRing(heap.next) BY OpenIs DEF Sound
  <2>2. Worded(heap) /\ NoRings(heap) /\ TextsSay(heap) BY <1>2 DEF Loading, Clean
  <2> QED BY <1>4, <2>1, <2>2, TellsPrinted
<1>7. Normal(read) = s BY <1>2, <1>3, NormalIs DEF Loading
<1> QED BY <1>1, <1>5, <1>6, <1>7

LEMMA LoadedStep ==
  ASSUME DocInv, DocInv', LoadedInv, [Next]_vars
  PROVE  LoadedInv'
<1>1. CASE UNCHANGED vars
  <2>1. UNCHANGED <<heap, mode, token, read, open, inTag, blank, lost, error>>
    BY <1>1 DEF vars, parserVars
  <2>2. Loading => Loading'
    BY <2>1 DEF Loading, Top, End, InText, Heard
  <2> QED BY <2>1, <2>2 DEF LoadedInv, LoadInv, LostInv, NothingLost
<1>2. CASE \/ SkipWhiteSpace \/ MoreText
           \/ \E n \in FreeNodes(heap) : StartElement(n) \/ Leaf(n) \/ CutLeaf(n) \/ StartText(n)
           \/ Attribute \/ NoAttribute \/ EndOfStartTag \/ EmptyElement
           \/ EndText \/ EndElement \/ NoEndTag \/ ReturnNull
  <2>1. mode' = mode /\ mode \in {"load", "reload"}
    <3>1. CASE \E n \in FreeNodes(heap) : StartElement(n) \/ Leaf(n) \/ CutLeaf(n) \/ StartText(n)
      BY <3>1 DEF StartElement, Leaf, CutLeaf, StartText, Between, Parsing
    <3>2. CASE SkipWhiteSpace \/ MoreText \/ Attribute \/ NoAttribute \/ EndOfStartTag
               \/ EmptyElement
      BY <3>2 DEF SkipWhiteSpace, MoreText, Attribute, NoAttribute, EndOfStartTag, EmptyElement,
                  Parsing
    <3>3. CASE EndText \/ EndElement \/ NoEndTag \/ ReturnNull
      BY <3>3 DEF EndText, EndElement, NoEndTag, ReturnNull, Between, Parsing
    <3> QED BY <1>2, <3>1, <3>2, <3>3
  <2>2. mode' = "load" /\ error' = "none" => Loading' BY <1>2, <2>1, ParseStep DEF LoadedInv
  <2>3. mode' # "loaded" BY <2>1
  <2>4. mode' = "load" /\ error' = "none" => (lost' => token' \in {Eof} \cup Cuts)
    BY <1>2, <2>1, LostStep DEF LoadedInv
  <2> QED BY <2>2, <2>3, <2>4 DEF LoadedInv, LoadInv, LostInv, NothingLost
<1>3. CASE EndDocument
  <2>1. mode \in {"load", "reload"} /\ mode' = IF mode = "load" THEN "loaded" ELSE "reloaded"
    BY <1>3 DEF EndDocument
  <2>2. mode' = "loaded" /\ error' = "none" => Printed(heap') = Normal(read')
    BY <1>3, <2>1, ReadStep DEF LoadedInv
  <2>3. mode' # "load" BY <2>1
  <2>4. mode' = "loaded" /\ error' = "none" => token' \in {Eof} \cup TextTokens \cup Cuts
    <3>1. mode' = "loaded" /\ error' = "none" => error = "none" /\ mode = "load"
      BY <1>3, <2>1 DEF EndDocument, SetError
    <3>2. token' = token /\ (lost \/ token \in TextTokens \cup {Eof})
      BY <1>3 DEF EndDocument, Stay
    <3> QED BY <3>1, <3>2 DEF LoadedInv, LostInv
  <2> QED BY <2>2, <2>3, <2>4 DEF LoadedInv, LoadInv, LostInv, NothingLost
<1>4. ASSUME mode' \in {"edit", "reload"} PROVE LoadedInv'
  BY <1>4 DEF LoadedInv, LoadInv, LostInv, NothingLost
<1>5. CASE Keep \/ SaveAndLoad BY <1>4, <1>5 DEF Keep, SaveAndLoad
<1>6. \A h : mode = "edit" /\ Edit(h) => LoadedInv' BY <1>4 DEF Edit
<1>7. CASE \/ \E p \in Live(heap), n \in FreeNodes(heap) : AddChild(p, n)
           \/ \E p, src \in Live(heap) : InsertEndChild(p, src)
           \/ \E x, src \in Live(heap) : \/ InsertBeforeChild(x, src) \/ InsertAfterChild(x, src)
                                         \/ ReplaceChild(x, src)
  BY <1>6, <1>7 DEF AddChild, InsertEndChild, InsertBeforeChild, InsertAfterChild, ReplaceChild
<1>8. CASE \/ \E x \in Live(heap) : RemoveNode(x) \/ ClearNode(x)
           \/ \E e \in Live(heap), name \in AttrNames :
                RemoveAttribute(e, name) \/ \E value \in AttrValues : SetAttribute(e, name, value)
  BY <1>6, <1>8 DEF RemoveNode, ClearNode, SetAttribute, RemoveAttribute
<1> QED BY <1>1, <1>2, <1>3, <1>5, <1>7, <1>8 DEF Next

-----------------------------------------------------------------------------
(* The theorems.                                                           *)

\* The links, the stack of the nodes that are being read and the mode agree, at every
\* step of Parse and after every LinkEndChild, Insert..., ReplaceChild, RemoveChild and
\* Clear.
THEOREM DocumentInvariant == Spec => [](DocInv /\ TextInv)
<1>1. Init => DocInv /\ TextInv
  <2> SUFFICES ASSUME Init PROVE DocInv /\ TextInv OBVIOUS
  <2>1. DocInv BY DocInit
  <2>2. open = <<>> /\ DOMAIN open = {} /\ heap.kind[Doc] = "document"
    BY <2>1 DEF Init, DocInv, Sound, Linked
  <2> QED BY <2>1, <2>2 DEF TextInv, InText, Top
<1>2. DocInv /\ TextInv /\ [Next]_vars => DocInv' /\ TextInv'
  <2> SUFFICES ASSUME DocInv, TextInv, [Next]_vars PROVE DocInv' /\ TextInv' OBVIOUS
  <2>1. CASE UNCHANGED vars
    BY <2>1 DEF vars, parserVars, DocInv, TextInv, InText, StackInv, ModeInv, Unlinked, Top
  <2>2. CASE Next
    <3>1. DocInv' BY <2>2, LoadStep, EditStep, FileStep DEF Next
    <3> QED BY <2>2, <3>1, TextStep
  <2> QED BY <2>1, <2>2
<1> QED BY <1>1, <1>2, PTL DEF Spec

\* TreeLinked: first, last, next, prev and parent agree, a node is neither below itself
\* nor its own sibling, while a file is read and whatever is inserted, copied, replaced
\* or deleted.
THEOREM TreeStaysLinked == Spec => []TreeLinked
<1>1. DocInv => TreeLinked BY DEF DocInv, Sound, Linked, TreeLinked
<1> QED BY <1>1, DocumentInvariant, PTL

\* ImplementsForest: the pointers of the nodes implement ordered lists of children, whatever
\* is read, linked, inserted, replaced, copied or deleted.
THEOREM DocumentImplementsForest == Spec => ImplementsForest
<1>1. Init => Forest!Init /\ Named(heap) BY ForestInit
<1>2. DocInv /\ TextInv /\ DocInv' /\ Named(heap) /\ [Next]_vars =>
        [Forest!Next]_(Forest!vars) /\ Named(heap')
  <2> SUFFICES ASSUME DocInv, TextInv, DocInv', Named(heap), [Next]_vars
               PROVE  [Forest!Next]_(Forest!vars) /\ Named(heap')
    OBVIOUS
  <2>1. CASE UNCHANGED vars
    <3>1. heap' = heap BY <2>1 DEF vars
    <3> QED BY <3>1, ForestSame
  <2>2. CASE Next
    BY <2>2, ForestLoad, ForestEdit, ForestFile DEF Next
  <2> QED BY <2>1, <2>2
<1>3. (Named(heap))' <=> Named(heap') OBVIOUS
<1> QED BY <1>1, <1>2, <1>3, DocumentInvariant, PTL DEF Spec, ImplementsForest, Forest!Spec

\* WalksMeetAll: whoever walks through the children of a node, forwards, backwards, by name
\* or over the elements, meets each of them once and in order.
THEOREM WalksMeetAllChildren == Spec => []WalksMeetAll
<1>1. DocInv => WalksMeetAll
  <2> SUFFICES ASSUME DocInv, NEW p \in Live(heap)
               PROVE  /\ ChildrenBack(heap, p) = Children(heap, p)
                      /\ \A name \in Names \cup {""}, i \in 0 .. Len(Children(heap, p)) :
                           /\ Ordinal(Children(heap, p), Child(heap, p, name, i), i,
                                      Fitted(heap, Children(heap, p), name, FALSE))
                           /\ Ordinal(Children(heap, p), ChildElement(heap, p, name, i), i,
                                      Fitted(heap, Children(heap, p), name, TRUE))
    BY Zenon DEF WalksMeetAll, Ordinal, Fitted
  <2>1. Sound(heap, Unlinked) /\ p \in Addresses BY DEF DocInv
  <2>2. ChildrenBack(heap, p) = Children(heap, p) BY <2>1, BackList
  <2>3. \A name : \A i \in Nat :
          /\ Ordinal(Children(heap, p), Child(heap, p, name, i), i,
                     Fitted(heap, Children(heap, p), name, FALSE))
          /\ Ordinal(Children(heap, p), ChildElement(heap, p, name, i), i,
                     Fitted(heap, Children(heap, p), name, TRUE))
    BY <2>1, ChildIs
  <2>4. \A i \in 0 .. Len(Children(heap, p)) : i \in Nat OBVIOUS
  <2> QED BY <2>2, <2>3, <2>4
<1> QED BY <1>1, DocumentInvariant, PTL

\* NothingLost: of what was read of a file without an error nothing is missing in the
\* document but texts of blanks, and nothing is there that was not in the file: printing
\* the document gives it again, whatever elements, attributes, texts and leaves there are
\* and however they are nested.  All of the file was read, but for what follows text
\* outside the elements or a leaf outside them that is cut off.
THEOREM WhatWasReadIsThere == Spec => []NothingLost
<1>1. Init => LoadedInv BY LoadInit DEF LoadedInv, LoadInv, LostInv, NothingLost, Init
<1>2. DocInv /\ TextInv /\ DocInv' /\ LoadedInv /\ [Next]_vars => LoadedInv' BY LoadedStep
<1>3. LoadedInv => NothingLost BY DEF LoadedInv
<1> QED BY <1>1, <1>2, <1>3, DocumentInvariant, PTL DEF Spec
=============================================================================
