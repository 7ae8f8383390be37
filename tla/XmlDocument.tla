----------------------------- MODULE XmlDocument -----------------------------
(***************************************************************************)
(* A TiXmlDocument, in which the server keeps its configuration: it is     *)
(* loaded from a file (tinyxmlparser.cpp), changed, and saved and loaded   *)
(* again (tinyxml.cpp).                                                    *)
(*                                                                         *)
(* A file is a sequence of tokens, cut where the parser makes a choice.    *)
(* What a token is depends on where it stands: a name with its value is an *)
(* attribute in a tag and text between tags, so that only text stands      *)
(* there.  The recursion of Parse is the stack "open" of the nodes whose   *)
(* Parse has not returned; such a node knows its parent (Identify) and is  *)
(* in no list of children.  "lost" is a null pointer where the parser's    *)
(* place in the file was: every Parse returns it, and every caller links   *)
(* its node all the same.                                                  *)
(***************************************************************************)
EXTENDS XmlHeap, FiniteSets

CONSTANTS
  Names,      \* names of elements
  AttrNames,  \* names of attributes, with ""
  LeafKinds,  \* of "comment", "unknown", "cdata" and "declaration", those that occur
  AttrValues, \* values of attributes that the application sets
  MaxTokens,  \* bound: the tokens of a file
  MaxSize     \* bound: the nodes and attributes of a document that an edit leaves

ASSUME DocumentAssumption ==
  /\ Names \subseteq STRING /\ AttrNames \subseteq STRING /\ AttrValues \subseteq STRING
  /\ "" \notin Names    \* ReadName reads no such name
  /\ LeafKinds \subseteq {"comment", "unknown", "cdata", "declaration"}
  /\ MaxTokens \in Nat /\ MaxSize \in Nat

Token(t, name) == [t |-> t, name |-> name, value |-> ""]
AttrToken(attr) == [t |-> "attr", name |-> attr.name, value |-> attr.value]

Space == Token("space", "")
Text == Token("text", "t")
BlankText == Token("blank", "")    \* text whose value is nothing but blanks, as that of "&#32;"
TagClose == Token(">", "")      \* the end of a start tag
TagEmpty == Token("/>", "")
Eof == Token("eof", "")

\* A leaf that is there to its end; and one that is cut off: a comment without its end,
\* a declaration with an attribute that is none.
Leaves == {Token("leaf", kind) : kind \in LeafKinds}
Cuts == {Token("cut", kind) : kind \in LeafKinds}
StartTags == {Token("open", name) : name \in Names}
EndTags == {Token("close", name) : name \in Names}

Markup == Leaves \cup Cuts \cup StartTags \cup EndTags
TextTokens == {Text, BlankText}
TagTokens ==
  {AttrToken([name |-> name, value |-> "v"]) : name \in AttrNames}
    \cup {TagClose, TagEmpty, Space, Text} \cup StartTags

VARIABLES
  heap,       \* the nodes of the document
  mode,       \* "load", "loaded", "edit", "reload", "reloaded"
  token,      \* where the parser is in the file
  read,       \* the tokens before it
  open,       \* the nodes whose Parse has not returned, the innermost last
  inTag,      \* the innermost is an element whose tag is being read
  blank,      \* it is a text that has nothing but blanks so far
  lost,       \* p is null
  error,      \* errorId of the document, or "none"
  saved,      \* the tokens of the file that SaveFile wrote
  written     \* history: the document that was saved, and whether it is Readable

parserVars == <<token, read, open, inTag, blank, lost, error>>
files == <<saved, written>>
vars == <<heap, mode, parserVars, files>>

Parsing == mode \in {"load", "reload"} /\ ~lost

Top == IF open = <<>> THEN Doc ELSE open[Len(open)]
Outer == SubSeq(open, 1, Len(open) - 1)
Unlinked == {open[i] : i \in DOMAIN open}
InText == heap.kind[Top] = "text"
Between == Parsing /\ ~inTag /\ ~InText      \* in a document or in an element's content

NoDocument == [nodes |-> <<>>, readable |-> FALSE]

Init ==
  /\ heap = EmptyHeap
  /\ mode = "load"
  /\ token \in Markup \cup TextTokens \cup {Space, Eof}
  /\ read = <<>> /\ open = <<>> /\ inTag = FALSE /\ blank = FALSE
  /\ lost = FALSE /\ error = "none" /\ saved = <<>> /\ written = NoDocument

-----------------------------------------------------------------------------
(* Reading.                                                                *)

\* What can come next: anything in a file that is loaded, the next token in a file that
\* was saved.
Following(seen, tag) ==
  IF mode = "load"
  THEN {Eof} \cup (IF Len(seen) >= MaxTokens THEN {}
                   ELSE IF tag THEN TagTokens ELSE Markup \cup TextTokens \cup {Space})
  ELSE {IF Len(seen) < Len(saved) THEN saved[Len(seen) + 1] ELSE Eof}

Advance(tag) ==
  /\ read' = Append(read, token)
  /\ token' \in Following(read', tag)

Stay == UNCHANGED <<token, read>>

\* TiXmlDocument::SetError: the first error is kept.
SetError(code) == error' = IF error = "none" THEN code ELSE error

\* A Parse that returns 0.
Fail(code) == SetError(code) /\ lost' = TRUE

NoError == UNCHANGED <<error, lost>>

\* The caller of Parse, in TiXmlDocument::Parse or ReadValue, links the node.
LinkTop == heap' = LinkEndChild(heap, heap.parent[Top], Top) /\ open' = Outer

\* SkipWhiteSpace; in a text, ReadText condenses it.
SkipWhiteSpace ==
  /\ Parsing /\ token = Space
  /\ Advance(inTag)
  /\ NoError /\ UNCHANGED <<heap, mode, open, inTag, blank, files>>

\* Identify finds an element, whose Parse reads its name.
StartElement(n) ==
  /\ Between /\ token \in StartTags
  /\ heap' = New(heap, n, "element", token.name, Top)
  /\ open' = Append(open, n)
  /\ inTag' = TRUE
  /\ Advance(TRUE)
  /\ IF token' = Eof THEN Fail("FAILED_TO_READ_ELEMENT_NAME") ELSE NoError
  /\ UNCHANGED <<mode, blank, files>>

WithAttrs(e, attrs) == [heap EXCEPT !.attrs = [@ EXCEPT ![e] = attrs]]

\* TiXmlAttribute::Parse and AttributeSet::Find.  An attribute that the file ends with is
\* an error even if it is complete.
Attribute ==
  /\ Parsing /\ inTag /\ token.t = "attr" /\ token.name # ""
  /\ Advance(TRUE)
  /\ IF token' = Eof \/ token.name \in NameOf(heap.attrs[Top])
     THEN Fail("PARSING_ELEMENT") /\ UNCHANGED heap
     ELSE /\ heap' = WithAttrs(Top, Append(heap.attrs[Top],
                                          [name |-> token.name, value |-> token.value]))
          /\ NoError
  /\ UNCHANGED <<mode, open, inTag, blank, files>>

\* What is no attribute: ReadName finds no name, or no '=' follows it.
NoAttribute ==
  /\ Parsing /\ inTag
  /\ token.t \in {"text", "open", "eof"} \/ (token.t = "attr" /\ token.name = "")
  /\ Fail("READING_ATTRIBUTES")
  /\ Stay /\ UNCHANGED <<heap, mode, open, inTag, blank, files>>

EndOfStartTag ==
  /\ Parsing /\ inTag /\ token = TagClose
  /\ Advance(FALSE)
  /\ inTag' = FALSE
  /\ NoError /\ UNCHANGED <<heap, mode, open, blank, files>>

EmptyElement ==
  /\ Parsing /\ inTag /\ token = TagEmpty
  /\ LinkTop
  /\ Advance(FALSE)
  /\ inTag' = FALSE
  /\ NoError /\ UNCHANGED <<mode, blank, files>>

LeafKind == IF token.t = "close" THEN "unknown" ELSE token.name
LeafName == IF token.t = "close" THEN token.name ELSE ""

\* A comment, a declaration, a CDATA section, an unknown; outside all elements an end tag
\* is an unknown too.
Leaf(n) ==
  /\ Between
  /\ token \in Leaves \/ (token \in EndTags /\ open = <<>>)
  /\ heap' = LinkEndChild(New(heap, n, LeafKind, LeafName, Top), Top, n)
  /\ Advance(FALSE)
  /\ NoError /\ UNCHANGED <<mode, open, inTag, blank, files>>

\* Comment::Parse and Unknown::Parse stop at the end of the file, Text::Parse of a CDATA
\* section and Declaration::Parse return 0; none of them calls that an error.
CutLeaf(n) ==
  /\ Between /\ token \in Cuts
  /\ heap' = LinkEndChild(New(heap, n, LeafKind, LeafName, Top), Top, n)
  /\ read' = Append(read, token)
  /\ IF token.name \in {"comment", "unknown"}
     THEN token' = Eof /\ UNCHANGED lost
     ELSE UNCHANGED token /\ lost' = TRUE
  /\ UNCHANGED <<mode, open, inTag, blank, error, files>>

\* ReadValue makes a text of what does not begin with '<'.
StartText(n) ==
  /\ Between /\ open # <<>> /\ token \in TextTokens
  /\ heap' = New(heap, n, "text", Text.name, Top)
  /\ open' = Append(open, n)
  /\ blank' = (token = BlankText)
  /\ Advance(FALSE)
  /\ NoError /\ UNCHANGED <<mode, inTag, files>>

MoreText ==
  /\ Parsing /\ InText /\ token \in TextTokens
  /\ blank' = (blank /\ token = BlankText)
  /\ Advance(FALSE)
  /\ NoError /\ UNCHANGED <<heap, mode, open, inTag, files>>

\* ReadText has come to a '<', or to the end of the file, for which it returns 0.  A text
\* that is blank is deleted.
EndText ==
  /\ Parsing /\ InText /\ token \notin TextTokens \cup {Space}
  /\ IF blank THEN heap' = Free(heap, {Top}) /\ open' = Outer ELSE LinkTop
  /\ blank' = FALSE /\ lost' = (token = Eof)
  /\ Stay /\ UNCHANGED <<mode, inTag, error, files>>

\* Mutant: any end tag ends the element.
EndElementAny ==
  /\ Between /\ open # <<>> /\ token \in EndTags
  /\ LinkTop /\ Advance(FALSE) /\ NoError
  /\ UNCHANGED <<mode, inTag, blank, files>>

EndElement ==
  /\ Between /\ open # <<>> /\ token \in EndTags
  /\ IF token.name = heap.name[Top]
     THEN LinkTop /\ Advance(FALSE) /\ NoError
     ELSE Fail("READING_END_TAG") /\ Stay /\ UNCHANGED <<heap, open>>
  /\ UNCHANGED <<mode, inTag, blank, files>>

\* ReadValue comes to the end of the file: SkipWhiteSpace returns 0 if there was no white
\* space to skip, and the place behind it if there was.
NoEndTag ==
  /\ Between /\ open # <<>> /\ token = Eof
  /\ Fail(IF read[Len(read)] = Space THEN "READING_END_TAG" ELSE "READING_ELEMENT_VALUE")
  /\ Stay /\ UNCHANGED <<heap, mode, open, inTag, blank, files>>

\* A Parse has returned 0, to ReadValue (which sets an error if there is none) or to
\* TiXmlDocument::Parse.
ReturnNull ==
  /\ mode \in {"load", "reload"} /\ lost /\ open # <<>>
  /\ LinkTop
  /\ SetError("READING_ELEMENT_VALUE")
  /\ inTag' = FALSE
  /\ Stay /\ UNCHANGED <<mode, blank, lost, files>>

\* TiXmlDocument::Parse ends: at the end of the file, at a null pointer, and where
\* Identify does not find a '<'.
EndDocument ==
  /\ mode \in {"load", "reload"} /\ open = <<>>
  /\ lost \/ token \in TextTokens \cup {Eof}
  /\ IF heap.first[Doc] = Null THEN SetError("DOCUMENT_EMPTY") ELSE UNCHANGED error
  /\ mode' = IF mode = "load" THEN "loaded" ELSE "reloaded"
  /\ Stay /\ UNCHANGED <<heap, open, inTag, blank, lost, files>>

-----------------------------------------------------------------------------
(* The application, once the document is loaded.                           *)

Size(h) ==
  Cardinality(Live(h) \ {Doc})
    + Cardinality(UNION {{<<e, i>> : i \in DOMAIN h.attrs[e]} : e \in Live(h)})

Edit(h) ==
  /\ Size(h) <= MaxSize \/ Size(h) < Size(heap)
  /\ heap' = h
  /\ UNCHANGED <<mode, parserVars, files>>

\* The application keeps the document, whatever the load came to.
Keep ==
  /\ mode \in {"loaded", "reloaded"}
  /\ mode' = "edit"
  /\ token' = Eof /\ read' = <<>> /\ lost' = FALSE /\ error' = "none"
  /\ saved' = <<>> /\ written' = NoDocument
  /\ UNCHANGED <<heap, open, inTag, blank>>

\* LinkEndChild of a new node.  A text that has no name is one of spaces, or of nothing.
AddChild(p, n) ==
  /\ mode = "edit" /\ Inner(heap.kind[p])
  /\ \/ \E name \in Names : Edit(LinkEndChild(New(heap, n, "element", name, Null), p, n))
     \/ \E name \in {Text.name, ""} : Edit(LinkEndChild(New(heap, n, "text", name, Null), p, n))

\* InsertEndChild, InsertBeforeChild, InsertAfterChild and ReplaceChild work on a copy of
\* any node of the document but the document itself.
InsertEndChild(p, src) ==
  /\ mode = "edit" /\ Inner(heap.kind[p]) /\ src # Doc
  /\ \E f \in Rooms(heap, src) : Edit(LinkEndChild(Clone(heap, src, f), p, f[src]))

InsertBeforeChild(x, src) ==
  /\ mode = "edit" /\ heap.parent[x] # Null /\ src # Doc
  /\ \E f \in Rooms(heap, src) : Edit(LinkBefore(Clone(heap, src, f), x, f[src]))

InsertAfterChild(x, src) ==
  /\ mode = "edit" /\ heap.parent[x] # Null /\ src # Doc
  /\ \E f \in Rooms(heap, src) : Edit(LinkAfter(Clone(heap, src, f), x, f[src]))

ReplaceChild(x, src) ==
  /\ mode = "edit" /\ heap.parent[x] # Null /\ src # Doc
  /\ \E f \in Rooms(heap, src) : Edit(ReplaceLink(Clone(heap, src, f), x, f[src]))

RemoveNode(x) ==
  /\ mode = "edit" /\ heap.parent[x] # Null
  /\ Edit(RemoveChild(heap, x))

ClearNode(p) ==
  /\ mode = "edit" /\ Inner(heap.kind[p])
  /\ Edit(Clear(heap, p))

SetAttribute(e, name, value) ==
  /\ mode = "edit" /\ heap.kind[e] = "element"
  /\ Edit(WithAttrs(e, SetAttr(heap.attrs[e], name, value)))

RemoveAttribute(e, name) ==
  /\ mode = "edit" /\ heap.kind[e] = "element"
  /\ Edit(WithAttrs(e, SelectSeq(heap.attrs[e], LAMBDA attr : attr.name # name)))

\* A text: spaces are printed as they are (line ends, which EncodeString makes references
\* to, are not among the texts of blanks here).
PrintedText(name) == IF name = "" THEN Space ELSE Text

\* Mutant: an element that has attributes is printed without its children.
PrintedNodeEmpty(h, n, content) ==
  CASE h.kind[n] = "element" ->
         <<Token("open", h.name[n])>>
           \o [i \in DOMAIN Iterated(h.attrs[n]) |-> AttrToken(Iterated(h.attrs[n])[i])]
           \o (IF h.first[n] = Null \/ h.attrs[n] # <<>> THEN <<TagEmpty>>
               ELSE <<TagClose>> \o content \o <<Token("close", h.name[n])>>)
    [] h.kind[n] = "text" -> <<PrintedText(h.name[n])>>
    [] h.kind[n] = "unknown" /\ h.name[n] # "" -> <<Token("close", h.name[n])>>
    [] OTHER -> <<Token("leaf", h.kind[n])>>

\* Print: what a node and the siblings behind it look like in a file.  Only elements print
\* their children; the name of an unknown that was an end tag is printed again.
PrintedNode(h, n, content) ==
  CASE h.kind[n] = "element" ->
         <<Token("open", h.name[n])>>
           \o [i \in DOMAIN Iterated(h.attrs[n]) |-> AttrToken(Iterated(h.attrs[n])[i])]
           \o (IF h.first[n] = Null THEN <<TagEmpty>>
               ELSE <<TagClose>> \o content \o <<Token("close", h.name[n])>>)
    [] h.kind[n] = "text" -> <<PrintedText(h.name[n])>>
    [] h.kind[n] = "unknown" /\ h.name[n] # "" -> <<Token("close", h.name[n])>>
    [] OTHER -> <<Token("leaf", h.kind[n])>>

Printed(h) ==
  LET from[n \in Pointers] ==
        IF n = Null THEN <<>>
        ELSE PrintedNode(h, n, from[h.first[n]]) \o from[h.next[n]]
  IN  from[h.first[Doc]]

\* The nodes of a document with no addresses: each with its children.
Outline(h) ==
  LET from[n \in Pointers] ==
        IF n = Null THEN <<>>
        ELSE <<[kind |-> h.kind[n], name |-> h.name[n], attrs |-> h.attrs[n],
                children |-> from[h.first[n]]]>> \o from[h.next[n]]
  IN  from[h.first[Doc]]

\* What can be written and not read again: two texts side by side, a text outside all
\* elements or of nothing but blanks, an end tag inside an element, an attribute without a
\* name; and no nodes at all.
Readable(h) ==
  /\ h.first[Doc] # Null
  /\ \A n \in Live(h) :
       /\ "" \notin NameOf(h.attrs[n])
       /\ h.kind[n] = "text" =>
            /\ h.name[n] # "" /\ h.parent[n] # Doc
            /\ h.next[n] # Null => h.kind[h.next[n]] # "text"
       /\ h.kind[n] = "unknown" /\ h.name[n] # "" => h.parent[n] = Doc

\* SaveFile, and LoadFile of the same file: Clear, and Parse.
SaveAndLoad ==
  /\ mode = "edit"
  /\ saved' = Printed(heap)
  /\ written' = [nodes |-> Outline(heap), readable |-> Readable(heap)]
  /\ heap' = Clear(heap, Doc)
  /\ mode' = "reload"
  /\ token' = IF saved' = <<>> THEN Eof ELSE saved'[1]
  /\ UNCHANGED <<read, open, inTag, blank, lost, error>>

Next ==
  \/ SkipWhiteSpace
  \/ \E n \in FreeNodes(heap) : StartElement(n)
  \/ Attribute \/ NoAttribute \/ EndOfStartTag \/ EmptyElement
  \/ \E n \in FreeNodes(heap) : Leaf(n)
  \/ \E n \in FreeNodes(heap) : CutLeaf(n)
  \/ \E n \in FreeNodes(heap) : StartText(n)
  \/ MoreText \/ EndText \/ EndElement \/ NoEndTag \/ ReturnNull \/ EndDocument
  \/ Keep
  \/ \E p \in Live(heap), n \in FreeNodes(heap) : AddChild(p, n)
  \/ \E p, src \in Live(heap) : InsertEndChild(p, src)
  \/ \E x, src \in Live(heap) : InsertBeforeChild(x, src)
  \/ \E x, src \in Live(heap) : InsertAfterChild(x, src)
  \/ \E x, src \in Live(heap) : ReplaceChild(x, src)
  \/ \E x \in Live(heap) : RemoveNode(x)
  \/ \E p \in Live(heap) : ClearNode(p)
  \/ \E e \in Live(heap), name \in AttrNames, value \in AttrValues : SetAttribute(e, name, value)
  \/ \E e \in Live(heap), name \in AttrNames : RemoveAttribute(e, name)
  \/ SaveAndLoad

Spec == Init /\ [][Next]_vars

-----------------------------------------------------------------------------
(* Properties.                                                             *)

\* At every moment of a load and after every change the links agree: first and last with
\* the ends of the list, next with prev, both with parent; and no node is below itself
\* or its own sibling.
TreeLinked == LinksConsistent(heap, Unlinked) /\ NoRing(heap.parent) /\ NoRing(heap.next)

\* The pointers implement ordered lists of children, in which a node is once, and copies
\* are copies of the whole subtree, also when it is copied into itself.
Forest ==
  INSTANCE XmlForest WITH
    Labels <- (Kinds \ {"free", "document"}) \X (Names \cup {"", Text.name}),
    label <- [n \in Addresses |-> <<heap.kind[n], heap.name[n]>>],
    kids <- [n \in Addresses |-> Children(heap, n)]

ImplementsForest == Forest!Spec

\* Whoever walks through the children of a node, forwards, backwards, by name or over the
\* elements, meets each of them once, in order: the i-th step comes to the child that has
\* i children that fit before it, and to none only when there are no more.
WalksMeetAll ==
  \A p \in Live(heap) :
    LET list == Children(heap, p)
        Found(name, elements) == {k \in DOMAIN list : Fits(heap, list[k], name, elements)}
        IsAt(n, i, found) ==
          IF n = Null THEN Cardinality(found) <= i
          ELSE \E k \in found : n = list[k] /\ Cardinality({j \in found : j < k}) = i
    IN  /\ ChildrenBack(heap, p) = list
        /\ \A name \in Names \cup {""}, i \in 0 .. Len(list) :
             /\ IsAt(Child(heap, p, name, i), i, Found(name, FALSE))
             /\ IsAt(ChildElement(heap, p, name, i), i, Found(name, TRUE))

\* What a file looks like when it is printed: no white space and no text of blanks, texts
\* in one, an element without content as one tag, nothing cut off.
Normal(file) ==
  LET upTo[i \in 0 .. Len(file)] ==
        IF i = 0 THEN <<>>
        ELSE LET t == file[i]
                 sofar == upTo[i - 1]
                 end == IF sofar = <<>> THEN Space ELSE sofar[Len(sofar)]
             IN  CASE t \in {Space, BlankText} \/ (t = Text /\ end = Text) -> sofar
                   [] t.t = "close" /\ end = TagClose ->
                        Append(SubSeq(sofar, 1, Len(sofar) - 1), TagEmpty)
                   [] t.t = "cut" -> Append(sofar, Token("leaf", t.name))
                   [] OTHER -> Append(sofar, t)
  IN  upTo[Len(file)]

\* A file that is loaded without an error is in the document, all that was read of it but
\* for text of blanks, and nothing else; and all of it was read, but for what follows text
\* outside the elements, or a leaf outside them that is cut off.
NothingLost ==
  mode = "loaded" /\ error = "none" =>
    Printed(heap) = Normal(read) /\ token \in {Eof} \cup TextTokens \cup Cuts

\* A document that is saved is loaded again without an error, and is the same.
SavedIsLoaded ==
  mode = "reloaded" /\ written.readable => error = "none" /\ Outline(heap) = written.nodes
=============================================================================
