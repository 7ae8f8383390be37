---------------------------- MODULE MCXmlDocument ----------------------------
(***************************************************************************)
(* A small instance of XmlDocument, and of XmlText with the bytes and      *)
(* characters that are special to it.                                      *)
(***************************************************************************)
EXTENDS XmlDocument, XmlText, TLC

\* x & # ; < " ' blank, carriage return
MCTextBytes == {120, 38, 35, 59, 60, 34, 39, 32, 13}

\* a, tab, line feed, carriage return, e acute, a byte order mark
MCCharacters == {<<97>>, <<9>>, <<10>>, <<13>>, <<195, 169>>, <<239, 187, 191>>}

Symmetry == Permutations(Nodes)

\* What XmlText states is the same in all states: the first ones of a run will do.
AtStart == mode = "load" /\ read = <<>>

\* EncodeString and QuoteOf on the one side and ReadText with GetEntity on the other undo
\* each other: a value that SaveFile writes is what Parse reads, to the byte in an attribute,
\* whatever quotes, tags, entities and line ends it has in it, and up to its blanks in a
\* text; but for what has the beginning of a hexadecimal reference in it.
TextReadBack == AtStart => ValuesReadBack

\* TiXmlParsingData::Stamp gives a node or an error the row and column that it has in the
\* file on the disk, whatever its line ends, wherever the parser stamped before.
PlacesRight == AtStart => PlacesAgree
=============================================================================
