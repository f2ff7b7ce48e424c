------------------------ MODULE ConfigurationReader ------------------------
(***************************************************************************)
(* How a configuration artifact becomes a structural representation        *)
(* (parsing/readers, parsing/ir_builder.py, parsing/tokenizer.py).         *)
(*                                                                         *)
(* A document is a sequence of lines.  A line is its indentation, a flaw   *)
(* the readers test for ("mixed" tabs and spaces, or "long": over the      *)
(* 16 KiB line limit), and its words.  Words are opaque; Pieces gives the  *)
(* parts of the few words the code looks into: a banner delimiter with the *)
(* text glued to it, or the "!" that starts a comment.                     *)
(*                                                                         *)
(* The CLI readers go through the lines one by one, as in the code, with a *)
(* builder that holds the nodes read and the stack of nodes that can still *)
(* be parents.                                                             *)
(***************************************************************************)
EXTENDS Naturals, Sequences, FiniteSets, SequencesExt

CONSTANTS
  Pieces,         \* the parts of a word, for words the readers look into
  MaxNodes,       \* MAX_NODE_COUNT (20,000)
  MaxDepth,       \* MAX_DEPTH (64, and 16 for FortiOS, whose depth is at most 3)
  MaxBlockLines,  \* MAX_OPAQUE_BLOCK_LINES (4,096)
  MaxTreeDepth    \* MAX_XML_DEPTH, MAX_JSON_DEPTH (64)

ASSUME ReaderLimits ==
  MaxNodes \in Nat \ {0} /\ MaxDepth \in Nat \ {0} /\ MaxBlockLines \in Nat \ {0} /\ MaxTreeDepth \in Nat

\* A word is its parts, and the word that starts a banner has no others.
ASSUME PiecesAssumption ==
  /\ \A w \in DOMAIN Pieces : Pieces[w] \in Seq(Range(Pieces[w])) /\ Pieces[w] # <<>>
  /\ "banner" \notin DOMAIN Pieces

\* A text is a sequence of lines, each of which is indented by some columns and is a
\* sequence of words.
IsText(lines) ==
  /\ lines \in Seq(Range(lines))
  /\ \A i \in DOMAIN lines : lines[i].indent \in Nat /\ lines[i].words \in Seq(Range(lines[i].words))

NoCommand == ""

PiecesOf(w) == IF w \in DOMAIN Pieces THEN Pieces[w] ELSE <<w>>

Tokens(words) ==
  LET negated == words # <<>> /\ Head(words) = "no"
      rest == IF negated THEN Tail(words) ELSE words
  IN IF rest = <<>> THEN [command |-> NoCommand, args |-> <<>>, negated |-> negated]
     ELSE [command |-> Head(rest), args |-> Tail(rest), negated |-> negated]

----------------------------------------------------------------------------
(* The builder.  A node is known by its number in document order, the      *)
(* stack by the numbers on it: its top is the largest.                     *)

EmptyBuilder == [nodes |-> <<>>, stack |-> {}, next |-> 1, truncated |-> FALSE, halted |-> FALSE]

Full(b) == Len(b.nodes) >= MaxNodes

\* A node before it has a place: its context are its ancestors.
Draft(kind, tokens, indent, status, first, last) ==
  [kind |-> kind, command |-> tokens.command, args |-> tokens.args,
   negated |-> tokens.negated, indent |-> indent, status |-> status,
   first |-> first, last |-> last, context |-> {}]

\* Mutant: A dedent to a level nobody opened is taken for the level below it.
AddNodeUnevenly(b, draft, forceRoot, canParent) ==
  IF Full(b) THEN b
  ELSE LET outer == IF forceRoot \/ draft.indent = 0 THEN {}
                    ELSE {n \in b.stack : b.nodes[n].indent < draft.indent}
       IN [b EXCEPT !.nodes = Append(@, [draft EXCEPT !.context = outer]),
                    !.stack = outer \cup (IF canParent THEN {Len(b.nodes) + 1} ELSE {})]

\* A node goes under the innermost open node that is indented less.  One that
\* dedents between two levels, has no parent or is too deep is PARTIAL.
AddNode(b, draft, forceRoot, canParent) ==
  IF Full(b) THEN b
  ELSE LET IndentOf(n) == b.nodes[n].indent
           DepthOf(n) == Cardinality(b.nodes[n].context)
           atRoot == forceRoot \/ draft.indent = 0
           outer == IF atRoot THEN {} ELSE {n \in b.stack : IndentOf(n) < draft.indent}
           uneven == /\ b.stack # {}
                     /\ draft.indent < IndentOf(Max(b.stack))
                     /\ \A n \in b.stack : IndentOf(n) # draft.indent
           deep == outer # {} /\ DepthOf(Max(outer)) >= MaxDepth
           context == IF deep THEN {n \in outer : DepthOf(n) < MaxDepth} ELSE outer
           partial == deep \/ (~atRoot /\ (uneven \/ outer = {}))
           node == [draft EXCEPT !.context = context,
                                 !.status = IF partial THEN "partial" ELSE @]
       IN [b EXCEPT !.nodes = Append(@, node),
                    !.stack = context \cup (IF canParent THEN {Len(b.nodes) + 1} ELSE {})]

ResetContext(b) == [b EXCEPT !.stack = {}]

----------------------------------------------------------------------------
(* The reader of indented command lines (Cisco IOS XE, Arista EOS, any).   *)

IsComment(words) == Head(PiecesOf(Head(words))) = "!"

IsBanner(words) == Head(words) = "banner"

IsCertificateChain(words) == IsPrefix(<<"crypto", "pki", "certificate", "chain">>, words)

\* The delimiter is the first piece of the third word; the rest of the line may
\* already hold the closing one.
BannerDelimiter(words) == Head(PiecesOf(words[3]))

AfterDelimiter(words) ==
  Tail(PiecesOf(words[3])) \o FlattenSeq([k \in 1 .. Len(words) - 3 |-> PiecesOf(words[k + 3])])

ClosesBanner(lines, i, k) ==
  LET words == lines[i].words IN
  /\ Len(words) >= 3
  /\ IF k = i THEN BannerDelimiter(words) \in ToSet(AfterDelimiter(words))
     ELSE \E w \in ToSet(lines[k].words) : BannerDelimiter(words) \in ToSet(PiecesOf(w))

ClosesChain(lines, i, k) == k > i /\ lines[k].words = <<"quit">>

\* A banner or certificate chain is one OPAQUE node up to its closing line;
\* without one in reach the reader stops after the lines it looked at.
ReadBlock(b, lines, i) ==
  LET limit == Min({Len(lines), i + MaxBlockLines - 1})
      closers == {k \in i .. limit : IF IsBanner(lines[i].words) THEN ClosesBanner(lines, i, k)
                                     ELSE ClosesChain(lines, i, k)}
      complete == closers # {}
      end == IF complete THEN Min(closers) ELSE limit
      cut == \/ ~complete /\ limit < Len(lines)
             \/ \E k \in i .. end : lines[k].flaw = "long"
      status == IF complete /\ ~cut THEN "opaque" ELSE "partial"
      draft == Draft("opaque", Tokens(lines[i].words), lines[i].indent, status, i, end)
  IN [AddNode(b, draft, FALSE, FALSE) EXCEPT
        !.next = end + 1, !.halted = ~complete, !.truncated = @ \/ cut]

\* A comment ends every open context and is a node of its own at the root.
ReadComment(b, line, i) ==
  LET long == line.flaw = "long"
      status == IF long THEN "partial" ELSE "parsed"
      none == [command |-> NoCommand, args |-> <<>>, negated |-> FALSE]
  IN [AddNode(ResetContext(b), Draft("comment", none, 0, status, i, i), TRUE, FALSE) EXCEPT
        !.truncated = @ \/ long]

ReadStatement(b, line, i) ==
  LET tokens == Tokens(line.words)
      status == IF line.flaw # "none" THEN "partial"
                ELSE IF tokens.command = NoCommand THEN "unresolved"
                ELSE "parsed"
  IN [AddNode(b, Draft("statement", tokens, line.indent, status, i, i), FALSE, TRUE) EXCEPT
        !.truncated = @ \/ line.flaw = "long"]

\* One turn of the loop: line i, unless a block has taken it or the reader has
\* stopped.
ReadLine(b, lines, i) ==
  LET words == lines[i].words IN
  IF b.halted \/ i < b.next THEN b
  ELSE IF Full(b) THEN [b EXCEPT !.halted = TRUE, !.truncated = TRUE]
  ELSE IF words = <<>> THEN b
  ELSE IF IsComment(words) THEN ReadComment(b, lines[i], i)
  ELSE IF IsBanner(words) \/ IsCertificateChain(words) THEN ReadBlock(b, lines, i)
  ELSE ReadStatement(b, lines[i], i)

\* What has been built after so many lines.
BuiltFrom(lines) ==
  LET built[i \in 0 .. Len(lines)] == IF i = 0 THEN EmptyBuilder ELSE ReadLine(built[i - 1], lines, i)
  IN built

ReadIndented(doc) ==
  LET b == BuiltFrom(doc.lines)[Len(doc.lines)]
  IN [nodes |-> b.nodes, truncated |-> b.truncated \/ doc.cut, refused |-> FALSE]

----------------------------------------------------------------------------
(* The FortiOS reader derives the nesting from config, edit, next and end; *)
(* indentation is not looked at.  Over MaxNodes it drops nodes silently.   *)

OutsideConfig == [config |-> FALSE, depth |-> 0, edit |-> FALSE, editDepth |-> 0]

\* Where the sections stand after a line with this command.
SectionAfter(s, command) ==
  CASE command = "config" ->
         [s EXCEPT !.config = TRUE, !.edit = FALSE, !.depth = IF s.config THEN 1 ELSE 0]
    [] command = "edit" /\ s.config -> [s EXCEPT !.edit = TRUE, !.editDepth = s.depth + 1]
    [] command = "next" /\ s.edit -> [s EXCEPT !.edit = FALSE]
    [] command = "end" -> [s EXCEPT !.config = FALSE, !.edit = FALSE]
    [] OTHER -> s

\* The statement a line becomes: its indentation and whether it was understood.
FortiosDraft(s, tokens, i) ==
  LET after == SectionAfter(s, tokens.command)
      As(t, indent, status) == Draft("statement", t, indent, status, i, i)
      Bare == [tokens EXCEPT !.args = <<>>, !.negated = FALSE]
  IN CASE tokens.command = "config" -> As([tokens EXCEPT !.negated = FALSE], after.depth, "parsed")
       [] tokens.command = "edit" /\ s.config -> As([tokens EXCEPT !.negated = FALSE], after.editDepth, "parsed")
       [] tokens.command = "next" /\ s.edit -> As(Bare, s.editDepth, "parsed")
       [] tokens.command = "end" -> As(Bare, 0, "parsed")
       [] tokens.command \in {"set", "unset"} /\ s.config ->
            As([tokens EXCEPT !.negated = (tokens.command = "unset")],
               IF s.edit THEN s.editDepth + 1 ELSE s.depth + 1, "parsed")
       [] OTHER -> As(tokens, 0, "unresolved")

\* Only config, edit, set and a line without a command can be parents.
FortiosLine(acc, lines, i) ==
  LET words == lines[i].words
      tokens == Tokens(words)
      draft == FortiosDraft(acc.sections, tokens, i)
      canParent == \/ draft.status = "parsed" /\ tokens.command \in {"config", "edit", "set", "unset"}
                   \/ tokens.command = NoCommand
  IN IF words = <<>> \/ Head(PiecesOf(Head(words))) = "#" THEN acc
     ELSE [builder |-> AddNode(acc.builder, draft, tokens.command = "end", canParent),
           sections |-> SectionAfter(acc.sections, tokens.command)]

SectionsFrom(lines) ==
  LET built[i \in 0 .. Len(lines)] ==
        IF i = 0 THEN [builder |-> EmptyBuilder, sections |-> OutsideConfig]
        ELSE FortiosLine(built[i - 1], lines, i)
  IN built

ReadFortios(doc) ==
  [nodes |-> SectionsFrom(doc.lines)[Len(doc.lines)].builder.nodes, truncated |-> doc.cut, refused |-> FALSE]

----------------------------------------------------------------------------
(* The XML and JSON readers.  A document is given by its elements in       *)
(* document order, one per line, indented by their depth; the words are    *)
(* the name and the text.  The root object of a JSON document, which has   *)
(* no name, is its first line.                                             *)

Enclosing(lines, i) ==
  LET outer == {k \in 1 .. i - 1 : lines[k].indent < lines[i].indent}
  IN IF outer = {} THEN 0 ELSE Max(outer)

\* How many siblings up to line i have its name.
Occurrence(lines, i) ==
  Cardinality({k \in 1 .. i : /\ Enclosing(lines, k) = Enclosing(lines, i)
                              /\ Head(lines[k].words) = Head(lines[i].words)})

PathTo(lines) ==
  LET path[i \in 0 .. Len(lines)] ==
        IF i = 0 THEN <<>>
        ELSE Append(path[Enclosing(lines, i)], <<Head(lines[i].words), Occurrence(lines, i)>>)
  IN path

\* The elements within the bounds, each under the number of its line.
TreeNodes(lines) ==
  LET path == PathTo(lines)
      shallow == {i \in 1 .. Len(lines) : lines[i].indent <= MaxTreeDepth}
      kept == {i \in shallow : Cardinality(shallow \cap 1 .. i) <= MaxNodes}
  IN [i \in kept |-> [first |-> i, last |-> i, path |-> path[i], text |-> Tail(lines[i].words),
                      parent |-> Enclosing(lines, i)]]

TreeTruncated(doc) ==
  \/ DOMAIN TreeNodes(doc.lines) # DOMAIN doc.lines
  \/ \E i \in 1 .. Len(doc.lines) : doc.lines[i].flaw = "long"

\* One root, and no element below a level that is not open.
WellNested(lines) ==
  /\ lines # <<>>
  /\ \A i \in 1 .. Len(lines) :
       IF i = 1 THEN lines[i].indent = 0
       ELSE lines[i].indent \in 1 .. lines[i - 1].indent + 1

Refused == [nodes |-> <<>>, truncated |-> FALSE, refused |-> TRUE]

\* Malformed documents, those that were cut among them, document type declarations
\* and repeated JSON properties raise ValueError.
ReadTree(doc) ==
  IF \/ doc.cut \/ ~WellNested(doc.lines)
     \/ doc.shape = "xml" /\ Head(doc.lines[1].words) = "<!DOCTYPE"
     \/ doc.shape = "json" /\ \E i \in 1 .. Len(doc.lines) : Occurrence(doc.lines, i) > 1
  THEN Refused
  ELSE [nodes |-> TreeNodes(doc.lines), truncated |-> TreeTruncated(doc), refused |-> FALSE]

----------------------------------------------------------------------------
(* parse_configuration_text: the reader registry.                          *)

Read(reader, doc) ==
  CASE reader = "indentation_cli" -> ReadIndented(doc)
    [] reader = "fortios_cli" -> ReadFortios(doc)
    [] reader = "xml_tree" /\ doc.shape = "xml" -> ReadTree(doc)
    [] reader = "json_tree" /\ doc.shape = "json" -> ReadTree(doc)
    [] OTHER -> Refused
=============================================================================
