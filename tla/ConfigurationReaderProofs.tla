---------------------- MODULE ConfigurationReaderProofs ----------------------
(***************************************************************************)
(* Lemmas about ConfigurationReader: what the readers make of every text.  *)
(***************************************************************************)
EXTENDS ConfigurationReader, SequenceTheorems, FiniteSetTheorems, WellFoundedInduction, TLAPS

----------------------------------------------------------------------------
(* Numbers.                                                                *)

\* Of the numbers of a set one is the smallest (Min, of the readers and rules).
LEMMA SmallestExists ==
  ASSUME NEW S, S \subseteq Nat, S # {}
  PROVE  \E m \in S : \A x \in S : m <= x
<1> DEFINE R == {p \in Nat \X Nat : p[1] < p[2]}
<1>1. IsWellFoundedOn(R, Nat)
  BY NatLessThanWellFounded DEF OpToRel
<1>2. \E m \in S : \A x \in S : ~(<<x, m>> \in R)
  <2> HIDE DEF R
  <2> QED BY <1>1, WFMin
<1>3. \E m \in S : \A x \in S : ~(x < m)
  BY <1>2
<1> QED BY <1>3

\* The smallest of a set of numbers is one of them.
LEMMA MinIsSmallest ==
  ASSUME NEW S, S \subseteq Nat, S # {}
  PROVE  Min(S) \in S /\ \A x \in S : Min(S) <= x
BY SmallestExists DEF Min

\* The largest of a bounded set of numbers is one of them: the top of the stack.
LEMMA MaxIsLargest ==
  ASSUME NEW n \in Nat, NEW S, S \subseteq 0 .. n, S # {}
  PROVE  Max(S) \in S /\ \A x \in S : x <= Max(S)
<1> DEFINE T == {n - x : x \in S}
<1>1. T \subseteq Nat /\ T # {}
  <2>1. \A x \in S : n - x \in Nat
    OBVIOUS
  <2> QED BY <2>1
<1>2. PICK m \in T : \A x \in T : m <= x
  <2> HIDE DEF T
  <2> QED BY <1>1, SmallestExists
<1>3. PICK y \in S : m = n - y
  BY <1>2
<1>4. \A x \in S : x <= y
  <2> SUFFICES ASSUME NEW x \in S PROVE x <= y
    OBVIOUS
  <2>1. n - x \in T
    OBVIOUS
  <2>2. n - y <= n - x
    BY <1>2, <1>3, <2>1
  <2> QED BY <2>2
<1> QED BY <1>4 DEF Max

----------------------------------------------------------------------------
(* The readers go from line to line.                                       *)

\* What is built from a text is built line by line (the loop of IndentationCliReader).
LEMMA BuiltFromSteps ==
  ASSUME NEW lines, Len(lines) \in Nat
  PROVE  /\ BuiltFrom(lines)[0] = EmptyBuilder
         /\ \A i \in 1 .. Len(lines) : BuiltFrom(lines)[i] = ReadLine(BuiltFrom(lines)[i - 1], lines, i)
<1> DEFINE Def(f, n) == f = [i \in 0 .. n |-> IF i = 0 THEN EmptyBuilder ELSE ReadLine(f[i - 1], lines, i)]
           bad == {n \in Nat : ~\E f : Def(f, n)}
<1>1. ASSUME bad # {} PROVE FALSE
  <2>1. PICK n \in bad : \A x \in bad : n <= x
    <3>1. bad \subseteq Nat
      OBVIOUS
    <3> HIDE DEF bad
    <3> QED BY <1>1, <3>1, SmallestExists
  <2>2. n # 0
    <3>1. Def([i \in 0 .. 0 |-> EmptyBuilder], 0)
      OBVIOUS
    <3> HIDE DEF Def
    <3> QED BY <2>1, <3>1
  <2>3. n - 1 \in Nat /\ ~(n <= n - 1)
    BY <2>1, <2>2
  <2>4. PICK f : Def(f, n - 1)
    BY <2>1, <2>3
  <2> DEFINE g == [i \in 0 .. n |-> IF i = n THEN ReadLine(f[n - 1], lines, n) ELSE f[i]]
  <2>5. Def(g, n)
    <3>1. \A i \in 0 .. n : g[i] = IF i = 0 THEN EmptyBuilder ELSE ReadLine(g[i - 1], lines, i)
      BY <2>2, <2>3, <2>4
    <3>2. g = [i \in 0 .. n |-> g[i]]
      OBVIOUS
    <3> HIDE DEF g
    <3> QED BY <3>1, <3>2
  <2> HIDE DEF Def, g
  <2> QED BY <2>1, <2>5
<1>2. \E f : Def(f, Len(lines))
  BY <1>1
<1>3. BuiltFrom(lines) = CHOOSE f : Def(f, Len(lines))
  BY DEF BuiltFrom
<1>4. Def(BuiltFrom(lines), Len(lines))
  <2> HIDE DEF Def
  <2> QED BY <1>2, <1>3
<1> QED BY <1>4

\* The same for the FortiOS reader, with the sections it is in.
LEMMA SectionsFromSteps ==
  ASSUME NEW lines, Len(lines) \in Nat
  PROVE  /\ SectionsFrom(lines)[0] = [builder |-> EmptyBuilder, sections |-> OutsideConfig]
         /\ \A i \in 1 .. Len(lines) : SectionsFrom(lines)[i] = FortiosLine(SectionsFrom(lines)[i - 1], lines, i)
<1> DEFINE start == [builder |-> EmptyBuilder, sections |-> OutsideConfig]
           Def(f, n) == f = [i \in 0 .. n |-> IF i = 0 THEN start ELSE FortiosLine(f[i - 1], lines, i)]
           bad == {n \in Nat : ~\E f : Def(f, n)}
<1>1. SectionsFrom(lines) = CHOOSE f : Def(f, Len(lines))
  BY DEF SectionsFrom
<1> HIDE DEF start
<1>2. ASSUME bad # {} PROVE FALSE
  <2>1. PICK n \in bad : \A x \in bad : n <= x
    <3>1. bad \subseteq Nat
      OBVIOUS
    <3> HIDE DEF bad
    <3> QED BY <1>2, <3>1, SmallestExists
  <2>2. n # 0
    <3>1. Def([i \in 0 .. 0 |-> start], 0)
      OBVIOUS
    <3> HIDE DEF Def
    <3> QED BY <2>1, <3>1
  <2>3. n - 1 \in Nat /\ ~(n <= n - 1)
    BY <2>1, <2>2
  <2>4. PICK f : Def(f, n - 1)
    BY <2>1, <2>3
  <2> DEFINE g == [i \in 0 .. n |-> IF i = n THEN FortiosLine(f[n - 1], lines, n) ELSE f[i]]
  <2>5. Def(g, n)
    <3>1. \A i \in 0 .. n : g[i] = IF i = 0 THEN start ELSE FortiosLine(g[i - 1], lines, i)
      BY <2>2, <2>3, <2>4
    <3>2. g = [i \in 0 .. n |-> g[i]]
      OBVIOUS
    <3> HIDE DEF g
    <3> QED BY <3>1, <3>2
  <2> HIDE DEF Def, g
  <2> QED BY <2>1, <2>5
<1>3. \E f : Def(f, Len(lines))
  BY <1>2
<1>4. Def(SectionsFrom(lines), Len(lines))
  <2> HIDE DEF Def
  <2> QED BY <1>1, <1>3
<1> QED BY <1>4 DEF start

----------------------------------------------------------------------------
(* The builder.                                                            *)

IsBuilder(b) ==
  /\ DOMAIN b = {"nodes", "stack", "next", "truncated", "halted"}
  /\ b.nodes \in Seq(Range(b.nodes)) /\ Len(b.nodes) <= MaxNodes
  /\ b.stack \subseteq DOMAIN b.nodes

\* The numbers of the nodes.
LEMMA NodeNumbers ==
  ASSUME NEW b, IsBuilder(b)
  PROVE  Len(b.nodes) \in Nat /\ DOMAIN b.nodes = 1 .. Len(b.nodes)
<1> DEFINE S == Range(b.nodes)
<1>1. b.nodes \in Seq(S)
  BY DEF IsBuilder
<1> HIDE DEF S
<1> QED BY <1>1, LenProperties

\* One more node in a sequence of nodes.
LEMMA OneMore ==
  ASSUME NEW s, s \in Seq(Range(s)), NEW e
  PROVE  /\ Len(s) \in Nat /\ DOMAIN s = 1 .. Len(s)
         /\ Append(s, e) \in Seq(Range(Append(s, e)))
         /\ Len(Append(s, e)) = Len(s) + 1 /\ DOMAIN Append(s, e) = 1 .. Len(s) + 1
         /\ \A n \in DOMAIN s : Append(s, e)[n] = s[n]
         /\ Append(s, e)[Len(s) + 1] = e
<1> DEFINE S == Range(s)
           T == S \cup {e}
           t == Append(s, e)
<1>1. Len(s) \in Nat /\ DOMAIN s = 1 .. Len(s)
  <2> HIDE DEF S
  <2> QED BY LenProperties DEF S
<1>2. s \in Seq(T)
  <2>1. s \in Seq(S) /\ S \subseteq T
    OBVIOUS
  <2> HIDE DEF S, T
  <2> QED BY <2>1, SeqMonotonic
<1>3. /\ t \in Seq(T) /\ Len(t) = Len(s) + 1
      /\ \A n \in 1 .. Len(s) : t[n] = s[n]
      /\ t[Len(s) + 1] = e
  <2>1. e \in T
    OBVIOUS
  <2> HIDE DEF T
  <2> QED BY <1>1, <1>2, <2>1
<1>4. DOMAIN t = 1 .. Len(s) + 1
  <2> HIDE DEF T
  <2> QED BY <1>3, LenProperties
<1>5. T \subseteq Range(t)
  <2>1. \A n \in DOMAIN s : s[n] \in Range(t)
    BY <1>1, <1>3, <1>4 DEF Range
  <2>2. e \in Range(t)
    BY <1>1, <1>3, <1>4 DEF Range
  <2> QED BY <2>1, <2>2 DEF Range
<1>6. t \in Seq(Range(t))
  <2> HIDE DEF T, t
  <2> QED BY <1>3, <1>5, SeqMonotonic
<1> QED BY <1>1, <1>3, <1>4, <1>6

\* What add_node does to the nodes and to the stack when there is room for a node.
Added(b, c, draft, forceRoot, canParent) ==
  LET new == Len(b.nodes) + 1
      x == c.nodes[new]
  IN /\ IsBuilder(c) /\ c.next = b.next /\ c.halted = b.halted
     /\ DOMAIN c.nodes = 1 .. new /\ \A n \in DOMAIN b.nodes : c.nodes[n] = b.nodes[n]
     /\ x = [draft EXCEPT !.context = x.context, !.status = x.status]
     /\ x.context \subseteq b.stack /\ x.status \in {draft.status, "partial"}
     /\ \A n \in x.context : ~forceRoot /\ b.nodes[n].indent < draft.indent
     /\ c.stack = x.context \cup (IF canParent THEN {new} ELSE {})

\* The node is put under open nodes that are indented less.
LEMMA AddNodeAdds ==
  ASSUME NEW b, IsBuilder(b), ~Full(b),
         NEW kind, NEW tokens, NEW indent, NEW status, NEW first, NEW last, NEW forceRoot, NEW canParent
  PROVE  LET draft == Draft(kind, tokens, indent, status, first, last) IN
         Added(b, AddNode(b, draft, forceRoot, canParent), draft, forceRoot, canParent)
<1> DEFINE draft == Draft(kind, tokens, indent, status, first, last)
           IndentOf(n) == b.nodes[n].indent
           DepthOf(n) == Cardinality(b.nodes[n].context)
           atRoot == forceRoot \/ draft.indent = 0
           outer == IF atRoot THEN {} ELSE {n \in b.stack : IndentOf(n) < draft.indent}
           uneven == /\ b.stack # {}
                     /\ draft.indent < IndentOf(Max(b.stack))
                     /\ \A n \in b.stack : IndentOf(n) # draft.indent
           deep == outer # {} /\ DepthOf(Max(outer)) >= MaxDepth
           context == IF deep THEN {n \in outer : DepthOf(n) < MaxDepth} ELSE outer
           partial == deep \/ (~atRoot /\ (uneven \/ outer = {}))
           node == [draft EXCEPT !.context = context,
                                 !.status = IF partial THEN "partial" ELSE @]
           new == Len(b.nodes) + 1
           c == [b EXCEPT !.nodes = Append(@, node),
                          !.stack = context \cup (IF canParent THEN {Len(b.nodes) + 1} ELSE {})]
<1>1. c = AddNode(b, draft, forceRoot, canParent)
  BY DEF AddNode
<1>2. /\ node = [draft EXCEPT !.context = node.context, !.status = node.status]
      /\ node.context = context /\ node.status \in {draft.status, "partial"}
  <2> HIDE DEF context, partial
  <2> QED BY DEF Draft
<1>3. context \subseteq b.stack /\ \A n \in context : ~forceRoot /\ b.nodes[n].indent < draft.indent
  <2>1. outer \subseteq b.stack /\ \A n \in outer : ~forceRoot /\ b.nodes[n].indent < draft.indent
    OBVIOUS
  <2> HIDE DEF outer, draft
  <2> QED BY <2>1
<1> HIDE DEF node, context
<1>4. /\ c.nodes = Append(b.nodes, node) /\ c.next = b.next /\ c.halted = b.halted
      /\ c.stack = context \cup (IF canParent THEN {new} ELSE {})
      /\ DOMAIN c = {"nodes", "stack", "next", "truncated", "halted"}
  BY DEF IsBuilder
<1>5. /\ Len(b.nodes) \in Nat /\ DOMAIN b.nodes = 1 .. Len(b.nodes)
      /\ c.nodes \in Seq(Range(c.nodes)) /\ DOMAIN c.nodes = 1 .. new /\ Len(c.nodes) = new
      /\ \A n \in DOMAIN b.nodes : c.nodes[n] = b.nodes[n]
      /\ c.nodes[new] = node
  <2> HIDE DEF c
  <2> QED BY <1>4, OneMore DEF IsBuilder
<1>6. IsBuilder(c)
  <2>1. Len(c.nodes) <= MaxNodes
    BY <1>5, ReaderLimits DEF Full
  <2> HIDE DEF c
  <2> QED BY <1>3, <1>4, <1>5, <2>1 DEF IsBuilder
<1>7. Added(b, c, draft, forceRoot, canParent)
  <2> HIDE DEF c, draft
  <2> QED BY <1>2, <1>3, <1>4, <1>5, <1>6 DEF Added
<1> QED BY <1>1, <1>7

\* Of the first k lines: nodes in the order of their lines, under statements.
Ordered(b, k) ==
  /\ IsBuilder(b)
  /\ \A n \in DOMAIN b.nodes :
       /\ b.nodes[n].first \in 1 .. k /\ b.nodes[n].last \in b.nodes[n].first .. k
       /\ b.nodes[n].context \subseteq {m \in 1 .. n - 1 : b.nodes[m].kind = "statement"}
  /\ \A n, m \in DOMAIN b.nodes : n < m => b.nodes[n].last < b.nodes[m].first
  /\ \A n \in b.stack : b.nodes[n].kind = "statement"

\* The nodes of c are those of b and perhaps more.
Extends(c, b) ==
  /\ DOMAIN b.nodes \subseteq DOMAIN c.nodes
  /\ \A n \in DOMAIN b.nodes : c.nodes[n] = b.nodes[n]

\* A new node comes after those there are.
LEMMA AddNodeOrdered ==
  ASSUME NEW b, NEW k \in Nat, Ordered(b, k),
         NEW kind, NEW tokens, NEW indent, NEW status, NEW first \in Nat, NEW last \in Nat,
         k < first, first <= last, NEW forceRoot, NEW canParent, canParent => kind = "statement"
  PROVE  LET c == AddNode(b, Draft(kind, tokens, indent, status, first, last), forceRoot, canParent) IN
         /\ Ordered(c, last) /\ Extends(c, b)
         /\ c.next = b.next /\ c.halted = b.halted
         /\ \/ Full(b) /\ c = b
            \/ \E n \in DOMAIN c.nodes :
                 /\ c.nodes[n].first = first /\ c.nodes[n].last = last /\ c.nodes[n].kind = kind
                 /\ c.nodes[n].status \in {status, "partial"}
<1> DEFINE draft == Draft(kind, tokens, indent, status, first, last)
           c == AddNode(b, draft, forceRoot, canParent)
           new == Len(b.nodes) + 1
<1>1. CASE Full(b)
  <2>1. c = b
    BY <1>1 DEF AddNode
  <2>2. Ordered(b, last)
    <3>1. 1 .. k \subseteq 1 .. last /\ \A x \in 1 .. k : x .. k \subseteq x .. last
      OBVIOUS
    <3> QED BY <3>1 DEF Ordered
  <2> QED BY <1>1, <2>1, <2>2 DEF Extends
<1>2. CASE ~Full(b)
  <2>1. Added(b, c, draft, forceRoot, canParent)
    BY <1>2, AddNodeAdds DEF Ordered
  <2> DEFINE x == c.nodes[new]
  <2>2. Len(b.nodes) \in Nat /\ DOMAIN b.nodes = 1 .. Len(b.nodes)
    BY NodeNumbers DEF Ordered
  <2>3. /\ DOMAIN c.nodes = 1 .. new /\ (\A n \in DOMAIN b.nodes : c.nodes[n] = b.nodes[n])
        /\ x = [draft EXCEPT !.context = x.context, !.status = x.status]
        /\ x.context \subseteq b.stack /\ x.status \in {status, "partial"}
        /\ IsBuilder(c) /\ c.stack = x.context \cup (IF canParent THEN {new} ELSE {})
        /\ c.next = b.next /\ c.halted = b.halted
    BY <2>1 DEF Added, Draft
  <2> HIDE DEF c
  <2>4. x.first = first /\ x.last = last /\ x.kind = kind
    BY <2>3 DEF Draft
  <2> HIDE DEF x, draft
  <2>5. ASSUME NEW n \in DOMAIN c.nodes
        PROVE  /\ c.nodes[n].first \in 1 .. last /\ c.nodes[n].last \in c.nodes[n].first .. last
               /\ c.nodes[n].context \subseteq {m \in 1 .. n - 1 : c.nodes[m].kind = "statement"}
    <3>1. CASE n \in DOMAIN b.nodes
      <4>1. /\ b.nodes[n].first \in 1 .. k /\ b.nodes[n].last \in b.nodes[n].first .. k
            /\ b.nodes[n].context \subseteq {m \in 1 .. n - 1 : b.nodes[m].kind = "statement"}
        BY <3>1 DEF Ordered
      <4>2. 1 .. n - 1 \subseteq DOMAIN b.nodes
        BY <2>2, <3>1
      <4> QED BY <2>3, <3>1, <4>1, <4>2, SMTT(20)
    <3>2. CASE n = new
      <4>1. first \in 1 .. last /\ last \in first .. last
        OBVIOUS
      <4>2. \A m \in b.stack : m \in 1 .. new - 1 /\ b.nodes[m].kind = "statement"
        BY <2>2 DEF Ordered, IsBuilder
      <4> QED BY <2>2, <2>3, <2>4, <3>2, <4>1, <4>2 DEF x
    <3> QED BY <2>2, <2>3, <3>1, <3>2
  <2>6. ASSUME NEW n \in DOMAIN c.nodes, NEW m \in DOMAIN c.nodes, n < m
        PROVE  c.nodes[n].last < c.nodes[m].first
    <3>1. n \in DOMAIN b.nodes
      BY <2>2, <2>3, <2>6
    <3>2. CASE m \in DOMAIN b.nodes
      BY <2>3, <2>6, <3>1, <3>2 DEF Ordered
    <3>3. CASE m = new
      <4>1. b.nodes[n].first \in 1 .. k /\ b.nodes[n].last \in b.nodes[n].first .. k
        BY <3>1 DEF Ordered
      <4> QED BY <2>3, <2>4, <3>1, <3>3, <4>1 DEF x
    <3> QED BY <2>2, <2>3, <3>2, <3>3
  <2>7. \A n \in c.stack : c.nodes[n].kind = "statement"
    <3>1. \A n \in b.stack : n \in DOMAIN b.nodes /\ b.nodes[n].kind = "statement"
      BY DEF Ordered, IsBuilder
    <3> QED BY <2>3, <2>4, <3>1 DEF x
  <2>8. Ordered(c, last) /\ Extends(c, b)
    BY <2>2, <2>3, <2>5, <2>6, <2>7 DEF Ordered, Extends
  <2>9. new \in DOMAIN c.nodes
    BY <2>2, <2>3
  <2> QED BY <2>3, <2>4, <2>8, <2>9 DEF c, draft, x
<1> QED BY <1>1, <1>2

\* The order of the nodes is not touched by the rest of the builder.
LEMMA OrderedElsewhere ==
  ASSUME NEW b, NEW k \in Nat, Ordered(b, k), NEW c,
         DOMAIN c = DOMAIN b, c.nodes = b.nodes, c.stack \subseteq b.stack, NEW l \in Nat, k <= l
  PROVE  Ordered(c, l)
<1>1. IsBuilder(c)
  BY DEF Ordered, IsBuilder
<1>2. 1 .. k \subseteq 1 .. l /\ \A x \in 1 .. k : x .. k \subseteq x .. l
  OBVIOUS
<1> QED BY <1>1, <1>2 DEF Ordered

----------------------------------------------------------------------------
(* The reader of indented command lines accounts for every line.           *)

\* The line is in a node.
InNode(nodes, i) == \E n \in DOMAIN nodes : i \in nodes[n].first .. nodes[n].last

\* Nothing can be concluded any more: there is no room for nodes, or a block has no end.
Stuck(b) == Full(b) \/ \E n \in DOMAIN b.nodes : b.nodes[n].kind = "opaque" /\ b.nodes[n].status # "opaque"

\* The last line that has been looked at when the reader is at line i.
Reach(b, i) == IF b.next > i THEN b.next - 1 ELSE i

ReadSoFar(b, lines, i) ==
  /\ b.next \in Nat \ {0} /\ Reach(b, i) <= Len(lines)
  /\ Ordered(b, Reach(b, i))
  /\ b.halted => Stuck(b)
  /\ \A j \in 1 .. Reach(b, i) : lines[j].words = <<>> \/ InNode(b.nodes, j) \/ Stuck(b)

\* Where the parser stays stuck, and which lines are in nodes, when nodes are added.
LEMMA ExtensionKeeps ==
  ASSUME NEW b, NEW c, IsBuilder(b), IsBuilder(c), Extends(c, b)
  PROVE  /\ Stuck(b) => Stuck(c)
         /\ \A i : InNode(b.nodes, i) => InNode(c.nodes, i)
<1>1. /\ Len(b.nodes) \in Nat /\ DOMAIN b.nodes = 1 .. Len(b.nodes)
      /\ Len(c.nodes) \in Nat /\ DOMAIN c.nodes = 1 .. Len(c.nodes)
  BY NodeNumbers
<1>2. Len(b.nodes) <= Len(c.nodes)
  <2>1. CASE Len(b.nodes) = 0
    BY <1>1, <2>1
  <2>2. CASE Len(b.nodes) # 0
    <3>1. Len(b.nodes) \in 1 .. Len(c.nodes)
      BY <1>1, <2>2 DEF Extends
    <3> QED BY <3>1
  <2> QED BY <2>1, <2>2
<1>3. Full(b) => Full(c)
  BY <1>1, <1>2, ReaderLimits DEF Full
<1> QED BY <1>3 DEF Extends, Stuck, InNode

\* A line is read that becomes a node of its own or the first line of a block.
LEMMA LinesRead ==
  ASSUME NEW lines, IsText(lines), NEW i \in 1 .. Len(lines), NEW b, ReadSoFar(b, lines, i - 1),
         b.next <= i, NEW c, Ordered(c, Reach(c, i)), Extends(c, b),
         c.next \in Nat \ {0}, Reach(c, i) <= Len(lines), c.halted => Stuck(c),
         \A j \in i .. Reach(c, i) : lines[j].words = <<>> \/ InNode(c.nodes, j) \/ Stuck(c)
  PROVE  ReadSoFar(c, lines, i)
<1>1. Len(lines) \in Nat
  <2> DEFINE S == Range(lines)
  <2>1. lines \in Seq(S)
    BY DEF IsText
  <2> HIDE DEF S
  <2> QED BY <2>1, LenProperties
<1>2. Reach(b, i - 1) = i - 1
  BY <1>1 DEF ReadSoFar, Reach
<1>3. IsBuilder(b) /\ IsBuilder(c)
  BY DEF ReadSoFar, Ordered
<1>4. \A j \in 1 .. i - 1 : lines[j].words = <<>> \/ InNode(c.nodes, j) \/ Stuck(c)
  BY <1>2, <1>3, ExtensionKeeps DEF ReadSoFar
<1>5. Reach(c, i) \in Nat /\ i <= Reach(c, i)
  BY <1>1 DEF Reach
<1>6. \A j \in 1 .. Reach(c, i) : j \in 1 .. i - 1 \/ j \in i .. Reach(c, i)
  BY <1>1, <1>5
<1> QED BY <1>4, <1>6 DEF ReadSoFar

\* The number of lines.
LEMMA TextLength ==
  ASSUME NEW lines, IsText(lines)
  PROVE  Len(lines) \in Nat /\ DOMAIN lines = 1 .. Len(lines)
<1> DEFINE S == Range(lines)
<1>1. lines \in Seq(S)
  BY DEF IsText
<1> HIDE DEF S
<1> QED BY <1>1, LenProperties

\* A line that is read becomes part of a node, unless it is empty.
LEMMA ReadLineKeeps ==
  ASSUME NEW lines, IsText(lines), NEW i \in 1 .. Len(lines), NEW b, ReadSoFar(b, lines, i - 1)
  PROVE  ReadSoFar(ReadLine(b, lines, i), lines, i)
<1> DEFINE words == lines[i].words
<1>1. Len(lines) \in Nat /\ i \in Nat /\ i - 1 \in Nat /\ b.next \in Nat \ {0}
  BY TextLength DEF ReadSoFar
<1>2. IsBuilder(b)
  BY DEF ReadSoFar, Ordered
<1>3. Extends(b, b)
  BY DEF Extends
<1>4. CASE i < b.next
  <2>1. ReadLine(b, lines, i) = b
    BY <1>4 DEF ReadLine
  <2>2. Reach(b, i) = Reach(b, i - 1)
    BY <1>1, <1>4 DEF Reach
  <2> QED BY <2>1, <2>2 DEF ReadSoFar
<1>5. ASSUME b.next <= i
      PROVE  Reach(b, i - 1) = i - 1 /\ Reach(b, i) = i /\ Ordered(b, i - 1) /\ Ordered(b, i)
  <2>1. Reach(b, i - 1) = i - 1 /\ Reach(b, i) = i
    BY <1>1, <1>5 DEF Reach
  <2>2. Ordered(b, i - 1)
    BY <2>1 DEF ReadSoFar
  <2>3. Ordered(b, i)
    BY <1>1, <2>2, OrderedElsewhere
  <2> QED BY <2>1, <2>2, <2>3
<1>6. CASE b.next <= i /\ b.halted
  <2>1. ReadLine(b, lines, i) = b
    BY <1>6 DEF ReadLine
  <2>2. Stuck(b)
    BY <1>6 DEF ReadSoFar
  <2> QED BY <1>1, <1>3, <1>5, <1>6, <2>1, <2>2, LinesRead
<1>7. CASE b.next <= i /\ ~b.halted /\ Full(b)
  <2> DEFINE c == [b EXCEPT !.halted = TRUE, !.truncated = TRUE]
  <2>1. ReadLine(b, lines, i) = c
    BY <1>1, <1>7 DEF ReadLine
  <2>2. c.nodes = b.nodes /\ c.stack = b.stack /\ c.next = b.next /\ DOMAIN c = DOMAIN b
    BY <1>2 DEF IsBuilder
  <2> HIDE DEF c
  <2>3. Ordered(c, i) /\ Extends(c, b) /\ Stuck(c) /\ Reach(c, i) = i
    <3>1. Ordered(c, i)
      BY <1>1, <1>5, <1>7, <2>2, OrderedElsewhere
    <3> QED BY <1>5, <1>7, <2>2, <3>1 DEF Extends, Stuck, Full, Reach
  <2> QED BY <1>1, <1>7, <2>1, <2>2, <2>3, LinesRead
<1>8. CASE b.next <= i /\ ~b.halted /\ ~Full(b) /\ words = <<>>
  <2>1. ReadLine(b, lines, i) = b
    BY <1>1, <1>8 DEF ReadLine
  <2> QED BY <1>1, <1>3, <1>5, <1>8, <2>1, LinesRead
<1>9. CASE b.next <= i /\ ~b.halted /\ ~Full(b) /\ words # <<>> /\ IsComment(words)
  <2> DEFINE status == IF lines[i].flaw = "long" THEN "partial" ELSE "parsed"
             none == [command |-> NoCommand, args |-> <<>>, negated |-> FALSE]
             a == ResetContext(b)
             d == AddNode(a, Draft("comment", none, 0, status, i, i), TRUE, FALSE)
             c == ReadComment(b, lines[i], i)
  <2>1. ReadLine(b, lines, i) = c
    BY <1>1, <1>9 DEF ReadLine
  <2>2. a.nodes = b.nodes /\ a.stack = {} /\ a.next = b.next /\ a.halted = b.halted /\ DOMAIN a = DOMAIN b
    BY <1>2 DEF IsBuilder, ResetContext
  <2>3. Ordered(a, i - 1) /\ ~Full(a)
    <3> HIDE DEF a
    <3>1. Ordered(a, i - 1)
      BY <1>1, <1>5, <1>9, <2>2, OrderedElsewhere
    <3> QED BY <1>9, <2>2, <3>1 DEF Full
  <2>4. /\ Ordered(d, i) /\ Extends(d, a) /\ d.next = a.next /\ d.halted = a.halted
        /\ \E n \in DOMAIN d.nodes : d.nodes[n].first = i /\ d.nodes[n].last = i
    <3> DEFINE root == TRUE
               parent == FALSE
    <3>1. parent => "comment" = "statement"
      OBVIOUS
    <3> HIDE DEF a, none, status, root, parent
    <3>2. LET e == AddNode(a, Draft("comment", none, 0, status, i, i), root, parent) IN
          /\ Ordered(e, i) /\ Extends(e, a) /\ e.next = a.next /\ e.halted = a.halted
          /\ \E n \in DOMAIN e.nodes : e.nodes[n].first = i /\ e.nodes[n].last = i
      BY <1>1, <2>3, <3>1, AddNodeOrdered
    <3> QED BY <3>2 DEF root, parent
  <2>5. c = [d EXCEPT !.truncated = @ \/ lines[i].flaw = "long"]
    BY DEF ReadComment
  <2> HIDE DEF c, d, a
  <2>6. c.nodes = d.nodes /\ c.stack = d.stack /\ c.next = b.next /\ c.halted = b.halted /\ DOMAIN c = DOMAIN d
    BY <2>2, <2>4, <2>5 DEF Ordered, IsBuilder
  <2>7. Ordered(c, i) /\ Extends(c, b) /\ InNode(c.nodes, i) /\ Reach(c, i) = i
    <3>1. Ordered(c, i)
      BY <1>1, <2>4, <2>6, OrderedElsewhere
    <3>2. InNode(c.nodes, i)
      BY <1>1, <2>4, <2>6 DEF InNode
    <3> QED BY <1>5, <1>9, <2>2, <2>4, <2>6, <3>1, <3>2 DEF Extends, Reach
  <2> QED BY <1>1, <1>9, <2>1, <2>6, <2>7, LinesRead
<1>10. CASE b.next <= i /\ ~b.halted /\ ~Full(b) /\ words # <<>> /\ ~IsComment(words)
            /\ ~(IsBanner(words) \/ IsCertificateChain(words))
  <2> DEFINE tokens == Tokens(words)
             status == IF lines[i].flaw # "none" THEN "partial"
                       ELSE IF tokens.command = NoCommand THEN "unresolved" ELSE "parsed"
             d == AddNode(b, Draft("statement", tokens, lines[i].indent, status, i, i), FALSE, TRUE)
             c == ReadStatement(b, lines[i], i)
  <2>1. ReadLine(b, lines, i) = c
    BY <1>1, <1>10 DEF ReadLine
  <2>2. /\ Ordered(d, i) /\ Extends(d, b) /\ d.next = b.next /\ d.halted = b.halted
        /\ \E n \in DOMAIN d.nodes : d.nodes[n].first = i /\ d.nodes[n].last = i
    <3> DEFINE root == FALSE
               parent == TRUE
               indent == lines[i].indent
    <3>1. parent => "statement" = "statement"
      OBVIOUS
    <3> HIDE DEF tokens, status, root, parent, indent
    <3>2. LET e == AddNode(b, Draft("statement", tokens, indent, status, i, i), root, parent) IN
          /\ Ordered(e, i) /\ Extends(e, b) /\ e.next = b.next /\ e.halted = b.halted
          /\ \E n \in DOMAIN e.nodes : e.nodes[n].first = i /\ e.nodes[n].last = i
      BY <1>1, <1>5, <1>10, <3>1, AddNodeOrdered
    <3> QED BY <3>2 DEF root, parent, indent
  <2>3. c = [d EXCEPT !.truncated = @ \/ lines[i].flaw = "long"]
    BY DEF ReadStatement
  <2> HIDE DEF c, d
  <2>4. c.nodes = d.nodes /\ c.stack = d.stack /\ c.next = b.next /\ c.halted = b.halted /\ DOMAIN c = DOMAIN d
    BY <2>2, <2>3 DEF Ordered, IsBuilder
  <2>5. Ordered(c, i) /\ Extends(c, b) /\ InNode(c.nodes, i) /\ Reach(c, i) = i
    <3>1. Ordered(c, i)
      BY <1>1, <2>2, <2>4, OrderedElsewhere
    <3>2. InNode(c.nodes, i)
      BY <1>1, <2>2, <2>4 DEF InNode
    <3> QED BY <1>5, <1>10, <2>2, <2>4, <3>1, <3>2 DEF Extends, Reach
  <2> QED BY <1>1, <1>10, <2>1, <2>4, <2>5, LinesRead
<1>11. CASE b.next <= i /\ ~b.halted /\ ~Full(b) /\ words # <<>> /\ ~IsComment(words)
            /\ (IsBanner(words) \/ IsCertificateChain(words))
  <2> DEFINE limit == Min({Len(lines), i + MaxBlockLines - 1})
             closers == {k \in i .. limit : IF IsBanner(lines[i].words) THEN ClosesBanner(lines, i, k)
                                            ELSE ClosesChain(lines, i, k)}
             complete == closers # {}
             end == IF complete THEN Min(closers) ELSE limit
             cut == \/ ~complete /\ limit < Len(lines)
                    \/ \E k \in i .. end : lines[k].flaw = "long"
             status == IF complete /\ ~cut THEN "opaque" ELSE "partial"
             d == AddNode(b, Draft("opaque", Tokens(words), lines[i].indent, status, i, end), FALSE, FALSE)
             c == ReadBlock(b, lines, i)
  <2>1. ReadLine(b, lines, i) = c
    BY <1>1, <1>11 DEF ReadLine
  <2>2. limit \in i .. Len(lines)
    <3>1. i + MaxBlockLines - 1 \in Nat /\ i <= i + MaxBlockLines - 1
      BY <1>1, ReaderLimits
    <3>2. limit \in {Len(lines), i + MaxBlockLines - 1} /\ limit <= Len(lines)
      BY <1>1, <3>1, MinIsSmallest
    <3> HIDE DEF limit
    <3> QED BY <1>1, <3>1, <3>2
  <2>3. end \in i .. limit
    <3> HIDE DEF limit
    <3>1. CASE complete
      <4>1. closers \subseteq i .. limit /\ closers \subseteq Nat
        BY <1>1, <2>2
      <4> HIDE DEF closers
      <4> QED BY <3>1, <4>1, MinIsSmallest
    <3>2. CASE ~complete
      <4> HIDE DEF complete
      <4> QED BY <2>2, <3>2
    <3> QED BY <3>1, <3>2
  <2>4. end \in Nat /\ i <= end /\ end <= Len(lines)
    <3> HIDE DEF limit, end
    <3> QED BY <1>1, <2>2, <2>3
  <2>5. ~complete => status = "partial"
    <3> HIDE DEF complete
    <3> QED OBVIOUS
  <2>6. /\ Ordered(d, end) /\ Extends(d, b) /\ d.next = b.next /\ d.halted = b.halted
        /\ \E n \in DOMAIN d.nodes : /\ d.nodes[n].first = i /\ d.nodes[n].last = end
                                     /\ d.nodes[n].kind = "opaque" /\ d.nodes[n].status \in {status, "partial"}
    <3> DEFINE never == FALSE
               tokens == Tokens(words)
               indent == lines[i].indent
    <3>1. never => "opaque" = "statement"
      OBVIOUS
    <3> HIDE DEF status, end, never, tokens, indent
    <3>2. LET e == AddNode(b, Draft("opaque", tokens, indent, status, i, end), never, never) IN
          /\ Ordered(e, end) /\ Extends(e, b) /\ e.next = b.next /\ e.halted = b.halted
          /\ \E n \in DOMAIN e.nodes : /\ e.nodes[n].first = i /\ e.nodes[n].last = end
                                       /\ e.nodes[n].kind = "opaque" /\ e.nodes[n].status \in {status, "partial"}
      BY <1>1, <1>5, <1>11, <2>4, <3>1, AddNodeOrdered
    <3> QED BY <3>2 DEF never, tokens, indent
  <2>7. c = [d EXCEPT !.next = end + 1, !.halted = ~complete, !.truncated = @ \/ cut]
    BY DEF ReadBlock
  <2> HIDE DEF c, d, end, complete, status, cut
  <2>8. /\ c.nodes = d.nodes /\ c.stack = d.stack /\ c.next = end + 1 /\ c.halted = ~complete
        /\ DOMAIN c = DOMAIN d
    BY <2>6, <2>7 DEF Ordered, IsBuilder
  <2>9. Ordered(c, end) /\ Extends(c, b) /\ Reach(c, i) = end
    <3>1. Ordered(c, end)
      BY <2>4, <2>6, <2>8, OrderedElsewhere
    <3> QED BY <1>1, <2>4, <2>6, <2>8, <3>1 DEF Extends, Reach
  <2>10. \A j \in i .. end : InNode(c.nodes, j)
    BY <2>6, <2>8 DEF InNode
  <2>11. c.halted => Stuck(c)
    BY <2>5, <2>6, <2>8 DEF Stuck
  <2> QED BY <1>1, <1>11, <2>1, <2>4, <2>8, <2>9, <2>10, <2>11, LinesRead
<1> QED BY <1>1, <1>4, <1>6, <1>7, <1>8, <1>9, <1>10, <1>11

\* So it is for every text, after every line.
LEMMA ReadSoFarHolds ==
  ASSUME NEW lines, IsText(lines)
  PROVE  \A i \in 0 .. Len(lines) : ReadSoFar(BuiltFrom(lines)[i], lines, i)
<1> DEFINE bad == {i \in 0 .. Len(lines) : ~ReadSoFar(BuiltFrom(lines)[i], lines, i)}
<1>1. Len(lines) \in Nat
  BY TextLength
<1>2. ReadSoFar(EmptyBuilder, lines, 0)
  <2>1. /\ EmptyBuilder.nodes = <<>> /\ EmptyBuilder.stack = {} /\ EmptyBuilder.next = 1
        /\ EmptyBuilder.halted = FALSE
        /\ DOMAIN EmptyBuilder = {"nodes", "stack", "next", "truncated", "halted"}
    BY DEF EmptyBuilder
  <2>2. DOMAIN EmptyBuilder.nodes = {} /\ EmptyBuilder.nodes \in Seq(Range(EmptyBuilder.nodes))
    BY <2>1
  <2>3. Len(EmptyBuilder.nodes) <= MaxNodes
    BY <2>1, ReaderLimits
  <2> QED BY <1>1, <2>1, <2>2, <2>3 DEF ReadSoFar, Reach, Ordered, IsBuilder
<1>3. ASSUME bad # {} PROVE FALSE
  <2>1. PICK n \in bad : \A x \in bad : n <= x
    <3>1. bad \subseteq Nat
      BY <1>1
    <3> HIDE DEF bad
    <3> QED BY <1>3, <3>1, SmallestExists
  <2>2. n \in Nat /\ n # 0
    BY <1>1, <1>2, BuiltFromSteps
  <2>3. n \in 1 .. Len(lines) /\ n - 1 \in 0 .. Len(lines) /\ n - 1 \notin bad
    BY <1>1, <2>1, <2>2
  <2>4. ReadSoFar(BuiltFrom(lines)[n - 1], lines, n - 1)
    BY <2>3
  <2>5. ReadSoFar(BuiltFrom(lines)[n], lines, n)
    BY <1>1, <2>3, <2>4, BuiltFromSteps, ReadLineKeeps
  <2> QED BY <2>1, <2>5
<1> QED BY <1>3

\* The number of nodes, and what it is when there is no room left.
LEMMA NodesCounted ==
  ASSUME NEW b, IsBuilder(b), Full(b)
  PROVE  Cardinality(DOMAIN b.nodes) = MaxNodes
<1>1. Len(b.nodes) \in Nat /\ DOMAIN b.nodes = 1 .. Len(b.nodes)
  BY NodeNumbers
<1>2. Len(b.nodes) = MaxNodes
  BY <1>1, ReaderLimits DEF IsBuilder, Full
<1>3. Cardinality(1 .. MaxNodes) = MaxNodes
  <2>1. Cardinality(1 .. MaxNodes) = IF 1 > MaxNodes THEN 0 ELSE MaxNodes - 1 + 1
    BY ReaderLimits, FS_Interval
  <2> QED BY <2>1, ReaderLimits
<1> QED BY <1>1, <1>2, <1>3

\* The nodes of a document in the order of its lines, each in statements before it.
WellFormed(nodes, count) ==
  /\ DOMAIN nodes \subseteq Nat \ {0}
  /\ \A n \in DOMAIN nodes :
       /\ nodes[n].first \in 1 .. count /\ nodes[n].last \in nodes[n].first .. count
       /\ nodes[n].context \subseteq {m \in DOMAIN nodes : m < n /\ nodes[m].kind = "statement"}
  /\ \A n, m \in DOMAIN nodes : n < m => nodes[n].last < nodes[m].first

\* So are the nodes that a reader has built.
LEMMA OrderedIsWellFormed ==
  ASSUME NEW b, NEW k, Ordered(b, k)
  PROVE  WellFormed(b.nodes, k)
<1>1. Len(b.nodes) \in Nat /\ DOMAIN b.nodes = 1 .. Len(b.nodes)
  BY NodeNumbers DEF Ordered
<1>2. \A n \in DOMAIN b.nodes : \A m \in 1 .. n - 1 : m \in DOMAIN b.nodes /\ m < n
  BY <1>1
<1> QED BY <1>1, <1>2 DEF Ordered, WellFormed

\* What the reader of indented commands makes of a text: every line that is not
\* empty is in a node, unless there was no room for nodes or a block has no end.
LEMMA IndentedIsRead ==
  ASSUME NEW doc, IsText(doc.lines)
  PROVE  LET nodes == ReadIndented(doc).nodes IN
         /\ WellFormed(nodes, Len(doc.lines))
         /\ \A i \in DOMAIN doc.lines :
              \/ doc.lines[i].words = <<>> \/ InNode(nodes, i)
              \/ Cardinality(DOMAIN nodes) = MaxNodes
              \/ \E n \in DOMAIN nodes : nodes[n].kind = "opaque" /\ nodes[n].status # "opaque"
<1> DEFINE count == Len(doc.lines)
           b == BuiltFrom(doc.lines)[count]
<1>1. count \in Nat /\ DOMAIN doc.lines = 1 .. count
  BY TextLength
<1>2. ReadSoFar(b, doc.lines, count)
  BY <1>1, ReadSoFarHolds
<1>3. ReadIndented(doc).nodes = b.nodes
  BY DEF ReadIndented
<1> HIDE DEF b
<1>4. Reach(b, count) = count
  BY <1>1, <1>2 DEF ReadSoFar, Reach
<1>5. Ordered(b, count) /\ IsBuilder(b)
  BY <1>2, <1>4 DEF ReadSoFar, Ordered
<1>6. WellFormed(b.nodes, count)
  BY <1>5, OrderedIsWellFormed
<1>7. Full(b) => Cardinality(DOMAIN b.nodes) = MaxNodes
  BY <1>5, NodesCounted
<1>8. \A i \in 1 .. count : doc.lines[i].words = <<>> \/ InNode(b.nodes, i) \/ Stuck(b)
  BY <1>2, <1>4 DEF ReadSoFar
<1> QED BY <1>1, <1>3, <1>6, <1>7, <1>8 DEF Stuck

----------------------------------------------------------------------------
(* The blocks of indented commands.                                        *)

\* A node is under all open nodes that are indented less, and its indentation is that
\* of the innermost open node or more, or that of another open node.
Even(b, x, indent) ==
  x.status # "partial" /\ x.context # {} =>
    /\ x.context = {n \in b.stack : b.nodes[n].indent < indent}
    /\ ~(indent < b.nodes[Max(b.stack)].indent) \/ \E n \in b.stack : b.nodes[n].indent = indent

\* So it is for a node without a flaw (uneven and deep, in add_node).
LEMMA AddNodeLevels ==
  ASSUME NEW b, IsBuilder(b), ~Full(b),
         NEW kind, NEW tokens, NEW indent, NEW status, NEW first, NEW last, NEW forceRoot, NEW canParent
  PROVE  LET c == AddNode(b, Draft(kind, tokens, indent, status, first, last), forceRoot, canParent)
         IN Even(b, c.nodes[Len(b.nodes) + 1], indent)
<1> DEFINE draft == Draft(kind, tokens, indent, status, first, last)
           IndentOf(n) == b.nodes[n].indent
           DepthOf(n) == Cardinality(b.nodes[n].context)
           atRoot == forceRoot \/ draft.indent = 0
           outer == IF atRoot THEN {} ELSE {n \in b.stack : IndentOf(n) < draft.indent}
           uneven == /\ b.stack # {}
                     /\ draft.indent < IndentOf(Max(b.stack))
                     /\ \A n \in b.stack : IndentOf(n) # draft.indent
           deep == outer # {} /\ DepthOf(Max(outer)) >= MaxDepth
           context == IF deep THEN {n \in outer : DepthOf(n) < MaxDepth} ELSE outer
           partial == deep \/ (~atRoot /\ (uneven \/ outer = {}))
           node == [draft EXCEPT !.context = context,
                                 !.status = IF partial THEN "partial" ELSE @]
           c == [b EXCEPT !.nodes = Append(@, node),
                          !.stack = context \cup (IF canParent THEN {Len(b.nodes) + 1} ELSE {})]
<1>1. c = AddNode(b, draft, forceRoot, canParent)
  BY DEF AddNode
<1>2. /\ node.context = context
      /\ node.status # "partial" => ~partial
      /\ draft.indent = indent
  <2> HIDE DEF context, partial
  <2> QED BY DEF Draft
<1>3. c.nodes[Len(b.nodes) + 1] = node
  <2>1. c.nodes = Append(b.nodes, node)
    <3> HIDE DEF node, context
    <3> QED BY DEF IsBuilder
  <2> HIDE DEF c, node
  <2> QED BY <2>1, OneMore DEF IsBuilder
<1>4. ~partial /\ context # {} =>
        /\ context = {n \in b.stack : b.nodes[n].indent < indent}
        /\ ~(indent < b.nodes[Max(b.stack)].indent) \/ \E n \in b.stack : b.nodes[n].indent = indent
  <2>1. ASSUME ~partial, context # {}
        PROVE  ~deep /\ context = outer /\ ~atRoot /\ ~uneven
    <3> HIDE DEF atRoot, uneven
    <3> QED BY <2>1
  <2>2. b.stack # {} \/ context = {}
    OBVIOUS
  <2> QED BY <1>2, <2>1, <2>2
<1> HIDE DEF c, node, draft, context, partial
<1>5. Even(b, node, indent)
  BY <1>2, <1>4 DEF Even
<1> QED BY <1>1, <1>3, <1>5 DEF draft

\* A node that opened a block in which all others stand, up to this one.
Encloses(nodes, s, n) ==
  \A m \in s + 1 .. n : nodes[m].kind # "comment" /\ nodes[m].indent > nodes[s].indent

\* The node is the first in its block, or comes after a node at its level or a banner.
Leveled(nodes, n) ==
  nodes[n].kind = "statement" /\ nodes[n].status # "partial" /\ nodes[n].context # {} =>
    LET parent == Max(nodes[n].context) IN
    parent < n - 1 => \/ nodes[n - 1].kind = "opaque"
                      \/ \E m \in parent + 1 .. n - 1 : nodes[m].indent = nodes[n].indent

\* The node is its line, or a block that starts there.
FromItsLine(lines, x) ==
  /\ lines[x.first].words # <<>>
  /\ x.kind # "opaque" => x.last = x.first
  /\ x.kind # "comment" => x.indent = lines[x.first].indent /\ ~IsComment(lines[x.first].words)

\* So many lines are all in nodes.
AllRead(nodes, lines, k) == \A j \in 1 .. k : lines[j].words = <<>> \/ InNode(nodes, j)

\* The nodes stand in blocks, and those on the stack have open ones.
Nested(b, lines) ==
  /\ \A n \in DOMAIN b.nodes :
       /\ b.nodes[n].kind \in {"statement", "comment", "opaque"}
       /\ FromItsLine(lines, b.nodes[n])
       /\ \A s \in b.nodes[n].context : Encloses(b.nodes, s, n)
       /\ Leveled(b.nodes, n)
       /\ AllRead(b.nodes, lines, b.nodes[n].first - 1)
  /\ \A s \in b.stack : Encloses(b.nodes, s, Len(b.nodes))
  /\ b.stack # {} => Len(b.nodes) \in b.stack \/ b.nodes[Len(b.nodes)].kind # "statement"

\* What is said of the first nodes stays when there are more.
LEMMA LaterNodes ==
  ASSUME NEW b, NEW c, IsBuilder(b), IsBuilder(c), Extends(c, b), NEW n \in DOMAIN b.nodes, NEW lines,
         b.nodes[n].context \subseteq 1 .. n - 1
  PROVE  /\ \A s \in 1 .. n : Encloses(b.nodes, s, n) => Encloses(c.nodes, s, n)
         /\ Leveled(b.nodes, n) => Leveled(c.nodes, n)
         /\ \A k \in Nat : AllRead(b.nodes, lines, k) => AllRead(c.nodes, lines, k)
<1>1. Len(b.nodes) \in Nat /\ DOMAIN b.nodes = 1 .. Len(b.nodes)
  BY NodeNumbers
<1>2. \A m \in 1 .. n : m \in DOMAIN b.nodes /\ c.nodes[m] = b.nodes[m]
  BY <1>1 DEF Extends
<1>3. ASSUME NEW s \in 1 .. n, Encloses(b.nodes, s, n)
      PROVE  Encloses(c.nodes, s, n)
  <2> SUFFICES ASSUME NEW m \in s + 1 .. n
               PROVE  c.nodes[m].kind # "comment" /\ c.nodes[m].indent > c.nodes[s].indent
    BY DEF Encloses
  <2>1. m \in 1 .. n
    BY <1>1
  <2> QED BY <1>2, <1>3, <2>1 DEF Encloses
<1>4. Leveled(b.nodes, n) => Leveled(c.nodes, n)
  <2>1. SUFFICES ASSUME Leveled(b.nodes, n), b.nodes[n].kind = "statement", b.nodes[n].status # "partial",
                        b.nodes[n].context # {}, Max(b.nodes[n].context) < n - 1
                 PROVE  \/ c.nodes[n - 1].kind = "opaque"
                        \/ \E m \in Max(b.nodes[n].context) + 1 .. n - 1 : c.nodes[m].indent = c.nodes[n].indent
    BY <1>1, <1>2 DEF Leveled
  <2> DEFINE p == Max(b.nodes[n].context)
  <2>2. p \in 1 .. n - 1
    <3>1. b.nodes[n].context \subseteq 0 .. n
      BY <1>1
    <3> QED BY <1>1, <2>1, <3>1, MaxIsLargest
  <2>3. n - 1 \in 1 .. n /\ \A m \in p + 1 .. n - 1 : m \in 1 .. n
    <3> HIDE DEF p
    <3> QED BY <1>1, <2>2
  <2> QED BY <1>1, <1>2, <2>1, <2>3 DEF Leveled
<1>5. \A k \in Nat : AllRead(b.nodes, lines, k) => AllRead(c.nodes, lines, k)
  BY ExtensionKeeps DEF AllRead
<1> QED BY <1>3, <1>4, <1>5

\* Of all nodes the statements can be parents.
StatementsOpen(canParent, kind) == canParent <=> kind = "statement"

\* A node that is added to nested nodes: on the stack if it is a statement, and with
\* an empty stack if it is a comment.
LEMMA AddNodeNested ==
  ASSUME NEW b, NEW k \in Nat, Ordered(b, k), NEW lines, IsText(lines), Nested(b, lines), ~Full(b),
         NEW kind \in {"statement", "comment", "opaque"}, NEW tokens, NEW indent, NEW status,
         NEW first \in 1 .. Len(lines), NEW last \in Nat, k < first, first <= last,
         NEW forceRoot, NEW canParent, StatementsOpen(canParent, kind),
         lines[first].words # <<>>, kind # "opaque" => last = first,
         kind = "comment" => b.stack = {},
         kind # "comment" => indent = lines[first].indent /\ ~IsComment(lines[first].words),
         AllRead(b.nodes, lines, first - 1)
  PROVE  Nested(AddNode(b, Draft(kind, tokens, indent, status, first, last), forceRoot, canParent), lines)
<1> DEFINE draft == Draft(kind, tokens, indent, status, first, last)
           c == AddNode(b, draft, forceRoot, canParent)
           new == Len(b.nodes) + 1
           x == c.nodes[new]
<1> USE DEF StatementsOpen
<1>1. Len(b.nodes) \in Nat /\ DOMAIN b.nodes = 1 .. Len(b.nodes) /\ b.stack \subseteq DOMAIN b.nodes /\ IsBuilder(b)
  BY NodeNumbers DEF Ordered, IsBuilder
<1>2. Added(b, c, draft, forceRoot, canParent)
  BY <1>1, AddNodeAdds
<1>3. /\ IsBuilder(c) /\ DOMAIN c.nodes = 1 .. new /\ Len(c.nodes) = new /\ Extends(c, b)
      /\ x.context \subseteq b.stack /\ c.stack = x.context \cup (IF canParent THEN {new} ELSE {})
      /\ x.kind = kind /\ x.first = first /\ x.last = last /\ x.indent = indent
      /\ \A n \in x.context : b.nodes[n].indent < indent
  <2>1. IsBuilder(c) /\ DOMAIN c.nodes = 1 .. new /\ Extends(c, b)
    BY <1>1, <1>2 DEF Added, Extends
  <2>2. Len(c.nodes) = new
    <3>1. Len(c.nodes) \in Nat /\ DOMAIN c.nodes = 1 .. Len(c.nodes)
      BY <2>1, NodeNumbers
    <3>2. 1 .. new = 1 .. Len(c.nodes)
      BY <2>1, <3>1
    <3>3. new \in 1 .. new /\ Len(c.nodes) \in {0} \cup 1 .. Len(c.nodes)
      BY <1>1, <3>1
    <3> HIDE DEF c
    <3> QED BY <1>1, <3>1, <3>2, <3>3
  <2> HIDE DEF c
  <2>3. /\ x = [draft EXCEPT !.context = x.context, !.status = x.status]
        /\ x.context \subseteq b.stack /\ c.stack = x.context \cup (IF canParent THEN {new} ELSE {})
        /\ \A n \in x.context : b.nodes[n].indent < draft.indent
    BY <1>2 DEF Added
  <2> HIDE DEF x
  <2>4. x.kind = kind /\ x.first = first /\ x.last = last /\ x.indent = indent /\ draft.indent = indent
    BY <2>3 DEF Draft
  <2> HIDE DEF draft
  <2> QED BY <2>1, <2>2, <2>3, <2>4
<1>4. Even(b, x, indent)
  BY <1>1, AddNodeLevels
<1> HIDE DEF c, x, draft
<1>5. \A n \in 1 .. Len(b.nodes) : c.nodes[n] = b.nodes[n]
  BY <1>1, <1>3 DEF Extends
<1>6. ASSUME NEW s \in b.stack, b.nodes[s].indent < indent, kind # "comment"
      PROVE  Encloses(c.nodes, s, new)
  <2> SUFFICES ASSUME NEW m \in s + 1 .. new
               PROVE  c.nodes[m].kind # "comment" /\ c.nodes[m].indent > c.nodes[s].indent
    BY DEF Encloses
  <2>1. CASE m = new
    BY <1>1, <1>3, <1>5, <1>6, <2>1 DEF x
  <2>2. CASE m # new
    <3>1. m \in s + 1 .. Len(b.nodes) /\ m \in 1 .. Len(b.nodes)
      BY <1>1, <2>2
    <3>2. b.nodes[m].kind # "comment" /\ b.nodes[m].indent > b.nodes[s].indent
      BY <3>1 DEF Nested, Encloses
    <3> QED BY <1>1, <1>5, <3>1, <3>2
  <2> QED BY <2>1, <2>2
<1>7. \A s \in x.context : Encloses(c.nodes, s, new)
  BY <1>3, <1>6
<1>8. Leveled(c.nodes, new)
  <2> SUFFICES ASSUME x.kind = "statement", x.status # "partial", x.context # {}, Max(x.context) < new - 1,
                      c.nodes[new - 1].kind # "opaque"
               PROVE  \E m \in Max(x.context) + 1 .. new - 1 : c.nodes[m].indent = x.indent
    BY DEF Leveled, x
  <2> DEFINE p == Max(x.context)
             top == Len(b.nodes)
  <2>0. indent \in Nat /\ \A n \in b.stack : b.nodes[n].indent \in Nat
    <3>1. \A j \in 1 .. Len(lines) : lines[j].indent \in Nat
      BY TextLength DEF IsText
    <3>2. indent \in Nat
      BY <1>3, <3>1
    <3>3. ASSUME NEW n \in b.stack PROVE b.nodes[n].indent \in Nat
      <4>1. b.nodes[n].kind = "statement" /\ n \in DOMAIN b.nodes
        BY <1>1 DEF Ordered
      <4>2. b.nodes[n].indent = lines[b.nodes[n].first].indent /\ b.nodes[n].first \in 1 .. k
        BY <4>1 DEF Nested, FromItsLine, Ordered
      <4>3. b.nodes[n].first \in 1 .. Len(lines)
        BY <4>2, TextLength
      <4> QED BY <3>1, <4>2, <4>3
    <3> QED BY <3>2, <3>3
  <2>1. p \in x.context /\ (\A n \in x.context : n <= p) /\ p \in 1 .. top
    <3>1. x.context \subseteq 0 .. top
      BY <1>1, <1>3
    <3> HIDE DEF top
    <3> QED BY <1>1, <1>3, <3>1, MaxIsLargest DEF top
  <2>2. top \in b.stack
    <3>1. top \in p + 1 .. top /\ top = new - 1
      BY <1>1, <2>1
    <3>2. b.nodes[top].kind # "comment"
      BY <1>3, <2>1, <3>1 DEF Nested, Encloses
    <3>3. b.nodes[top].kind # "opaque"
      <4>1. top \in 1 .. Len(b.nodes)
        BY <1>1, <2>1
      <4>2. c.nodes[top] = b.nodes[top]
        BY <1>5, <4>1
      <4>3. c.nodes[top].kind # "opaque"
        BY <3>1
      <4> QED BY <4>2, <4>3
    <3>4. top \in DOMAIN b.nodes /\ b.stack # {}
      BY <1>1, <1>3, <2>1
    <3> QED BY <3>2, <3>3, <3>4 DEF Nested
  <2>3. Max(b.stack) = top
    <3>1. b.stack \subseteq Nat /\ \A n \in b.stack : n <= top
      BY <1>1
    <3>2. \E m \in b.stack : \A n \in b.stack : n <= m
      BY <2>2, <3>1
    <3>3. Max(b.stack) \in b.stack /\ top <= Max(b.stack)
      BY <2>2, <3>2 DEF Max
    <3> HIDE DEF top
    <3> QED BY <1>1, <2>2, <3>1, <3>3
  <2>4. PICK m \in b.stack : b.nodes[m].indent = indent
    <3>1. CASE \E n \in b.stack : b.nodes[n].indent = indent
      BY <3>1
    <3>2. CASE ~(indent < b.nodes[top].indent)
      <4>1. top \notin x.context
        BY <1>1, <2>1
      <4>2. ~(b.nodes[top].indent < indent)
        BY <1>4, <2>2, <4>1 DEF Even
      <4> QED BY <2>0, <2>2, <3>2, <4>2
    <3> QED BY <1>4, <2>3, <3>1, <3>2 DEF Even
  <2>5. m \in p + 1 .. top
    <3>1. m \in 1 .. top /\ m # p
      <4>1. b.nodes[p].indent < indent
        BY <1>3, <2>1
      <4>2. p \in DOMAIN b.nodes
        BY <1>1, <2>1
      <4>3. p \in b.stack
        BY <1>3, <2>1
      <4> QED BY <1>1, <2>0, <2>4, <4>1, <4>3
    <3>2. ~(m < p)
      <4>1. SUFFICES ASSUME m < p PROVE FALSE
        OBVIOUS
      <4>2. p \in m + 1 .. top
        BY <1>1, <2>1, <3>1, <4>1
      <4>3. b.nodes[p].indent > b.nodes[m].indent
        BY <4>2 DEF Nested, Encloses
      <4>4. b.nodes[p].indent < indent
        BY <1>3, <2>1
      <4>5. p \in b.stack
        BY <1>3, <2>1
      <4> QED BY <2>0, <2>4, <4>3, <4>4, <4>5
    <3> HIDE DEF p
    <3> QED BY <1>1, <2>1, <3>1, <3>2
  <2>6. top = new - 1 /\ c.nodes[m].indent = x.indent
    BY <1>1, <1>3, <1>5, <2>4, <2>5
  <2> HIDE DEF p
  <2> QED BY <2>5, <2>6 DEF p
<1>9. FromItsLine(lines, x)
  BY <1>3 DEF FromItsLine
<1>10. AllRead(c.nodes, lines, x.first - 1)
  BY <1>1, <1>3, ExtensionKeeps DEF AllRead
<1>11. ASSUME NEW n \in 1 .. Len(b.nodes)
       PROVE  /\ c.nodes[n].kind \in {"statement", "comment", "opaque"}
              /\ FromItsLine(lines, c.nodes[n])
              /\ \A s \in c.nodes[n].context : Encloses(c.nodes, s, n)
              /\ Leveled(c.nodes, n)
              /\ AllRead(c.nodes, lines, c.nodes[n].first - 1)
  <2>1. b.nodes[n].context \subseteq 1 .. n - 1 /\ b.nodes[n].first - 1 \in Nat /\ n \in DOMAIN b.nodes
    BY <1>1 DEF Ordered
  <2>2. /\ \A s \in 1 .. n : Encloses(b.nodes, s, n) => Encloses(c.nodes, s, n)
        /\ Leveled(b.nodes, n) => Leveled(c.nodes, n)
        /\ \A l \in Nat : AllRead(b.nodes, lines, l) => AllRead(c.nodes, lines, l)
    BY <1>1, <1>3, <2>1, LaterNodes
  <2>3. \A s \in b.nodes[n].context : s \in 1 .. n
    BY <1>1, <2>1
  <2> QED BY <1>5, <2>1, <2>2, <2>3 DEF Nested
<1>12. \A s \in c.stack : Encloses(c.nodes, s, new)
  <2>1. Encloses(c.nodes, new, new)
    BY <1>1 DEF Encloses
  <2> QED BY <1>3, <1>7, <2>1
<1>13. new \in c.stack \/ c.nodes[new].kind # "statement"
  BY <1>3 DEF x
<1>14. Nested(c, lines)
  <2>1. \A n \in DOMAIN c.nodes : n \in 1 .. Len(b.nodes) \/ n = new
    BY <1>1, <1>3
  <2>2. /\ c.nodes[new].kind \in {"statement", "comment", "opaque"}
        /\ FromItsLine(lines, c.nodes[new])
        /\ \A s \in c.nodes[new].context : Encloses(c.nodes, s, new)
        /\ Leveled(c.nodes, new)
        /\ AllRead(c.nodes, lines, c.nodes[new].first - 1)
    BY <1>3, <1>7, <1>8, <1>9, <1>10 DEF x
  <2>3. \A n \in DOMAIN c.nodes :
          /\ c.nodes[n].kind \in {"statement", "comment", "opaque"}
          /\ FromItsLine(lines, c.nodes[n])
          /\ \A s \in c.nodes[n].context : Encloses(c.nodes, s, n)
          /\ Leveled(c.nodes, n)
          /\ AllRead(c.nodes, lines, c.nodes[n].first - 1)
    BY <1>11, <2>1, <2>2
  <2>4. Len(c.nodes) = new
    BY <1>3
  <2> QED BY <1>12, <1>13, <2>3, <2>4 DEF Nested
<1> QED BY <1>14 DEF c, draft

\* The rest of the builder does not touch the nodes, but may end all blocks.
LEMMA NestedElsewhere ==
  ASSUME NEW b, NEW lines, Nested(b, lines), NEW c, c.nodes = b.nodes, c.stack \in {b.stack, {}}
  PROVE  Nested(c, lines)
BY DEF Nested

\* The builder with a node for a block up to this line.
WithBlock(e, b, line, status, i, end, never) ==
  LET d == AddNode(b, Draft("opaque", Tokens(line.words), line.indent, status, i, end), never, never)
  IN e.nodes = d.nodes /\ e.stack = d.stack /\ e.next = end + 1

\* A banner runs to the first line with its delimiter, or has no end in reach.
BannerRunsTo(lines, i, end, halted) ==
  IsBanner(lines[i].words) =>
    /\ \A k \in i .. end - 1 : ~ClosesBanner(lines, i, k)
    /\ halted \/ ClosesBanner(lines, i, end)

\* A banner or certificate chain ends at a line of the text, at the latest where the
\* reader stops looking.
LEMMA BlockEnds ==
  ASSUME NEW lines, IsText(lines), NEW i \in 1 .. Len(lines), NEW b, Ordered(b, i - 1),
         NEW never, never = FALSE
  PROVE  \E end \in i .. Len(lines) :
           /\ BannerRunsTo(lines, i, end, ReadBlock(b, lines, i).halted)
           /\ \E status : WithBlock(ReadBlock(b, lines, i), b, lines[i], status, i, end, never)
<1> DEFINE limit == Min({Len(lines), i + MaxBlockLines - 1})
           closers == {k \in i .. limit : IF IsBanner(lines[i].words) THEN ClosesBanner(lines, i, k)
                                          ELSE ClosesChain(lines, i, k)}
           complete == closers # {}
           end == IF complete THEN Min(closers) ELSE limit
           cut == \/ ~complete /\ limit < Len(lines)
                  \/ \E k \in i .. end : lines[k].flaw = "long"
           status == IF complete /\ ~cut THEN "opaque" ELSE "partial"
           tokens == Tokens(lines[i].words)
           indent == lines[i].indent
           d == AddNode(b, Draft("opaque", tokens, indent, status, i, end), never, never)
<1>1. Len(lines) \in Nat /\ i \in Nat
  BY TextLength
<1>2. limit \in i .. Len(lines)
  <2>1. i + MaxBlockLines - 1 \in Nat /\ i <= i + MaxBlockLines - 1
    BY <1>1, ReaderLimits
  <2>2. limit \in {Len(lines), i + MaxBlockLines - 1} /\ limit <= Len(lines)
    BY <1>1, <2>1, MinIsSmallest
  <2> HIDE DEF limit
  <2> QED BY <1>1, <2>1, <2>2
<1>3. end \in i .. limit
  <2> HIDE DEF limit
  <2>1. CASE complete
    <3>1. closers \subseteq i .. limit /\ closers \subseteq Nat
      BY <1>1, <1>2
    <3> HIDE DEF closers
    <3> QED BY <2>1, <3>1, MinIsSmallest
  <2>2. CASE ~complete
    <3> HIDE DEF complete
    <3> QED BY <1>2, <2>2
  <2> QED BY <2>1, <2>2
<1>4. end \in i .. Len(lines)
  <2> HIDE DEF limit, end
  <2> QED BY <1>1, <1>2, <1>3
<1>5. ReadBlock(b, lines, i) = [d EXCEPT !.next = end + 1, !.halted = ~complete, !.truncated = @ \/ cut]
  BY DEF ReadBlock
<1>6. IsBuilder(d)
  <2> HIDE DEF limit, end, status, tokens, indent
  <2>1. never => "opaque" = "statement"
    OBVIOUS
  <2>2. end \in Nat /\ i <= end /\ i - 1 \in Nat /\ i - 1 < i
    BY <1>1, <1>4
  <2>3. Ordered(d, end)
    BY <1>1, <2>1, <2>2, AddNodeOrdered
  <2> QED BY <2>3 DEF Ordered
<1>9. ASSUME IsBanner(lines[i].words)
      PROVE  /\ \A k \in i .. end - 1 : k \notin closers /\ k \in i .. limit
             /\ complete => end \in closers
  <2> HIDE DEF limit
  <2>1. closers \subseteq i .. limit /\ closers \subseteq Nat
    BY <1>1, <1>2
  <2> HIDE DEF closers
  <2>2. CASE complete
    <3>1. end = Min(closers)
      BY <2>2
    <3> HIDE DEF end
    <3>2. end \in closers /\ \A k \in closers : end <= k
      BY <2>1, <2>2, <3>1, MinIsSmallest
    <3> QED BY <1>1, <1>2, <1>3, <2>1, <3>2
  <2>3. CASE ~complete
    <3>1. end = limit /\ closers = {}
      BY <2>3
    <3> HIDE DEF complete, end
    <3> QED BY <1>1, <1>2, <2>3, <3>1
  <2> QED BY <2>2, <2>3
<1>10. BannerRunsTo(lines, i, end, ~complete)
  <2>1. SUFFICES ASSUME IsBanner(lines[i].words)
                 PROVE  /\ \A k \in i .. end - 1 : ~ClosesBanner(lines, i, k)
                        /\ ~complete \/ ClosesBanner(lines, i, end)
    <3> HIDE DEF complete, end
    <3> QED BY DEF BannerRunsTo
  <2>2. \A k \in i .. limit : k \in closers <=> ClosesBanner(lines, i, k)
    BY <2>1
  <2> HIDE DEF limit, closers, complete, end
  <2> QED BY <1>3, <1>9, <2>1, <2>2
<1> HIDE DEF end, complete, status, cut, d
<1>7. LET e == ReadBlock(b, lines, i) IN
      e.nodes = d.nodes /\ e.stack = d.stack /\ e.next = end + 1 /\ e.halted = ~complete
  BY <1>5, <1>6 DEF IsBuilder
<1>8. WithBlock(ReadBlock(b, lines, i), b, lines[i], status, i, end, never)
  BY <1>7 DEF WithBlock, d
<1> QED BY <1>4, <1>7, <1>8, <1>10

\* What is known when so many lines have been looked at.
NestedSoFar(b, lines, i) ==
  /\ Nested(b, lines)
  /\ b.halted \/ Full(b) \/ AllRead(b.nodes, lines, Reach(b, i))

\* A line that is read stands in its blocks (indentation_cli.py and add_node).
LEMMA ReadLineNests ==
  ASSUME NEW lines, IsText(lines), NEW i \in 1 .. Len(lines), NEW b,
         ReadSoFar(b, lines, i - 1), NestedSoFar(b, lines, i - 1)
  PROVE  NestedSoFar(ReadLine(b, lines, i), lines, i)
<1> DEFINE words == lines[i].words
           e == ReadLine(b, lines, i)
<1> SUFFICES NestedSoFar(e, lines, i)
  OBVIOUS
<1> HIDE DEF e
<1>1. Len(lines) \in Nat /\ i \in Nat /\ i - 1 \in Nat /\ b.next \in Nat \ {0}
  BY TextLength DEF ReadSoFar
<1>2. IsBuilder(b) /\ Nested(b, lines)
  BY DEF ReadSoFar, Ordered, NestedSoFar
<1>3. CASE b.halted \/ i < b.next
  <2>1. e = b
    BY <1>3 DEF e, ReadLine
  <2>2. i < b.next => Reach(b, i) = Reach(b, i - 1)
    BY <1>1 DEF Reach
  <2> QED BY <1>3, <2>1, <2>2 DEF NestedSoFar
<1>4. CASE ~b.halted /\ ~(i < b.next) /\ Full(b)
  <2> DEFINE c == [b EXCEPT !.halted = TRUE, !.truncated = TRUE]
  <2>1. e = c
    BY <1>4 DEF e, ReadLine
  <2>2. c.nodes = b.nodes /\ c.stack = b.stack /\ Full(c)
    BY <1>2, <1>4 DEF IsBuilder, Full
  <2> HIDE DEF c
  <2> QED BY <1>2, <2>1, <2>2, NestedElsewhere DEF NestedSoFar
<1>5. ASSUME ~b.halted, ~(i < b.next), ~Full(b)
      PROVE  Reach(b, i - 1) = i - 1 /\ Reach(b, i) = i /\ AllRead(b.nodes, lines, i - 1) /\ Ordered(b, i - 1)
  <2>1. Reach(b, i - 1) = i - 1 /\ Reach(b, i) = i
    BY <1>1, <1>5 DEF Reach
  <2> QED BY <1>5, <2>1 DEF NestedSoFar, ReadSoFar
<1>6. CASE ~b.halted /\ ~(i < b.next) /\ ~Full(b) /\ words = <<>>
  <2>1. e = b
    BY <1>6 DEF e, ReadLine
  <2>2. AllRead(b.nodes, lines, i)
    BY <1>1, <1>5, <1>6 DEF AllRead
  <2> QED BY <1>2, <1>5, <1>6, <2>1, <2>2 DEF NestedSoFar
<1>7. ASSUME NEW a, Ordered(a, i - 1), Nested(a, lines), a.nodes = b.nodes, a.next = b.next,
             ~b.halted, ~(i < b.next), ~Full(b), words # <<>>,
             NEW kind \in {"statement", "comment", "opaque"}, NEW tokens, NEW indent, NEW status,
             NEW last \in i .. Len(lines), NEW forceRoot, NEW canParent, StatementsOpen(canParent, kind),
             kind # "opaque" => last = i,
             kind = "comment" => a.stack = {},
             kind # "comment" => indent = lines[i].indent /\ ~IsComment(words),
             e.nodes = AddNode(a, Draft(kind, tokens, indent, status, i, last), forceRoot, canParent).nodes,
             e.stack = AddNode(a, Draft(kind, tokens, indent, status, i, last), forceRoot, canParent).stack,
             Reach(e, i) = last
      PROVE  NestedSoFar(e, lines, i)
  <2> DEFINE d == AddNode(a, Draft(kind, tokens, indent, status, i, last), forceRoot, canParent)
  <2>1. ~Full(a) /\ last \in Nat /\ i <= last /\ AllRead(a.nodes, lines, i - 1)
    BY <1>1, <1>5, <1>7 DEF Full
  <2>2. Nested(d, lines)
    <3>1. i - 1 < i
      BY <1>1
    <3> QED BY <1>1, <1>7, <2>1, <3>1, AddNodeNested
  <2>3. Ordered(d, last) /\ Extends(d, a)
        /\ \E n \in DOMAIN d.nodes : d.nodes[n].first = i /\ d.nodes[n].last = last
    <3>1. i - 1 < i
      BY <1>1
    <3> HIDE DEF d
    <3>2. /\ Ordered(d, last) /\ Extends(d, a)
          /\ \/ Full(a) /\ d = a
             \/ \E n \in DOMAIN d.nodes : d.nodes[n].first = i /\ d.nodes[n].last = last
      BY <1>1, <1>7, <2>1, <3>1, AddNodeOrdered DEF d, StatementsOpen
    <3> QED BY <2>1, <3>2
  <2> HIDE DEF d
  <2>4. AllRead(d.nodes, lines, last)
    <3>1. \A j \in i .. last : InNode(d.nodes, j)
      BY <2>3 DEF InNode
    <3>2. \A j \in 1 .. last : j \in 1 .. i - 1 \/ j \in i .. last
      BY <1>1, <2>1
    <3>3. \A j : InNode(a.nodes, j) => InNode(d.nodes, j)
      BY <1>7, <2>3, ExtensionKeeps DEF Ordered
    <3> QED BY <2>1, <3>1, <3>2, <3>3 DEF AllRead
  <2> QED BY <1>7, <2>2, <2>4, NestedElsewhere DEF NestedSoFar, d
<1>8. CASE ~b.halted /\ ~(i < b.next) /\ ~Full(b) /\ words # <<>> /\ IsComment(words)
  <2> DEFINE status == IF lines[i].flaw = "long" THEN "partial" ELSE "parsed"
             none == [command |-> NoCommand, args |-> <<>>, negated |-> FALSE]
             a == ResetContext(b)
             root == TRUE
             parent == FALSE
             d == AddNode(a, Draft("comment", none, 0, status, i, i), root, parent)
  <2>1. e = [d EXCEPT !.truncated = @ \/ lines[i].flaw = "long"]
    BY <1>8 DEF e, ReadLine, ReadComment
  <2>2. a.nodes = b.nodes /\ a.stack = {} /\ a.next = b.next /\ DOMAIN a = DOMAIN b
    BY <1>2 DEF IsBuilder, ResetContext
  <2> HIDE DEF a
  <2>3. Ordered(a, i - 1) /\ Nested(a, lines)
    BY <1>1, <1>2, <1>5, <1>8, <2>2, OrderedElsewhere, NestedElsewhere
  <2>4. StatementsOpen(parent, "comment") /\ i - 1 < i
    BY <1>1 DEF StatementsOpen
  <2>8. parent => "comment" = "statement"
    OBVIOUS
  <2> HIDE DEF none, status, root, parent
  <2>5. d.next = b.next /\ IsBuilder(d)
    <3>1. Ordered(d, i) /\ d.next = a.next
      BY <1>1, <2>3, <2>4, <2>8, AddNodeOrdered
    <3> QED BY <2>2, <3>1 DEF Ordered
  <2> HIDE DEF d
  <2>6. e.nodes = d.nodes /\ e.stack = d.stack /\ e.next = d.next
    BY <2>1, <2>5 DEF IsBuilder
  <2>7. Reach(e, i) = i
    BY <1>8, <2>5, <2>6 DEF Reach
  <2> QED BY <1>1, <1>7, <1>8, <2>2, <2>3, <2>4, <2>6, <2>7 DEF d
<1>9. CASE ~b.halted /\ ~(i < b.next) /\ ~Full(b) /\ words # <<>> /\ ~IsComment(words)
           /\ ~(IsBanner(words) \/ IsCertificateChain(words))
  <2> DEFINE tokens == Tokens(words)
             status == IF lines[i].flaw # "none" THEN "partial"
                       ELSE IF tokens.command = NoCommand THEN "unresolved" ELSE "parsed"
             indent == lines[i].indent
             root == FALSE
             parent == TRUE
             d == AddNode(b, Draft("statement", tokens, indent, status, i, i), root, parent)
  <2>1. e = [d EXCEPT !.truncated = @ \/ lines[i].flaw = "long"]
    BY <1>9 DEF e, ReadLine, ReadStatement
  <2>2. parent => "statement" = "statement"
    OBVIOUS
  <2>8. StatementsOpen(parent, "statement")
    BY DEF StatementsOpen
  <2>6. i - 1 < i /\ i <= i
    BY <1>1
  <2>7. Ordered(b, i - 1)
    BY <1>5, <1>9
  <2> HIDE DEF tokens, status, root, parent
  <2>3. d.next = b.next /\ IsBuilder(d)
    <3> HIDE DEF indent
    <3>1. Ordered(d, i) /\ d.next = b.next
      BY <1>1, <2>2, <2>6, <2>7, AddNodeOrdered
    <3> QED BY <3>1 DEF Ordered
  <2> HIDE DEF d
  <2>4. e.nodes = d.nodes /\ e.stack = d.stack /\ e.next = d.next
    BY <2>1, <2>3 DEF IsBuilder
  <2>5. Reach(e, i) = i
    BY <1>9, <2>3, <2>4 DEF Reach
  <2> QED BY <1>1, <1>2, <1>7, <1>9, <2>2, <2>4, <2>5, <2>7, <2>8 DEF d
<1>10. CASE ~b.halted /\ ~(i < b.next) /\ ~Full(b) /\ words # <<>> /\ ~IsComment(words)
            /\ (IsBanner(words) \/ IsCertificateChain(words))
  <2> DEFINE tokens == Tokens(words)
             indent == lines[i].indent
             never == FALSE
  <2>1. e = ReadBlock(b, lines, i)
    BY <1>10 DEF e, ReadLine
  <2>2. never = FALSE
    OBVIOUS
  <2>3. StatementsOpen(never, "opaque") /\ Ordered(b, i - 1)
    BY <1>5, <1>10 DEF StatementsOpen
  <2> HIDE DEF never
  <2>4. PICK end \in i .. Len(lines) : \E status : WithBlock(e, b, lines[i], status, i, end, never)
    BY <2>1, <2>2, <2>3, BlockEnds
  <2>5. PICK status : WithBlock(e, b, lines[i], status, i, end, never)
    BY <2>4
  <2> DEFINE d == AddNode(b, Draft("opaque", tokens, indent, status, i, end), never, never)
  <2>6. e.nodes = d.nodes /\ e.stack = d.stack /\ e.next = end + 1
    BY <2>5 DEF WithBlock
  <2> HIDE DEF tokens, d
  <2>7. Reach(e, i) = end
    BY <1>1, <2>6 DEF Reach
  <2> QED BY <1>1, <1>2, <1>7, <1>10, <2>3, <2>6, <2>7 DEF d
<1> QED BY <1>3, <1>4, <1>6, <1>8, <1>9, <1>10

\* So it is for every text, after every line.
LEMMA NestedSoFarHolds ==
  ASSUME NEW lines, IsText(lines)
  PROVE  \A i \in 0 .. Len(lines) : NestedSoFar(BuiltFrom(lines)[i], lines, i)
<1> DEFINE bad == {i \in 0 .. Len(lines) : ~NestedSoFar(BuiltFrom(lines)[i], lines, i)}
<1>1. Len(lines) \in Nat
  BY TextLength
<1>2. NestedSoFar(EmptyBuilder, lines, 0)
  <2>1. EmptyBuilder.nodes = <<>> /\ EmptyBuilder.stack = {} /\ EmptyBuilder.next = 1
    BY DEF EmptyBuilder
  <2>2. DOMAIN EmptyBuilder.nodes = {}
    BY <2>1
  <2> QED BY <2>1, <2>2 DEF NestedSoFar, Nested, AllRead, Reach
<1>3. ASSUME bad # {} PROVE FALSE
  <2>1. PICK n \in bad : \A x \in bad : n <= x
    <3>1. bad \subseteq Nat
      BY <1>1
    <3> HIDE DEF bad
    <3> QED BY <1>3, <3>1, SmallestExists
  <2>2. n \in Nat /\ n # 0
    BY <1>1, <1>2, BuiltFromSteps
  <2>3. n \in 1 .. Len(lines) /\ n - 1 \in 0 .. Len(lines) /\ n - 1 \notin bad
    BY <1>1, <2>1, <2>2
  <2>4. NestedSoFar(BuiltFrom(lines)[n - 1], lines, n - 1) /\ ReadSoFar(BuiltFrom(lines)[n - 1], lines, n - 1)
    BY <2>3, ReadSoFarHolds
  <2>5. NestedSoFar(BuiltFrom(lines)[n], lines, n)
    BY <1>1, <2>3, <2>4, BuiltFromSteps, ReadLineNests
  <2> QED BY <2>1, <2>5
<1> QED BY <1>3

\* A line stands in the block that another one opens: all lines between them are
\* indented more than that one, there is no comment among them, and one of them is at
\* the level of the line or starts a banner.
StandsIn(lines, nodes, opener, own) ==
  LET Level(i) == lines[i].indent
      banners == {n \in Range(nodes) : n.kind = "opaque"}
      text == UNION {n.first + 1 .. n.last : n \in banners}
      between == {i \in (opener + 1 .. own - 1) \ text : lines[i].words # <<>>}
  IN /\ Level(opener) < Level(own)
     /\ \A i \in between : Level(i) > Level(opener) /\ ~IsComment(lines[i].words)
     /\ between # {} => \E i \in between : Level(i) = Level(own) \/ i \in {n.first : n \in banners}

\* A statement that was parsed stands in the block of its parent (add_node).
LEMMA StatementStandsInBlock ==
  ASSUME NEW doc, IsText(doc.lines), NEW nodes, nodes = ReadIndented(doc).nodes,
         NEW n \in DOMAIN nodes, nodes[n].kind = "statement", nodes[n].status = "parsed",
         nodes[n].context # {}
  PROVE  StandsIn(doc.lines, nodes, nodes[Max(nodes[n].context)].first, nodes[n].first)
<1> DEFINE lines == doc.lines
           b == BuiltFrom(lines)[Len(lines)]
           p == Max(nodes[n].context)
           banners == {x \in Range(nodes) : x.kind = "opaque"}
           text == UNION {x.first + 1 .. x.last : x \in banners}
           between == {i \in (nodes[p].first + 1 .. nodes[n].first - 1) \ text : lines[i].words # <<>>}
<1>1. Len(lines) \in Nat /\ DOMAIN lines = 1 .. Len(lines) /\ \A i \in 1 .. Len(lines) : lines[i].indent \in Nat
  BY TextLength DEF IsText
<1>2. nodes = b.nodes
  BY DEF ReadIndented
<1>3. ReadSoFar(b, lines, Len(lines)) /\ Nested(b, lines)
  BY <1>1, ReadSoFarHolds, NestedSoFarHolds DEF NestedSoFar
<1> HIDE DEF b
<1>4. Ordered(b, Len(lines)) /\ IsBuilder(b)
  <2>1. Reach(b, Len(lines)) = Len(lines)
    BY <1>1, <1>3 DEF ReadSoFar, Reach
  <2> QED BY <1>3, <2>1 DEF ReadSoFar, Ordered
<1>5. DOMAIN nodes = 1 .. Len(nodes) /\ Len(nodes) \in Nat
  BY <1>2, <1>4, NodeNumbers
<1>6. /\ \A m \in DOMAIN nodes : /\ nodes[m].first \in 1 .. Len(lines) /\ nodes[m].last \in nodes[m].first .. Len(lines)
                                 /\ nodes[m].context \subseteq {k \in 1 .. m - 1 : nodes[k].kind = "statement"}
      /\ \A l, m \in DOMAIN nodes : l < m => nodes[l].last < nodes[m].first
  BY <1>2, <1>4 DEF Ordered
<1>7. \A m \in DOMAIN nodes :
        /\ nodes[m].kind \in {"statement", "comment", "opaque"}
        /\ FromItsLine(lines, nodes[m])
        /\ \A s \in nodes[m].context : Encloses(nodes, s, m)
        /\ Leveled(nodes, m)
        /\ AllRead(nodes, lines, nodes[m].first - 1)
  BY <1>2, <1>3 DEF Nested
<1>8. p \in nodes[n].context /\ p \in 1 .. n - 1 /\ p \in DOMAIN nodes /\ nodes[p].kind = "statement" /\ n \in Nat
  <2>1. nodes[n].context \subseteq 1 .. n - 1 /\ nodes[n].context \subseteq 0 .. n /\ n \in Nat
    BY <1>5, <1>6
  <2>2. p \in nodes[n].context
    BY <2>1, MaxIsLargest
  <2> HIDE DEF p
  <2> QED BY <1>5, <1>6, <2>1, <2>2
<1> HIDE DEF p
<1>9. Encloses(nodes, p, n)
  BY <1>7, <1>8
<1>10. lines[nodes[p].first].indent = nodes[p].indent /\ lines[nodes[n].first].indent = nodes[n].indent
  BY <1>7, <1>8 DEF FromItsLine
<1>11. ASSUME NEW m \in p + 1 .. n
       PROVE  /\ m \in DOMAIN nodes /\ nodes[m].kind # "comment" /\ nodes[m].indent > nodes[p].indent
              /\ lines[nodes[m].first].indent = nodes[m].indent /\ ~IsComment(lines[nodes[m].first].words)
  <2>1. m \in DOMAIN nodes
    BY <1>5, <1>8
  <2>2. nodes[m].kind # "comment" /\ nodes[m].indent > nodes[p].indent
    BY <1>9 DEF Encloses
  <2> QED BY <1>7, <2>1, <2>2 DEF FromItsLine
<1>12. ASSUME NEW i \in between
       PROVE  \E m \in p + 1 .. n - 1 : i = nodes[m].first
  <2>1. /\ i \in Nat /\ nodes[p].first < i /\ i < nodes[n].first /\ i \notin text /\ lines[i].words # <<>>
        /\ i \in 1 .. nodes[n].first - 1
    BY <1>6, <1>8
  <2>2. PICK m \in DOMAIN nodes : i \in nodes[m].first .. nodes[m].last
    <3>1. AllRead(nodes, lines, nodes[n].first - 1)
      BY <1>7
    <3> HIDE DEF between, text
    <3> QED BY <2>1, <3>1 DEF AllRead, InNode
  <2>3. m \in Nat /\ nodes[m].first \in Nat /\ nodes[m].last \in Nat /\ nodes[m].first <= i /\ i <= nodes[m].last
    BY <1>5, <1>6, <2>1, <2>2
  <2>4. m < n
    <3>1. ~(n < m)
      BY <1>6, <2>1, <2>3, SMTT(20)
    <3>2. m # n
      BY <1>6, <2>1, <2>3
    <3> QED BY <1>5, <2>3, <3>1, <3>2
  <2>5. p < m
    <3>1. nodes[p].last = nodes[p].first
      BY <1>7, <1>8 DEF FromItsLine
    <3>2. m # p
      BY <1>6, <1>8, <2>1, <2>3, <3>1
    <3>3. ~(m < p)
      <4>1. SUFFICES ASSUME m < p PROVE FALSE
        OBVIOUS
      <4>2. nodes[m].last < nodes[p].first
        BY <1>6, <1>8, <4>1
      <4> QED BY <1>6, <1>8, <2>1, <2>3, <4>2
    <3> QED BY <1>5, <1>8, <2>3, <3>2, <3>3
  <2>6. m \in p + 1 .. n - 1
    BY <1>5, <1>8, <2>3, <2>4, <2>5
  <2>7. i = nodes[m].first
    <3>1. CASE nodes[m].kind = "opaque"
      <4>1. nodes[m] \in banners
        BY <2>2, <3>1 DEF Range
      <4>2. i \notin nodes[m].first + 1 .. nodes[m].last
        BY <2>1, <4>1
      <4> QED BY <2>1, <2>3, <4>2
    <3>2. CASE nodes[m].kind # "opaque"
      <4>1. nodes[m].last = nodes[m].first
        BY <1>7, <2>2, <3>2 DEF FromItsLine
      <4> QED BY <2>1, <2>3, <4>1
    <3> QED BY <3>1, <3>2
  <2> QED BY <2>6, <2>7
<1>13. ASSUME NEW m \in p + 1 .. n - 1
       PROVE  nodes[m].first \in between
  <2>1. m \in DOMAIN nodes /\ p < m /\ m < n /\ m \in Nat
    BY <1>5, <1>8
  <2>2. nodes[p].first < nodes[m].first /\ nodes[m].first < nodes[n].first
    <3>1. nodes[p].last < nodes[m].first /\ nodes[m].last < nodes[n].first
      BY <1>6, <1>8, <2>1
    <3>2. \A l \in DOMAIN nodes : /\ nodes[l].first \in Nat /\ nodes[l].last \in Nat
                                 /\ nodes[l].first <= nodes[l].last
      BY <1>6
    <3>3. /\ nodes[p].first \in Nat /\ nodes[p].last \in Nat /\ nodes[p].first <= nodes[p].last
          /\ nodes[m].first \in Nat /\ nodes[m].last \in Nat /\ nodes[m].first <= nodes[m].last
          /\ nodes[n].first \in Nat
      BY <1>8, <2>1, <3>2
    <3> QED BY <3>1, <3>3
  <2>3. nodes[m].first \in nodes[p].first + 1 .. nodes[n].first - 1
    BY <1>6, <1>8, <2>1, <2>2
  <2>4. ASSUME NEW x \in banners, nodes[m].first \in x.first + 1 .. x.last PROVE FALSE
    <3>1. PICK l \in DOMAIN nodes : x = nodes[l]
      BY DEF Range
    <3>2. /\ l \in Nat /\ nodes[l].first \in Nat /\ nodes[l].last \in Nat
          /\ nodes[m].first \in Nat /\ nodes[m].last \in Nat
          /\ nodes[m].first <= nodes[m].last
      <4>1. \A k \in DOMAIN nodes : /\ nodes[k].first \in Nat /\ nodes[k].last \in Nat
                                   /\ nodes[k].first <= nodes[k].last
        BY <1>6
      <4>2. l \in Nat
        BY <1>5
      <4> QED BY <2>1, <4>1, <4>2
    <3>3. nodes[l].first < nodes[m].first /\ nodes[m].first <= nodes[l].last
      BY <2>4, <3>1, <3>2
    <3>4. ~(l < m)
      <4>1. l < m => nodes[l].last < nodes[m].first
        BY <1>6, <2>1
      <4> QED BY <3>2, <3>3, <4>1
    <3>5. ~(m < l)
      <4>1. m < l => nodes[m].last < nodes[l].first
        BY <1>6, <2>1
      <4> QED BY <3>2, <3>3, <4>1
    <3>6. l # m
      BY <3>2, <3>3
    <3> QED BY <2>1, <3>2, <3>4, <3>5, <3>6
  <2>5. lines[nodes[m].first].words # <<>>
    BY <1>7, <2>1 DEF FromItsLine
  <2> QED BY <2>3, <2>4, <2>5
<1>14. lines[nodes[p].first].indent < lines[nodes[n].first].indent
  <2>1. n \in p + 1 .. n
    BY <1>8
  <2>2. nodes[n].indent > nodes[p].indent
    BY <1>11, <2>1
  <2>3. nodes[n].indent \in Nat /\ nodes[p].indent \in Nat
    BY <1>1, <1>6, <1>8, <1>10
  <2> QED BY <1>10, <2>2, <2>3
<1>15. \A i \in between : lines[i].indent > lines[nodes[p].first].indent /\ ~IsComment(lines[i].words)
  <2> SUFFICES ASSUME NEW i \in between
               PROVE  lines[i].indent > lines[nodes[p].first].indent /\ ~IsComment(lines[i].words)
    OBVIOUS
  <2>1. PICK m \in p + 1 .. n - 1 : i = nodes[m].first
    BY <1>12
  <2>2. m \in p + 1 .. n
    BY <1>8
  <2> HIDE DEF between
  <2> QED BY <1>10, <1>11, <2>1, <2>2
<1>16. between # {} => \E i \in between : \/ lines[i].indent = lines[nodes[n].first].indent
                                          \/ i \in {x.first : x \in banners}
  <2> HIDE DEF between
  <2> SUFFICES ASSUME between # {}
               PROVE  \E i \in between : \/ lines[i].indent = lines[nodes[n].first].indent
                                         \/ i \in {x.first : x \in banners}
    OBVIOUS
  <2>1. p < n - 1 /\ n - 1 \in p + 1 .. n - 1
    <3>1. PICK m \in p + 1 .. n - 1 : TRUE
      BY <1>12
    <3> QED BY <1>8, <3>1
  <2>2. CASE nodes[n - 1].kind = "opaque"
    <3>1. n - 1 \in DOMAIN nodes
      BY <1>5, <1>8, <2>1
    <3>2. nodes[n - 1] \in banners
      BY <2>2, <3>1 DEF Range
    <3> HIDE DEF banners
    <3> QED BY <1>13, <2>1, <3>2
  <2>3. CASE \E m \in p + 1 .. n - 1 : nodes[m].indent = nodes[n].indent
    <3>1. PICK m \in p + 1 .. n - 1 : nodes[m].indent = nodes[n].indent
      BY <2>3
    <3>2. m \in p + 1 .. n
      BY <1>8
    <3>3. lines[nodes[m].first].indent = lines[nodes[n].first].indent
      BY <1>10, <1>11, <3>1, <3>2
    <3> QED BY <1>13, <3>3
  <2>4. Leveled(nodes, n)
    BY <1>7
  <2> QED BY <2>1, <2>2, <2>3, <2>4 DEF Leveled, p
<1> QED BY <1>14, <1>15, <1>16 DEF StandsIn, p

----------------------------------------------------------------------------
(* Where the reader meets banners.                                         *)

\* The parts of a word are a text, and those of the word that starts a banner are itself.
LEMMA Parts ==
  ASSUME NEW w
  PROVE  /\ PiecesOf(w) \in Seq(Range(PiecesOf(w))) /\ PiecesOf(w) # <<>>
         /\ w = "banner" => PiecesOf(w) = <<"banner">>
<1>1. CASE w \in DOMAIN Pieces
  BY <1>1, PiecesAssumption DEF PiecesOf
<1>2. CASE w \notin DOMAIN Pieces
  <2>1. PiecesOf(w) = <<w>>
    BY <1>2 DEF PiecesOf
  <2>2. w \in Range(<<w>>)
    BY DEF Range
  <2>3. <<w>> \in Seq(Range(<<w>>)) /\ <<w>> # <<>>
    <3> DEFINE S == Range(<<w>>)
    <3> HIDE DEF S
    <3> QED BY <2>2 DEF S
  <2> QED BY <2>1, <2>3
<1> QED BY <1>1, <1>2

\* Of nodes that are new, those of this kind are made of this line.
Grown(nodes, old, i, kind) ==
  \A n \in DOMAIN nodes : \/ n \in DOMAIN old /\ nodes[n] = old[n]
                          \/ nodes[n].kind = kind /\ nodes[n].first = i

\* A node that is added is of its kind and begins with its line.
LEMMA AddNodeGrows ==
  ASSUME NEW a, IsBuilder(a), ~Full(a),
         NEW kind, NEW tokens, NEW indent, NEW status, NEW i, NEW last, NEW forceRoot, NEW canParent
  PROVE  LET d == AddNode(a, Draft(kind, tokens, indent, status, i, last), forceRoot, canParent) IN
         IsBuilder(d) /\ d.next = a.next /\ Grown(d.nodes, a.nodes, i, kind)
<1> DEFINE draft == Draft(kind, tokens, indent, status, i, last)
           d == AddNode(a, draft, forceRoot, canParent)
           new == Len(a.nodes) + 1
           x == d.nodes[new]
<1>1. Added(a, d, draft, forceRoot, canParent)
  BY AddNodeAdds
<1>2. Len(a.nodes) \in Nat /\ DOMAIN a.nodes = 1 .. Len(a.nodes)
  BY NodeNumbers
<1> HIDE DEF d
<1>3. /\ IsBuilder(d) /\ d.next = a.next /\ DOMAIN d.nodes = 1 .. new
      /\ \A n \in DOMAIN a.nodes : d.nodes[n] = a.nodes[n]
      /\ x = [draft EXCEPT !.context = x.context, !.status = x.status]
  BY <1>1 DEF Added
<1> HIDE DEF x
<1>4. x.kind = kind /\ x.first = i
  BY <1>3 DEF Draft
<1>5. \A n \in 1 .. new : n \in DOMAIN a.nodes \/ n = new
  BY <1>2
<1>6. Grown(d.nodes, a.nodes, i, kind)
  BY <1>3, <1>4, <1>5 DEF Grown, x
<1> QED BY <1>3, <1>6 DEF d

\* What a line does to the reader that waits for it: nothing, or it starts a banner.
AfterLine(e, b, lines, i) ==
  LET words == lines[i].words
      starts == words # <<>> /\ IsBanner(words)
  IN /\ \A n \in DOMAIN e.nodes : e.nodes[n].kind = "opaque" =>
          \/ n \in DOMAIN b.nodes /\ e.nodes[n] = b.nodes[n]
          \/ starts /\ e.nodes[n].first = i
     /\ b.halted => e.halted
     /\ \/ e.next = b.next /\ (e.halted \/ ~starts)
        \/ starts /\ ~b.halted /\ \E end \in i .. Len(lines) : e.next = end + 1 /\ BannerRunsTo(lines, i, end, e.halted)

\* So it is when there are no certificate chains (IndentationCliReader.parse).
LEMMA LineStartsBanner ==
  ASSUME NEW lines, IsText(lines), NEW i \in 1 .. Len(lines), NEW b, ReadSoFar(b, lines, i - 1), b.next <= i,
         \/ lines[i].words = <<>> \/ IsBanner(lines[i].words) \/ ~IsCertificateChain(lines[i].words)
  PROVE  AfterLine(ReadLine(b, lines, i), b, lines, i)
<1> DEFINE words == lines[i].words
           e == ReadLine(b, lines, i)
<1> SUFFICES AfterLine(e, b, lines, i)
  OBVIOUS
<1> HIDE DEF e
<1>1. Len(lines) \in Nat /\ i \in Nat /\ i - 1 \in Nat /\ b.next \in Nat \ {0} /\ ~(i < b.next)
  BY TextLength DEF ReadSoFar
<1>2. IsBuilder(b) /\ Ordered(b, i - 1)
  <2>1. Reach(b, i - 1) = i - 1
    BY <1>1 DEF Reach
  <2> QED BY <2>1 DEF ReadSoFar, Ordered
<1>3. CASE b.halted
  <2>1. e = b
    BY <1>3 DEF e, ReadLine
  <2> QED BY <1>3, <2>1 DEF AfterLine
<1>4. CASE ~b.halted /\ Full(b)
  <2> DEFINE c == [b EXCEPT !.halted = TRUE, !.truncated = TRUE]
  <2>1. e = c
    BY <1>1, <1>4 DEF e, ReadLine
  <2>2. c.nodes = b.nodes /\ c.next = b.next /\ c.halted
    BY <1>2 DEF IsBuilder
  <2> HIDE DEF c
  <2> QED BY <1>4, <2>1, <2>2 DEF AfterLine
<1>5. CASE ~b.halted /\ ~Full(b) /\ words = <<>>
  <2>1. e = b
    BY <1>1, <1>5 DEF e, ReadLine
  <2> QED BY <1>5, <2>1 DEF AfterLine
<1>6. CASE ~b.halted /\ ~Full(b) /\ words # <<>> /\ IsComment(words)
  <2> DEFINE status == IF lines[i].flaw = "long" THEN "partial" ELSE "parsed"
             none == [command |-> NoCommand, args |-> <<>>, negated |-> FALSE]
             a == ResetContext(b)
             root == TRUE
             parent == FALSE
             d == AddNode(a, Draft("comment", none, 0, status, i, i), root, parent)
  <2>1. e = [d EXCEPT !.truncated = @ \/ lines[i].flaw = "long"]
    BY <1>1, <1>6 DEF e, ReadLine, ReadComment
  <2>2. a.nodes = b.nodes /\ a.stack = {} /\ a.next = b.next /\ DOMAIN a = DOMAIN b
    BY <1>2 DEF IsBuilder, ResetContext
  <2> HIDE DEF a
  <2>3. IsBuilder(a) /\ ~Full(a)
    BY <1>2, <1>6, <2>2 DEF IsBuilder, Full
  <2> HIDE DEF none, status, root, parent
  <2>4. IsBuilder(d) /\ d.next = a.next /\ Grown(d.nodes, a.nodes, i, "comment")
    BY <2>3, AddNodeGrows
  <2> HIDE DEF d
  <2>5. e.nodes = d.nodes /\ e.next = b.next
    BY <2>1, <2>2, <2>4 DEF IsBuilder
  <2>6. ~IsBanner(words)
    <3>1. IsBanner(words) => PiecesOf(Head(words)) = <<"banner">>
      BY Parts DEF IsBanner
    <3> QED BY <1>6, <3>1 DEF IsComment
  <2> QED BY <1>6, <2>2, <2>4, <2>5, <2>6 DEF AfterLine, Grown
<1>7. CASE ~b.halted /\ ~Full(b) /\ words # <<>> /\ ~IsComment(words)
           /\ ~(IsBanner(words) \/ IsCertificateChain(words))
  <2> DEFINE tokens == Tokens(words)
             status == IF lines[i].flaw # "none" THEN "partial"
                       ELSE IF tokens.command = NoCommand THEN "unresolved" ELSE "parsed"
             indent == lines[i].indent
             root == FALSE
             parent == TRUE
             d == AddNode(b, Draft("statement", tokens, indent, status, i, i), root, parent)
  <2>1. e = [d EXCEPT !.truncated = @ \/ lines[i].flaw = "long"]
    BY <1>1, <1>7 DEF e, ReadLine, ReadStatement
  <2> HIDE DEF tokens, status, root, parent, indent
  <2>2. IsBuilder(d) /\ d.next = b.next /\ Grown(d.nodes, b.nodes, i, "statement")
    BY <1>2, <1>7, AddNodeGrows
  <2> HIDE DEF d
  <2>3. e.nodes = d.nodes /\ e.next = b.next
    BY <2>1, <2>2 DEF IsBuilder
  <2> QED BY <1>7, <2>2, <2>3 DEF AfterLine, Grown
<1>8. CASE ~b.halted /\ ~Full(b) /\ words # <<>> /\ ~IsComment(words) /\ IsBanner(words)
  <2> DEFINE tokens == Tokens(words)
             indent == lines[i].indent
             never == FALSE
  <2>1. e = ReadBlock(b, lines, i)
    BY <1>1, <1>8 DEF e, ReadLine
  <2>2. never = FALSE
    OBVIOUS
  <2> HIDE DEF never
  <2>3. PICK end \in i .. Len(lines) :
          BannerRunsTo(lines, i, end, e.halted) /\ \E status : WithBlock(e, b, lines[i], status, i, end, never)
    BY <1>2, <2>1, <2>2, BlockEnds
  <2>4. PICK status : WithBlock(e, b, lines[i], status, i, end, never)
    BY <2>3
  <2> DEFINE d == AddNode(b, Draft("opaque", tokens, indent, status, i, end), never, never)
  <2>5. e.nodes = d.nodes /\ e.next = end + 1
    BY <2>4 DEF WithBlock
  <2> HIDE DEF tokens, indent
  <2>6. Grown(d.nodes, b.nodes, i, "opaque")
    BY <1>2, <1>8, AddNodeGrows
  <2> HIDE DEF d
  <2> QED BY <1>8, <2>3, <2>5, <2>6 DEF AfterLine, Grown
<1> QED BY <1>3, <1>4, <1>5, <1>6, <1>7, <1>8

----------------------------------------------------------------------------
(* The FortiOS reader.                                                     *)

SectionsSoFar(acc, lines, i) ==
  /\ Ordered(acc.builder, i)
  /\ \A j \in 1 .. i : \/ lines[j].words = <<>> \/ Head(PiecesOf(Head(lines[j].words))) = "#"
                       \/ InNode(acc.builder.nodes, j) \/ Full(acc.builder)

\* Each line is a node, unless it is empty, a comment, or there is no room for it
\* (FortiosCliReader.parse).
LEMMA FortiosLineKeeps ==
  ASSUME NEW lines, NEW i \in Nat \ {0}, NEW acc, SectionsSoFar(acc, lines, i - 1)
  PROVE  SectionsSoFar(FortiosLine(acc, lines, i), lines, i)
<1> DEFINE words == lines[i].words
           skipped == words = <<>> \/ Head(PiecesOf(Head(words))) = "#"
           b == acc.builder
<1>1. i - 1 \in Nat /\ i \in Nat /\ i - 1 <= i /\ Ordered(b, i - 1)
  BY DEF SectionsSoFar
<1>2. \A j \in 1 .. i : j \in 1 .. i - 1 \/ j = i
  BY <1>1
<1>3. CASE skipped
  <2>1. FortiosLine(acc, lines, i) = acc
    BY <1>3 DEF FortiosLine
  <2>2. Ordered(b, i)
    BY <1>1, OrderedElsewhere
  <2> QED BY <1>2, <1>3, <2>1, <2>2 DEF SectionsSoFar
<1>4. CASE ~skipped
  <2> DEFINE tokens == Tokens(words)
             draft == FortiosDraft(acc.sections, tokens, i)
             canParent == \/ draft.status = "parsed" /\ tokens.command \in {"config", "edit", "set", "unset"}
                          \/ tokens.command = NoCommand
             root == tokens.command = "end"
             c == AddNode(b, draft, root, canParent)
  <2>1. FortiosLine(acc, lines, i) = [builder |-> c, sections |-> SectionAfter(acc.sections, tokens.command)]
    BY <1>4 DEF FortiosLine
  <2>2. \E t, indent, status : draft = Draft("statement", t, indent, status, i, i)
    <3> HIDE DEF tokens
    <3> QED BY DEF FortiosDraft
  <2> HIDE DEF tokens, draft, canParent, root
  <2>3. PICK t, indent, status : draft = Draft("statement", t, indent, status, i, i)
    BY <2>2
  <2>4. /\ Ordered(c, i) /\ Extends(c, b)
        /\ \/ Full(b) /\ c = b
           \/ \E n \in DOMAIN c.nodes : c.nodes[n].first = i /\ c.nodes[n].last = i
    <3>1. canParent => "statement" = "statement"
      OBVIOUS
    <3>2. i - 1 < i /\ i <= i
      BY <1>1
    <3> QED BY <1>1, <2>3, <3>1, <3>2, AddNodeOrdered
  <2> HIDE DEF c
  <2>5. InNode(c.nodes, i) \/ Full(c)
    BY <1>1, <2>4 DEF InNode
  <2>6. IsBuilder(b) /\ IsBuilder(c)
    BY <1>1, <2>4 DEF Ordered
  <2>7. Full(b) => Full(c)
    <3>1. CASE c = b
      BY <3>1
    <3>2. CASE \E n \in DOMAIN c.nodes : c.nodes[n].first = i
      <4>1. Full(b) => c = b
        BY DEF AddNode, c
      <4> QED BY <4>1
    <3> QED BY <2>4, <3>1, <3>2
  <2>8. \A j \in 1 .. i - 1 : \/ lines[j].words = <<>> \/ Head(PiecesOf(Head(lines[j].words))) = "#"
                              \/ InNode(c.nodes, j) \/ Full(c)
    BY <2>4, <2>6, <2>7, ExtensionKeeps DEF SectionsSoFar
  <2> QED BY <1>2, <2>1, <2>4, <2>5, <2>8 DEF SectionsSoFar
<1> QED BY <1>3, <1>4

\* So it is for every text, after every line.
LEMMA SectionsSoFarHolds ==
  ASSUME NEW lines, Len(lines) \in Nat
  PROVE  \A i \in 0 .. Len(lines) : SectionsSoFar(SectionsFrom(lines)[i], lines, i)
<1> DEFINE bad == {i \in 0 .. Len(lines) : ~SectionsSoFar(SectionsFrom(lines)[i], lines, i)}
<1>1. SectionsSoFar(SectionsFrom(lines)[0], lines, 0)
  <2>1. SectionsFrom(lines)[0].builder = EmptyBuilder
    BY SectionsFromSteps
  <2>2. /\ EmptyBuilder.nodes = <<>> /\ EmptyBuilder.stack = {}
        /\ DOMAIN EmptyBuilder = {"nodes", "stack", "next", "truncated", "halted"}
    BY DEF EmptyBuilder
  <2>3. DOMAIN EmptyBuilder.nodes = {} /\ EmptyBuilder.nodes \in Seq(Range(EmptyBuilder.nodes))
    BY <2>2
  <2>4. Len(EmptyBuilder.nodes) <= MaxNodes
    BY <2>2, ReaderLimits
  <2> QED BY <2>1, <2>2, <2>3, <2>4 DEF SectionsSoFar, Ordered, IsBuilder
<1>2. ASSUME bad # {} PROVE FALSE
  <2>1. PICK n \in bad : \A x \in bad : n <= x
    <3>1. bad \subseteq Nat
      OBVIOUS
    <3> HIDE DEF bad
    <3> QED BY <1>2, <3>1, SmallestExists
  <2>2. n \in Nat /\ n # 0
    BY <1>1
  <2>3. n \in 1 .. Len(lines) /\ n - 1 \in 0 .. Len(lines) /\ n - 1 \notin bad
    BY <2>1, <2>2
  <2>4. SectionsSoFar(SectionsFrom(lines)[n - 1], lines, n - 1)
    BY <2>3
  <2>5. SectionsSoFar(SectionsFrom(lines)[n], lines, n)
    BY <2>2, <2>3, <2>4, SectionsFromSteps, FortiosLineKeeps
  <2> QED BY <2>1, <2>5
<1> QED BY <1>2

\* What the FortiOS reader makes of a text.
LEMMA FortiosIsRead ==
  ASSUME NEW doc, IsText(doc.lines)
  PROVE  LET nodes == ReadFortios(doc).nodes IN
         /\ WellFormed(nodes, Len(doc.lines))
         /\ \A i \in DOMAIN doc.lines :
              \/ doc.lines[i].words = <<>> \/ Head(PiecesOf(Head(doc.lines[i].words))) = "#"
              \/ InNode(nodes, i) \/ Cardinality(DOMAIN nodes) = MaxNodes
<1> DEFINE count == Len(doc.lines)
           acc == SectionsFrom(doc.lines)[count]
<1>1. count \in Nat /\ DOMAIN doc.lines = 1 .. count
  BY TextLength
<1>2. SectionsSoFar(acc, doc.lines, count)
  BY <1>1, SectionsSoFarHolds
<1>3. ReadFortios(doc).nodes = acc.builder.nodes
  BY DEF ReadFortios
<1> HIDE DEF acc
<1>4. Ordered(acc.builder, count) /\ IsBuilder(acc.builder)
  BY <1>2 DEF SectionsSoFar, Ordered
<1>5. WellFormed(acc.builder.nodes, count)
  BY <1>4, OrderedIsWellFormed
<1>6. Full(acc.builder) => Cardinality(DOMAIN acc.builder.nodes) = MaxNodes
  BY <1>4, NodesCounted
<1> QED BY <1>1, <1>2, <1>3, <1>5, <1>6 DEF SectionsSoFar

----------------------------------------------------------------------------
(* The XML and JSON readers.                                               *)

\* Of a set of more than so many numbers the first so many are taken: where the
\* readers stop when the nodes they may build are used up.
LEMMA FirstOfMany ==
  ASSUME NEW count \in Nat, NEW S, S \subseteq 1 .. count, NEW limit \in Nat,
         NEW i \in S, Cardinality(S \cap 1 .. i) > limit
  PROVE  Cardinality({x \in S : Cardinality(S \cap 1 .. x) <= limit}) = limit
<1> DEFINE C(j) == Cardinality(S \cap 1 .. j)
           over == {j \in 1 .. count : C(j) > limit}
<1>1. \A j \in 0 .. count : IsFiniteSet(S \cap 1 .. j) /\ C(j) \in Nat
  <2> SUFFICES ASSUME NEW j \in 0 .. count PROVE IsFiniteSet(S \cap 1 .. j) /\ C(j) \in Nat
    OBVIOUS
  <2>1. IsFiniteSet(1 .. j)
    BY FS_Interval
  <2>2. IsFiniteSet(S \cap 1 .. j)
    BY <2>1, FS_Subset
  <2> QED BY <2>2, FS_CardinalityType
<1>2. C(0) = 0
  <2>1. S \cap 1 .. 0 = {}
    OBVIOUS
  <2> QED BY <2>1, FS_EmptySet
<1>3. \A j \in 1 .. count : C(j) <= C(j - 1) + 1
  <2> SUFFICES ASSUME NEW j \in 1 .. count PROVE C(j) <= C(j - 1) + 1
    OBVIOUS
  <2> DEFINE A == S \cap 1 .. j - 1
  <2>1. j - 1 \in 0 .. count /\ j \notin A
    OBVIOUS
  <2>2. IsFiniteSet(A) /\ C(j - 1) = Cardinality(A) /\ C(j - 1) \in Nat
    BY <1>1, <2>1
  <2>3. IsFiniteSet(A \cup {j}) /\ Cardinality(A \cup {j}) = Cardinality(A) + 1
    <3> HIDE DEF A
    <3> QED BY <2>1, <2>2, FS_AddElement
  <2>4. S \cap 1 .. j \subseteq A \cup {j}
    OBVIOUS
  <2>5. C(j) <= Cardinality(A \cup {j})
    <3> HIDE DEF A
    <3> QED BY <2>3, <2>4, FS_Subset
  <2> HIDE DEF C, A
  <2> QED BY <2>2, <2>3, <2>5
<1>4. \A j, k \in 0 .. count : j <= k => C(j) <= C(k)
  <2> SUFFICES ASSUME NEW j \in 0 .. count, NEW k \in 0 .. count, j <= k PROVE C(j) <= C(k)
    OBVIOUS
  <2>1. S \cap 1 .. j \subseteq S \cap 1 .. k
    OBVIOUS
  <2> QED BY <1>1, <2>1, FS_Subset
<1>5. i \in over
  OBVIOUS
<1>6. PICK p \in over : \A x \in over : p <= x
  <2>1. over \subseteq Nat
    OBVIOUS
  <2> HIDE DEF over
  <2> QED BY <1>5, <2>1, SmallestExists
<1>7. p \in 1 .. count /\ p \in 0 .. count /\ p - 1 \in 0 .. count /\ C(p) > limit
  BY <1>6
<1>11. \A j \in 0 .. count : C(j) \in Nat
  BY <1>1
<1> HIDE DEF C
<1>8. C(p - 1) <= limit
  <2>1. CASE p = 1
    BY <1>2, <2>1
  <2>2. CASE p # 1
    <3>1. p - 1 \in 1 .. count /\ ~(p <= p - 1)
      BY <1>7, <2>2
    <3>2. p - 1 \notin over
      BY <1>6, <3>1
    <3> QED BY <1>7, <1>11, <3>1, <3>2
  <2> QED BY <2>1, <2>2
<1>9. C(p - 1) = limit
  <2>1. C(p) <= C(p - 1) + 1 /\ C(p) \in Nat /\ C(p - 1) \in Nat
    BY <1>3, <1>7, <1>11
  <2> QED BY <1>7, <1>8, <2>1
<1>10. {x \in S : C(x) <= limit} = S \cap 1 .. p - 1
  <2>1. ASSUME NEW x \in S PROVE C(x) <= limit <=> x \in 1 .. p - 1
    <3>1. x \in 1 .. count /\ x \in 0 .. count /\ C(x) \in Nat /\ p \in 0 .. count /\ p \in Nat
      <4>1. x \in 1 .. count /\ x \in 0 .. count
        OBVIOUS
      <4> QED BY <1>7, <1>11, <4>1
    <3>2. CASE x <= p - 1
      BY <1>4, <1>7, <1>9, <1>11, <3>1, <3>2
    <3>3. CASE ~(x <= p - 1)
      <4>1. p <= x
        BY <3>1, <3>3
      <4>2. C(p) <= C(x) /\ C(p) \in Nat
        BY <1>4, <1>11, <3>1, <4>1
      <4> QED BY <1>7, <3>1, <3>3, <4>2
    <3> QED BY <3>2, <3>3
  <2> QED BY <2>1
<1> QED BY <1>9, <1>10 DEF C

\* What the tree readers make of a document they do not refuse: each element that
\* is not too deep is a node, unless there are too many (XmlTreeReader.parse).
LEMMA TreeIsRead ==
  ASSUME NEW doc, IsText(doc.lines), ~ReadTree(doc).refused
  PROVE  LET nodes == ReadTree(doc).nodes IN
         /\ DOMAIN nodes \subseteq DOMAIN doc.lines
         /\ \A n \in DOMAIN nodes : nodes[n].first = n /\ nodes[n].last = n
         /\ \A i \in DOMAIN doc.lines :
              \/ InNode(nodes, i) \/ doc.lines[i].indent > MaxTreeDepth
              \/ Cardinality(DOMAIN nodes) = MaxNodes
<1> DEFINE lines == doc.lines
           nodes == TreeNodes(lines)
           shallow == {i \in 1 .. Len(lines) : lines[i].indent <= MaxTreeDepth}
           kept == {i \in shallow : Cardinality(shallow \cap 1 .. i) <= MaxNodes}
<1>1. Len(lines) \in Nat /\ DOMAIN lines = 1 .. Len(lines)
  BY TextLength
<1>2. ReadTree(doc).nodes = nodes
  BY DEF ReadTree, Refused
<1>3. DOMAIN nodes = kept /\ \A n \in kept : nodes[n].first = n /\ nodes[n].last = n
  BY DEF TreeNodes
<1>4. ASSUME NEW i \in 1 .. Len(lines), ~(lines[i].indent > MaxTreeDepth), i \notin kept
      PROVE  Cardinality(kept) = MaxNodes
  <2>1. i \in shallow
    BY <1>1, <1>4, ReaderLimits DEF IsText
  <2>2. shallow \subseteq 1 .. Len(lines) /\ shallow \cap 1 .. i \subseteq 1 .. i
    OBVIOUS
  <2>3. ~(Cardinality(shallow \cap 1 .. i) <= MaxNodes)
    BY <1>4, <2>1
  <2> HIDE DEF shallow
  <2>4. Cardinality(shallow \cap 1 .. i) \in Nat
    <3>1. IsFiniteSet(1 .. i)
      BY <1>1, FS_Interval
    <3> QED BY <2>2, <3>1, FS_Subset, FS_CardinalityType
  <2>5. Cardinality(shallow \cap 1 .. i) > MaxNodes
    BY <2>3, <2>4, ReaderLimits
  <2> QED BY <1>1, <2>1, <2>2, <2>5, FirstOfMany, ReaderLimits
<1>5. \A n \in kept : n \in n .. n
  BY <1>1
<1>6. kept \subseteq 1 .. Len(lines)
  OBVIOUS
<1> HIDE DEF kept, nodes
<1> QED BY <1>1, <1>2, <1>3, <1>4, <1>5, <1>6 DEF InNode
=============================================================================
