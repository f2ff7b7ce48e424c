------------------------ MODULE EffectiveStateProofs ------------------------
(***************************************************************************)
(* Proofs about EffectiveStateResolver, for any number of artifacts, VTY   *)
(* lines, values and statements.  Resolve computes every state from the    *)
(* facts in one step, so the invariant says what the facts are when it     *)
(* runs, above all that source order agrees with header order inside an    *)
(* artifact, and that the states are what Resolve made of them.  The       *)
(* properties then follow from lemmas about which facts decide, and about  *)
(* where the boundaries of overlapping VTY ranges fall.                    *)
(***************************************************************************)
EXTENDS EffectiveStateResolver, FiniteSetTheorems, WellFoundedInduction, TLAPS

----------------------------------------------------------------------------
(* The inductive invariant.                                                *)

FactsTyped ==
  /\ IsFiniteSet(facts)
  /\ \A f \in facts :
       /\ f.artifact \in Artifacts
       /\ f.field \in {"timeout", "hosts"}
       /\ f.says \in Says[f.field]
       /\ f.scope \in Ranges \cup {Device}

\* A fact has the line of its statement and the line that opens its block; a
\* logging host is stated outside every block.
LinesInv ==
  \A f \in facts :
    \E l \in 1 .. read[f.artifact] : \E h \in 1 .. l :
      f.lines = {l, h} /\ (f.field = "hosts" => h = l)

Line(f) == Max(f.lines)

\* Blocks do not nest: what stands later was not opened earlier.
OrderInv ==
  \A f, g \in facts : f.artifact = g.artifact =>
    /\ Line(f) = Line(g) => f = g
    /\ Line(f) <= Line(g) => SourceLine(f) <= SourceLine(g)

\* The open block is the latest.
BlockInv ==
  \A a \in Artifacts : block[a] # NoBlock =>
    /\ block[a].header \in 1 .. read[a]
    /\ block[a].range \in Ranges
    /\ \A f \in facts : f.artifact = a => SourceLine(f) <= block[a].header

\* What Resolve stores.
StatesOf ==
  (IF FieldFacts("timeout") = {} THEN {} ELSE ScalarStates("timeout", FieldFacts("timeout")))
  \cup (IF FieldFacts("hosts") = {} THEN {} ELSE CollectionStates("hosts", FieldFacts("hosts")))

IInv ==
  /\ read \in [Artifacts -> Nat] /\ block \in [Artifacts -> [header : Nat, range : Ranges \cup {Null}]]
  /\ resolved \in BOOLEAN
  /\ FactsTyped /\ LinesInv /\ OrderInv /\ BlockInv
  /\ states = (IF resolved THEN StatesOf ELSE {})

----------------------------------------------------------------------------
(* Lemmas about numbers and finite sets.                                   *)

\* Min and Max, which the resolver takes of evidence lines and of boundaries, exist.
LEMMA SmallestExists ==
  ASSUME NEW S, S \subseteq Nat, S # {}
  PROVE  \E m \in S : \A x \in S : m <= x
<1> DEFINE R == {p \in Nat \X Nat : p[1] < p[2]}
<1>1. IsWellFoundedOn(R, Nat)
  BY NatLessThanWellFounded DEF OpToRel
<1>2. \E m \in S : \A x \in S : ~(<<x, m>> \in R)
  <2> HIDE DEF R
  <2> QED BY <1>1, WFMin
<1>3. \E m \in S : \A x \in S : ~(x < m)
  BY <1>2
<1> QED BY <1>3

\* The same for the largest number of a bounded set.
LEMMA LargestExists ==
  ASSUME NEW S \in SUBSET Nat, S # {}, NEW b \in Nat, \A x \in S : x <= b
  PROVE  \E m \in S : \A x \in S : x <= m
<1> DEFINE T == {b - x : x \in S}
<1>1. T \in SUBSET Nat /\ T # {}
  <2>1. \A x \in S : b - x \in Nat
    OBVIOUS
  <2> QED BY <2>1
<1>2. PICK t \in T : \A y \in T : t <= y
  BY <1>1, SmallestExists
<1>3. PICK m \in S : t = b - m
  OBVIOUS
<1>4. \A x \in S : b - m <= b - x
  BY <1>2, <1>3
<1>5. \A x \in S : x \in Nat /\ m \in Nat /\ x <= m
  BY <1>4
<1> QED BY <1>5

\* Of the lines of a fact, the header is the least and the statement the greatest.
LEMMA PairBounds ==
  ASSUME NEW h \in Nat, NEW l \in Nat, h <= l
  PROVE  Min({l, h}) = h /\ Max({l, h}) = l
BY DEF Min, Max

\* The least boundary of a set is one of them, and below the others.
LEMMA MinOf ==
  ASSUME NEW S, S \subseteq Nat, S # {}
  PROVE  Min(S) \in S /\ \A x \in S : Min(S) <= x
<1>1. \E m \in S : \A x \in S : m <= x
  BY SmallestExists
<1> QED BY <1>1 DEF Min

\* The same for the greatest of a bounded set.
LEMMA MaxOf ==
  ASSUME NEW S, S \subseteq Nat, S # {}, NEW b \in Nat, \A x \in S : x <= b
  PROVE  Max(S) \in S /\ \A x \in S : x <= Max(S)
<1>1. PICK m \in S : \A x \in S : x <= m
  BY LargestExists
<1>2. \E n \in S : \A x \in S : n >= x
  BY <1>1
<1>3. Max(S) \in S /\ \A x \in S : Max(S) >= x
  BY <1>2 DEF Max
<1> QED BY <1>3

\* The resolver counts artifacts and verdicts; more than one means two that differ.
LEMMA MoreThanOne ==
  ASSUME NEW S, IsFiniteSet(S)
  PROVE  Cardinality(S) > 1 <=> \E x, y \in S : x # y
<1>1. CASE S = {}
  BY <1>1, FS_EmptySet
<1>2. CASE S # {}
  <2>1. PICK x \in S : TRUE
    BY <1>2
  <2>2. IsFiniteSet(S \ {x}) /\ Cardinality(S \ {x}) = Cardinality(S) - 1
    BY FS_RemoveElement
  <2>3. Cardinality(S) \in Nat /\ Cardinality(S \ {x}) \in Nat
    BY <2>2, FS_CardinalityType
  <2>4. Cardinality(S \ {x}) = 0 <=> S \ {x} = {}
    BY <2>2, FS_EmptySet
  <2>5. Cardinality(S) > 1 <=> S \ {x} # {}
    BY <2>2, <2>3, <2>4
  <2>6. S \ {x} # {} <=> \E y, z \in S : y # z
    OBVIOUS
  <2> QED BY <2>5, <2>6
<1> QED BY <1>1, <1>2

\* Finitely many facts say finitely many things, in finitely many artifacts.
LEMMA ImageFinite ==
  ASSUME NEW F, IsFiniteSet(F)
  PROVE  IsFiniteSet({f.says : f \in F}) /\ IsFiniteSet({f.artifact : f \in F})
<1>1. [f \in F |-> f.says] \in Surjection(F, {f.says : f \in F})
  BY DEF Surjection
<1>2. [f \in F |-> f.artifact] \in Surjection(F, {f.artifact : f \in F})
  BY DEF Surjection
<1> QED BY <1>1, <1>2, FS_Surjection

----------------------------------------------------------------------------
(* The invariant.                                                          *)

\* Where a fact stands: its header is not after its statement, and both are
\* among the lines read.
LEMMA FactLines ==
  ASSUME LinesInv, read \in [Artifacts -> Nat], NEW f \in facts, f.artifact \in Artifacts
  PROVE  /\ Line(f) \in Nat /\ SourceLine(f) \in Nat
         /\ 1 <= SourceLine(f) /\ SourceLine(f) <= Line(f) /\ Line(f) <= read[f.artifact]
         /\ f.lines = {Line(f), SourceLine(f)}
         /\ f.field = "hosts" => SourceLine(f) = Line(f)
<1>0. PICK l \in 1 .. read[f.artifact] :
        \E h \in 1 .. l : f.lines = {l, h} /\ (f.field = "hosts" => h = l)
  BY DEF LinesInv
<1>1. PICK h \in 1 .. l : f.lines = {l, h} /\ (f.field = "hosts" => h = l)
  BY <1>0
<1>2. l \in Nat /\ h \in Nat /\ 1 <= h /\ h <= l /\ l <= read[f.artifact]
  OBVIOUS
<1>3. Min({l, h}) = h /\ Max({l, h}) = l
  BY <1>2, PairBounds
<1> QED BY <1>1, <1>2, <1>3 DEF Line, SourceLine

\* One statement more, on the last line read and under a header not before
\* those of the artifact's other facts, keeps what the invariant says of facts.
LEMMA InterpretKeepsFacts ==
  ASSUME NEW a \in Artifacts, NEW header, NEW field \in {"timeout", "hosts"}, NEW scope, NEW says,
         read \in [Artifacts -> Nat], FactsTyped, LinesInv, OrderInv,
         read' \in [Artifacts -> Nat], \A b \in Artifacts \ {a} : read'[b] = read[b],
         read'[a] > read[a],
         header \in 1 .. read'[a], field = "hosts" => header = read'[a],
         scope \in Ranges \cup {Device}, says \in Says[field],
         \A f \in facts : f.artifact = a => SourceLine(f) <= header,
         Interpret(a, header, field, scope, says)
  PROVE  FactsTyped' /\ LinesInv' /\ OrderInv'
<1> DEFINE new == Fact(a, read'[a], header, field, scope, says)
<1>1. facts' = facts \cup {new}
  BY DEF Interpret
<1>2. /\ new.artifact = a /\ new.field = field /\ new.says = says /\ new.scope = scope
      /\ new.lines = {read'[a], header}
  BY DEF Fact
<1>3. read'[a] \in Nat /\ header \in Nat /\ header <= read'[a]
  OBVIOUS
<1>4. Line(new) = read'[a] /\ SourceLine(new) = header
  BY <1>2, <1>3, PairBounds DEF Line, SourceLine
<1> HIDE DEF new
<1>5. FactsTyped'
  BY <1>1, <1>2, FS_AddElement DEF FactsTyped
<1>6. LinesInv'
  <2> SUFFICES ASSUME NEW f \in facts'
               PROVE  \E l \in 1 .. read'[f.artifact] : \E h \in 1 .. l :
                        f.lines = {l, h} /\ (f.field = "hosts" => h = l)
    BY DEF LinesInv
  <2>1. CASE f = new
    <3>1. read'[a] \in 1 .. read'[a] /\ header \in 1 .. read'[a]
      BY <1>3
    <3> QED BY <2>1, <3>1, <1>2
  <2>2. CASE f \in facts
    <3>1. f.artifact \in Artifacts
      BY <2>2 DEF FactsTyped
    <3>2. read[f.artifact] \in Nat /\ read'[f.artifact] \in Nat /\ read[f.artifact] <= read'[f.artifact]
      BY <3>1
    <3>3. PICK l \in 1 .. read[f.artifact] :
            \E h \in 1 .. l : f.lines = {l, h} /\ (f.field = "hosts" => h = l)
      BY <2>2 DEF LinesInv
    <3>4. l \in 1 .. read'[f.artifact]
      BY <3>2
    <3> QED BY <3>3, <3>4
  <2> QED BY <1>1, <2>1, <2>2
<1>7. OrderInv'
  <2> SUFFICES ASSUME NEW f \in facts', NEW g \in facts', f.artifact = g.artifact
               PROVE  /\ Line(f) = Line(g) => f = g
                      /\ Line(f) <= Line(g) => SourceLine(f) <= SourceLine(g)
    BY DEF OrderInv, Line, SourceLine
  <2>1. \A e \in facts : e.artifact = a =>
          /\ Line(e) \in Nat /\ SourceLine(e) \in Nat
          /\ Line(e) < read'[a] /\ SourceLine(e) <= header
    <3> SUFFICES ASSUME NEW e \in facts, e.artifact = a
                 PROVE  /\ Line(e) \in Nat /\ SourceLine(e) \in Nat
                        /\ Line(e) < read'[a] /\ SourceLine(e) <= header
      OBVIOUS
    <3>1. Line(e) \in Nat /\ SourceLine(e) \in Nat /\ Line(e) <= read[a]
      BY FactLines
    <3>2. read[a] \in Nat /\ read'[a] \in Nat
      OBVIOUS
    <3> QED BY <3>1, <3>2
  <2>2. CASE f = new /\ g = new
    BY <2>2, <1>3, <1>4
  <2>3. CASE f = new /\ g \in facts
    BY <2>1, <2>3, <1>2, <1>3, <1>4
  <2>4. CASE f \in facts /\ g = new
    BY <2>1, <2>4, <1>2, <1>3, <1>4
  <2>5. CASE f \in facts /\ g \in facts
    BY <2>5 DEF OrderInv
  <2> QED BY <1>1, <2>2, <2>3, <2>4, <2>5
<1> QED BY <1>5, <1>6, <1>7

\* Reading a statement of artifact a under a header keeps the open blocks latest,
\* if the block now open in a, if any, is the one with that header.
LEMMA InterpretKeepsBlocks ==
  ASSUME NEW a \in Artifacts, NEW header, NEW field, NEW scope, NEW says,
         read \in [Artifacts -> Nat], read' \in [Artifacts -> Nat], BlockInv,
         \A b \in Artifacts \ {a} : read'[b] = read[b] /\ block'[b] = block[b],
         header \in 1 .. read'[a],
         block'[a] # NoBlock => block'[a].header = header /\ block'[a].range \in Ranges,
         \A f \in facts : f.artifact = a => SourceLine(f) <= header,
         Interpret(a, header, field, scope, says)
  PROVE  BlockInv'
<1> DEFINE new == Fact(a, read'[a], header, field, scope, says)
<1>1. facts' = facts \cup {new}
  BY DEF Interpret
<1>2. new.artifact = a /\ new.lines = {read'[a], header}
  BY DEF Fact
<1>3. read'[a] \in Nat /\ header \in Nat /\ header <= read'[a]
  OBVIOUS
<1>4. SourceLine(new) = header
  BY <1>2, <1>3, PairBounds DEF SourceLine
<1> HIDE DEF new
<1> SUFFICES ASSUME NEW b \in Artifacts, block'[b] # NoBlock
             PROVE  /\ block'[b].header \in 1 .. read'[b]
                    /\ block'[b].range \in Ranges
                    /\ \A f \in facts' : f.artifact = b => SourceLine(f) <= block'[b].header
  BY DEF BlockInv, SourceLine, NoBlock, Ranges
<1>5. CASE b = a
  BY <1>1, <1>3, <1>4, <1>5
<1>6. CASE b # a
  BY <1>1, <1>2, <1>6 DEF BlockInv
<1> QED BY <1>5, <1>6

\* Nothing has been read at the start.
LEMMA InvariantInit == Init => IInv
<1> SUFFICES ASSUME Init PROVE IInv
  OBVIOUS
<1> USE DEF Init
<1>1. read \in [Artifacts -> Nat] /\ resolved \in BOOLEAN
  OBVIOUS
<1>2. block \in [Artifacts -> [header : Nat, range : Ranges \cup {Null}]]
  BY DEF NoBlock
<1>3. FactsTyped /\ LinesInv /\ OrderInv
  BY FS_EmptySet DEF FactsTyped, LinesInv, OrderInv
<1>4. BlockInv
  BY DEF BlockInv
<1>5. states = (IF resolved THEN StatesOf ELSE {})
  OBVIOUS
<1> QED BY <1>1, <1>2, <1>3, <1>4, <1>5 DEF IInv

\* Every statement, and Resolve, keep the invariant.
LEMMA InvariantNext == IInv /\ [Next]_vars => IInv'
<1> SUFFICES ASSUME IInv, [Next]_vars PROVE IInv'
  OBVIOUS
<1>t. /\ read \in [Artifacts -> Nat] /\ resolved \in BOOLEAN
      /\ block \in [Artifacts -> [header : Nat, range : Ranges \cup {Null}]]
      /\ FactsTyped /\ LinesInv /\ OrderInv /\ BlockInv
      /\ states = (IF resolved THEN StatesOf ELSE {})
  BY DEF IInv
<1>u. \A f \in facts : f.artifact \in Artifacts /\ SourceLine(f) \in Nat /\ SourceLine(f) <= read[f.artifact]
  <2>1. \A f \in facts : f.artifact \in Artifacts
    BY <1>t DEF FactsTyped
  <2> SUFFICES ASSUME NEW f \in facts
               PROVE  SourceLine(f) \in Nat /\ SourceLine(f) <= read[f.artifact]
    BY <2>1
  <2>2. /\ Line(f) \in Nat /\ SourceLine(f) \in Nat
        /\ SourceLine(f) <= Line(f) /\ Line(f) <= read[f.artifact]
    BY <1>t, <2>1, FactLines
  <2>3. read[f.artifact] \in Nat
    BY <1>t, <2>1
  <2> QED BY <2>2, <2>3
<1>1. ASSUME NEW a \in Artifacts, NEW range \in Ranges, NEW says \in Says.timeout,
             BlockOpened(a, range, says)
      PROVE  IInv'
  <2> DEFINE header == read[a] + 1
  <2>1. /\ read' = [read EXCEPT ![a] = header + 1]
        /\ block' = [block EXCEPT ![a] = [header |-> header, range |-> range]]
        /\ Interpret(a, header, "timeout", range, says)
    BY <1>1 DEF BlockOpened
  <2>2. read' \in [Artifacts -> Nat] /\ header \in 1 .. read'[a] /\ read'[a] > read[a]
        /\ \A b \in Artifacts \ {a} : read'[b] = read[b] /\ block'[b] = block[b]
    BY <2>1, <1>t
  <2>3. block'[a].header = header /\ block'[a].range \in Ranges
    BY <2>1, <1>t
  <2>4. block' \in [Artifacts -> [header : Nat, range : Ranges \cup {Null}]]
    BY <2>1, <1>t
  <2>5. \A f \in facts : f.artifact = a => SourceLine(f) <= header
    BY <1>u, <1>t
  <2>6. says \in Says["timeout"] /\ range \in Ranges \cup {Device}
    BY DEF Says
  <2> HIDE DEF header
  <2>7. FactsTyped' /\ LinesInv' /\ OrderInv'
    BY <1>t, <2>1, <2>2, <2>5, <2>6, InterpretKeepsFacts
  <2>8. BlockInv'
    BY <1>t, <2>1, <2>2, <2>3, <2>5, InterpretKeepsBlocks
  <2>9. resolved' = FALSE /\ states' = {}
    BY <2>1, <1>t DEF Interpret
  <2> QED BY <2>2, <2>4, <2>7, <2>8, <2>9 DEF IInv
<1>2. ASSUME NEW a \in Artifacts, NEW says \in Says.timeout, BlockContinued(a, says)
      PROVE  IInv'
  <2> DEFINE header == block[a].header
  <2>1. /\ block[a] # NoBlock
        /\ read' = [read EXCEPT ![a] = read[a] + 1]
        /\ block' = block
        /\ Interpret(a, header, "timeout", block[a].range, says)
    BY <1>2 DEF BlockContinued
  <2>2. header \in 1 .. read[a] /\ block[a].range \in Ranges
        /\ \A f \in facts : f.artifact = a => SourceLine(f) <= header
    BY <2>1, <1>t DEF BlockInv
  <2>3. read' \in [Artifacts -> Nat] /\ header \in 1 .. read'[a] /\ read'[a] > read[a]
        /\ \A b \in Artifacts \ {a} : read'[b] = read[b] /\ block'[b] = block[b]
    BY <2>1, <2>2, <1>t
  <2>4. says \in Says["timeout"] /\ block[a].range \in Ranges \cup {Device}
    BY <2>2 DEF Says
  <2>5. block'[a].header = header /\ block'[a].range \in Ranges
    BY <2>1, <2>2
  <2> HIDE DEF header
  <2>6. FactsTyped' /\ LinesInv' /\ OrderInv'
    BY <1>t, <2>1, <2>2, <2>3, <2>4, InterpretKeepsFacts
  <2>7. BlockInv'
    BY <1>t, <2>1, <2>2, <2>3, <2>5, InterpretKeepsBlocks
  <2>8. resolved' = FALSE /\ states' = {}
    BY <2>1, <1>t DEF Interpret
  <2> QED BY <1>t, <2>1, <2>3, <2>6, <2>7, <2>8 DEF IInv
<1>3. ASSUME NEW a \in Artifacts, NEW field \in {"timeout", "hosts"}, NEW says \in Says[field],
             DeviceStatement(a, field, says)
      PROVE  IInv'
  <2> DEFINE header == read[a] + 1
  <2>1. /\ read' = [read EXCEPT ![a] = read[a] + 1]
        /\ block' = [block EXCEPT ![a] = NoBlock]
        /\ Interpret(a, header, field, Device, says)
    BY <1>3 DEF DeviceStatement
  <2>2. read' \in [Artifacts -> Nat] /\ header \in 1 .. read'[a] /\ read'[a] > read[a]
        /\ header = read'[a]
        /\ \A b \in Artifacts \ {a} : read'[b] = read[b] /\ block'[b] = block[b]
    BY <2>1, <1>t
  <2>3. block'[a] = NoBlock
    BY <2>1, <1>t
  <2>4. block' \in [Artifacts -> [header : Nat, range : Ranges \cup {Null}]]
    BY <2>1, <1>t DEF NoBlock
  <2>5. \A f \in facts : f.artifact = a => SourceLine(f) <= header
    BY <1>u, <1>t
  <2> HIDE DEF header
  <2>6. FactsTyped' /\ LinesInv' /\ OrderInv'
    BY <1>t, <2>1, <2>2, <2>5, InterpretKeepsFacts
  <2>7. BlockInv'
    BY <1>t, <2>1, <2>2, <2>3, <2>5, InterpretKeepsBlocks
  <2>8. resolved' = FALSE /\ states' = {}
    BY <2>1, <1>t DEF Interpret
  <2> QED BY <2>2, <2>4, <2>6, <2>7, <2>8 DEF IInv
<1>4. CASE Resolve
  <2>1. resolved' = TRUE /\ states' = StatesOf /\ UNCHANGED <<read, block, facts>>
    BY <1>4 DEF Resolve, StatesOf
  <2>2. StatesOf' = StatesOf
    BY <2>1 DEF StatesOf, FieldFacts
  <2>3. FactsTyped' /\ LinesInv' /\ OrderInv' /\ BlockInv'
    BY <1>t, <2>1 DEF FactsTyped, LinesInv, OrderInv, BlockInv, Line, SourceLine
  <2> QED BY <1>t, <2>1, <2>2, <2>3 DEF IInv
<1>5. CASE UNCHANGED vars
  <2>1. UNCHANGED <<read, block, facts, resolved, states>>
    BY <1>5 DEF vars
  <2>2. StatesOf' = StatesOf
    BY <2>1 DEF StatesOf, FieldFacts
  <2>3. FactsTyped' /\ LinesInv' /\ OrderInv' /\ BlockInv'
    BY <1>t, <2>1 DEF FactsTyped, LinesInv, OrderInv, BlockInv, Line, SourceLine
  <2> QED BY <1>t, <2>1, <2>2, <2>3 DEF IInv
<1> QED BY <1>1, <1>2, <1>3, <1>4, <1>5 DEF Next

\* The facts of an audit keep their order in the source while they are read, and
\* its states are those the resolver made of them.
THEOREM ResolverInvariantHolds == Spec => []IInv
<1> QED BY InvariantInit, InvariantNext, PTL DEF Spec

----------------------------------------------------------------------------
(* Which facts decide.                                                     *)

\* What IInv says of any two facts, in the terms of the resolver.
LEMMA FactOrder ==
  ASSUME IInv
  PROVE  /\ IsFiniteSet(facts)
         /\ \A f \in facts : /\ Line(f) \in Nat /\ SourceLine(f) \in Nat
                             /\ f.artifact \in Artifacts /\ Line(f) <= read[f.artifact]
                             /\ read[f.artifact] \in Nat
                             /\ f.field = "hosts" => SourceLine(f) = Line(f)
         /\ OrderInv
<1>1. read \in [Artifacts -> Nat] /\ FactsTyped /\ LinesInv /\ OrderInv
  BY DEF IInv
<1>2. \A f \in facts : f.artifact \in Artifacts
  BY <1>1 DEF FactsTyped
<1>3. \A f \in facts : /\ Line(f) \in Nat /\ SourceLine(f) \in Nat /\ Line(f) <= read[f.artifact]
                       /\ f.field = "hosts" => SourceLine(f) = Line(f)
  BY <1>1, <1>2, FactLines
<1> QED BY <1>1, <1>2, <1>3 DEF FactsTyped

\* Every artifact among the facts F has a last statement in F.
LEMMA StandingExists ==
  ASSUME IInv, NEW F, F \subseteq facts, NEW e \in F
  PROVE  \E f \in Standing(F) : f.artifact = e.artifact
<1> DEFINE L == {Line(f) : f \in {g \in F : g.artifact = e.artifact}}
<1>1. L \subseteq Nat /\ L # {} /\ read[e.artifact] \in Nat
  BY FactOrder
<1>2. \A x \in L : x <= read[e.artifact]
  BY FactOrder
<1>3. PICK m \in L : \A x \in L : x <= m
  BY <1>1, <1>2, LargestExists
<1>4. PICK f \in F : f.artifact = e.artifact /\ m = Line(f)
  OBVIOUS
<1>5. \A g \in F : g.artifact = f.artifact => Line(g) <= Line(f)
  BY <1>3, <1>4
<1> QED BY <1>4, <1>5 DEF Standing, Line

\* Facts of several artifacts all decide.
LEMMA SeveralArtifacts ==
  ASSUME IInv, NEW F, F \subseteq facts
  PROVE  /\ (\E f, g \in F : f.artifact # g.artifact) => Deciding(F) = F
         /\ (\A f, g \in F : f.artifact = g.artifact) =>
              Deciding(F) = {f \in F : \A g \in F : SourceLine(g) <= SourceLine(f)}
<1>1. IsFiniteSet(F)
  BY FactOrder, FS_Subset
<1> DEFINE A == {f.artifact : f \in F}
<1>2. IsFiniteSet(A)
  BY <1>1, ImageFinite
<1>3. Cardinality(A) > 1 <=> \E x, y \in A : x # y
  <2> HIDE DEF A
  <2> QED BY <1>2, MoreThanOne
<1>4. (\E x, y \in A : x # y) <=> \E f, g \in F : f.artifact # g.artifact
  OBVIOUS
<1> QED BY <1>3, <1>4 DEF Deciding

\* The last statement of every artifact is among the facts that decide.
LEMMA StandingDecides ==
  ASSUME IInv, NEW F, F \subseteq facts
  PROVE  Standing(F) \subseteq Deciding(F)
<1> SUFFICES ASSUME NEW f \in Standing(F) PROVE f \in Deciding(F)
  OBVIOUS
<1>1. f \in F /\ \A g \in F : g.artifact = f.artifact => Line(g) <= Line(f)
  BY DEF Standing, Line
<1>2. CASE \E g, h \in F : g.artifact # h.artifact
  BY <1>1, <1>2, SeveralArtifacts
<1>3. CASE \A g, h \in F : g.artifact = h.artifact
  <2>1. \A g \in F : SourceLine(g) <= SourceLine(f)
    BY <1>1, <1>3, FactOrder DEF OrderInv
  <2> QED BY <1>1, <1>3, <2>1, SeveralArtifacts
<1> QED BY <1>2, <1>3

\* Facts of one artifact that decide stand under one header.
LEMMA DecidingShareHeader ==
  ASSUME IInv, NEW F, F \subseteq facts, NEW f \in Deciding(F), NEW g \in Deciding(F),
         \A d, e \in F : d.artifact = e.artifact
  PROVE  SourceLine(f) = SourceLine(g)
<1>1. Deciding(F) = {d \in F : \A e \in F : SourceLine(e) <= SourceLine(d)}
  BY SeveralArtifacts
<1>2. f \in F /\ g \in F /\ SourceLine(f) <= SourceLine(g) /\ SourceLine(g) <= SourceLine(f)
  BY <1>1
<1>3. SourceLine(f) \in Nat /\ SourceLine(g) \in Nat
  BY <1>2, FactOrder
<1> QED BY <1>2, <1>3

\* A conflict is between two facts that decide, and without one they all say the
\* same.
LEMMA ConflictMeans ==
  ASSUME IInv, NEW F, F \subseteq facts
  PROVE  /\ Deciding(F) \subseteq F
         /\ Conflict(F) <=> \E f, g \in Deciding(F) : f.says # g.says
         /\ F # {} => Deciding(F) # {}
<1>1. Deciding(F) \subseteq F
  BY DEF Deciding
<1>2. IsFiniteSet(Deciding(F))
  BY <1>1, FactOrder, FS_Subset
<1>3. IsFiniteSet(Verdicts(F))
  BY <1>2, ImageFinite DEF Verdicts
<1>4. Conflict(F) <=> \E x, y \in Verdicts(F) : x # y
  BY <1>3, MoreThanOne DEF Conflict
<1>5. (\E x, y \in Verdicts(F) : x # y) <=> \E f, g \in Deciding(F) : f.says # g.says
  BY DEF Verdicts
<1>6. F # {} => Deciding(F) # {}
  <2> SUFFICES ASSUME NEW e \in F PROVE Deciding(F) # {}
    OBVIOUS
  <2> QED BY StandingExists, StandingDecides
<1> QED BY <1>1, <1>4, <1>5, <1>6

----------------------------------------------------------------------------
(* What the states are.                                                    *)

\* What a statement of each field can say.
LEMMA SaysCases ==
  ASSUME IInv, NEW f \in facts
  PROVE  /\ f.field = "timeout" =>
              \/ f.says = <<"reset", Null>>
              \/ f.says = <<"assign", f.says[2]>> /\ f.says[2] \in Timeouts
         /\ f.field = "hosts" =>
              \/ f.says = <<"reset", Null>>
              \/ /\ f.says = <<"assign", f.says[2]>> \/ f.says = <<"remove", f.says[2]>>
                 /\ f.says[2] \in Hosts
<1>1. f.field \in {"timeout", "hosts"} /\ f.says \in Says[f.field]
  BY DEF IInv, FactsTyped
<1>2. CASE f.field = "timeout"
  <2>1. f.says \in ({"assign"} \X Timeouts) \cup {<<"reset", Null>>}
    BY <1>1, <1>2 DEF Says
  <2> QED BY <2>1, <1>2
<1>3. CASE f.field = "hosts"
  <2>1. f.says \in ({"assign", "remove"} \X Hosts) \cup {<<"reset", Null>>}
    BY <1>1, <1>3 DEF Says
  <2> QED BY <2>1, <1>3
<1> QED BY <1>1, <1>2, <1>3

\* A state of the scalar field, and the facts it rests on.
LEMMA ScalarShape ==
  ASSUME IInv, NEW scope, NEW F, F \subseteq FieldFacts("timeout"), F # {}
  PROVE  LET t == ScalarState("timeout", scope, F) IN
         /\ t.field = "timeout" /\ t.scope = scope /\ t.sources = F
         /\ Conflict(F) => t.status = "conflicting" /\ t.value = Null
         /\ ~Conflict(F) => \E w : /\ \A f \in Deciding(F) : f.says = w
                                   /\ \E f \in Deciding(F) : f.says = w
                                   /\ w[1] = "assign" => t.status = "resolved" /\ t.value = w[2]
                                   /\ w[1] # "assign" => t.status = "unknown" /\ t.value = Null
<1> DEFINE t == ScalarState("timeout", scope, F)
<1>1. F \subseteq facts
  BY DEF FieldFacts
<1>2. t.field = "timeout" /\ t.scope = scope /\ t.sources = F
  BY DEF ScalarState, State
<1>3. ASSUME Conflict(F) PROVE t.status = "conflicting" /\ t.value = Null
  BY <1>3 DEF ScalarState, State
<1>4. ASSUME ~Conflict(F)
      PROVE  \E w : /\ \A f \in Deciding(F) : f.says = w
                    /\ \E f \in Deciding(F) : f.says = w
                    /\ w[1] = "assign" => t.status = "resolved" /\ t.value = w[2]
                    /\ w[1] # "assign" => t.status = "unknown" /\ t.value = Null
  <2> DEFINE w == CHOOSE s \in Verdicts(F) : TRUE
  <2>1. Deciding(F) # {} /\ \A f, g \in Deciding(F) : f.says = g.says
    BY <1>1, <1>4, ConflictMeans
  <2>2. w \in Verdicts(F)
    BY <2>1 DEF Verdicts
  <2>3. (\A f \in Deciding(F) : f.says = w) /\ \E f \in Deciding(F) : f.says = w
    BY <2>1, <2>2 DEF Verdicts
  <2>4. t = IF w[1] = "assign" THEN State("timeout", scope, F, "resolved", w[2])
            ELSE State("timeout", scope, F, "unknown", Null)
    BY <1>4 DEF ScalarState
  <2> HIDE DEF w
  <2>5. /\ w[1] = "assign" => t.status = "resolved" /\ t.value = w[2]
        /\ w[1] # "assign" => t.status = "unknown" /\ t.value = Null
    BY <2>4 DEF State
  <2> QED BY <2>3, <2>5
<1> QED BY <1>2, <1>3, <1>4

\* The state of the collection, and the facts it rests on.
LEMMA CollectionShape ==
  ASSUME NEW scope, NEW F
  PROVE  LET t == CollectionState("hosts", scope, F)
             unclear == \E v \in {f.says[2] : f \in F} : Conflict(OfMember(F, v)) \/ v = Null
         IN /\ t.field = "hosts" /\ t.scope = scope /\ t.sources = F
            /\ unclear => t.status = "conflicting" /\ t.value = Null
            /\ ~unclear => /\ t.status = "resolved"
                           /\ t.value = <<"list", {v \in {f.says[2] : f \in F} :
                                             Verdicts(OfMember(F, v)) = {<<"assign", v>>}}>>
BY DEF CollectionState, State

\* Every state stored is of one field, for a non-empty set of its facts.
LEMMA StatesAre ==
  ASSUME IInv, NEW t \in states
  PROVE  \/ \E scope, F : /\ F \subseteq FieldFacts("timeout") /\ F # {}
                          /\ t = ScalarState("timeout", scope, F)
         \/ \E scope, F : /\ F \subseteq FieldFacts("hosts") /\ F # {}
                          /\ t = CollectionState("hosts", scope, F)
<1> DEFINE T == FieldFacts("timeout")
           H == FieldFacts("hosts")
<1>1. t \in StatesOf
  BY DEF IInv
<1>2. CASE T # {} /\ t \in ScalarStates("timeout", T)
  <2>1. CASE \E f \in T : ~IsRange(f.scope)
    <3>1. PICK f \in T : t = ScalarState("timeout", f.scope, OfScope(T, f.scope))
      BY <1>2, <2>1 DEF ScalarStates
    <3>2. OfScope(T, f.scope) \subseteq T /\ f \in OfScope(T, f.scope)
      BY DEF OfScope
    <3> QED BY <3>1, <3>2
  <2>2. CASE ~\E f \in T : ~IsRange(f.scope)
    <3>1. PICK r \in Partitions(T) : t = ScalarState("timeout", r, Applicable(T, r))
      BY <1>2, <2>2 DEF ScalarStates
    <3>2. Applicable(T, r) # {}
      BY DEF Partitions
    <3>3. Applicable(T, r) \subseteq T
      BY DEF Applicable
    <3> QED BY <3>1, <3>2, <3>3
  <2> QED BY <2>1, <2>2
<1>3. CASE H # {} /\ t \in CollectionStates("hosts", H)
  <2>1. PICK f \in H : t = CollectionState("hosts", f.scope, OfScope(H, f.scope))
    BY <1>3 DEF CollectionStates
  <2>2. OfScope(H, f.scope) \subseteq H /\ f \in OfScope(H, f.scope)
    BY DEF OfScope
  <2> QED BY <2>1, <2>2
<1> QED BY <1>1, <1>2, <1>3 DEF StatesOf

----------------------------------------------------------------------------
(* The properties of a single state.                                       *)

\* The invariant gives the type invariant, of facts and of states.
LEMMA InvariantTypes == IInv => TypeOK
<1> SUFFICES ASSUME IInv PROVE TypeOK
  OBVIOUS
<1>1. read \in [Artifacts -> Nat]
  BY DEF IInv
<1>2. \A f \in facts : /\ f.artifact \in Artifacts
                       /\ f.says \in Says[f.field]
                       /\ f.scope \in Ranges \cup {Device}
  BY DEF IInv, FactsTyped
<1>3. \A f \in facts : f.lines \subseteq 1 .. read[f.artifact]
  <2> SUFFICES ASSUME NEW f \in facts PROVE f.lines \subseteq 1 .. read[f.artifact]
    OBVIOUS
  <2>1. /\ Line(f) \in Nat /\ SourceLine(f) \in Nat /\ 1 <= SourceLine(f) /\ SourceLine(f) <= Line(f)
        /\ Line(f) <= read[f.artifact] /\ f.lines = {Line(f), SourceLine(f)}
    BY <1>2, FactLines DEF IInv
  <2>2. read[f.artifact] \in Nat
    BY <1>1, <1>2
  <2> QED BY <2>1, <2>2
<1>4. \A f, g \in facts : f.artifact = g.artifact /\ Max(f.lines) = Max(g.lines) => f = g
  BY DEF IInv, OrderInv, Line
<1>5. ASSUME NEW t \in states
      PROVE  /\ t.sources # {} /\ t.sources \subseteq facts
             /\ t.status \in {"resolved", "unknown", "conflicting"}
             /\ (t.value # Null) = (t.status = "resolved")
  <2>1. ASSUME NEW scope, NEW F, F \subseteq FieldFacts("timeout"), F # {},
               t = ScalarState("timeout", scope, F)
        PROVE  /\ t.sources # {} /\ t.sources \subseteq facts
               /\ t.status \in {"resolved", "unknown", "conflicting"}
               /\ (t.value # Null) = (t.status = "resolved")
    <3>1. F \subseteq facts /\ \A f \in F : f.field = "timeout"
      BY <2>1 DEF FieldFacts
    <3>2. /\ t.sources = F
          /\ Conflict(F) => t.status = "conflicting" /\ t.value = Null
          /\ ~Conflict(F) => \E w : /\ \A f \in Deciding(F) : f.says = w
                                    /\ \E f \in Deciding(F) : f.says = w
                                    /\ w[1] = "assign" => t.status = "resolved" /\ t.value = w[2]
                                    /\ w[1] # "assign" => t.status = "unknown" /\ t.value = Null
      BY <2>1, ScalarShape
    <3>3. CASE Conflict(F)
      BY <2>1, <3>1, <3>2, <3>3
    <3>4. CASE ~Conflict(F)
      <4>1. PICK w : /\ \E f \in Deciding(F) : f.says = w
                     /\ w[1] = "assign" => t.status = "resolved" /\ t.value = w[2]
                     /\ w[1] # "assign" => t.status = "unknown" /\ t.value = Null
        BY <3>2, <3>4
      <4>2. Deciding(F) \subseteq F
        BY <3>1, ConflictMeans
      <4>3. \/ w = <<"reset", Null>>
            \/ w = <<"assign", w[2]>> /\ w[2] \in Timeouts
        BY <3>1, <4>1, <4>2, SaysCases
      <4>4. CASE w = <<"reset", Null>>
        <5>1. w[1] # "assign"
          BY <4>4
        <5> QED BY <2>1, <3>1, <3>2, <4>1, <5>1
      <4>5. CASE w = <<"assign", w[2]>> /\ w[2] \in Timeouts
        <5>1. w[1] = "assign" /\ w[2] # Null
          BY <4>5, ResolverConstants
        <5> QED BY <2>1, <3>1, <3>2, <4>1, <5>1
      <4> QED BY <4>3, <4>4, <4>5
    <3> QED BY <3>3, <3>4
  <2>2. ASSUME NEW scope, NEW F, F \subseteq FieldFacts("hosts"), F # {},
               t = CollectionState("hosts", scope, F)
        PROVE  /\ t.sources # {} /\ t.sources \subseteq facts
               /\ t.status \in {"resolved", "unknown", "conflicting"}
               /\ (t.value # Null) = (t.status = "resolved")
    <3> DEFINE members == {f.says[2] : f \in F}
               present == {v \in members : Verdicts(OfMember(F, v)) = {<<"assign", v>>}}
               unclear == \E v \in members : Conflict(OfMember(F, v)) \/ v = Null
    <3>1. F \subseteq facts /\ \A f \in F : f.field = "hosts"
      BY <2>2 DEF FieldFacts
    <3>2. /\ t.sources = F
          /\ unclear => t.status = "conflicting" /\ t.value = Null
          /\ ~unclear => t.status = "resolved" /\ t.value = <<"list", present>>
      BY <2>2, CollectionShape
    <3>3. CASE unclear
      BY <2>2, <3>1, <3>2, <3>3
    <3>4. CASE ~unclear
      <4>1. \A f \in F : f.says[2] # Null
        BY <3>4
      <4>2. \A f \in F : f.says[2] \in Hosts
        BY <3>1, <4>1, SaysCases
      <4>3. present \in SUBSET Hosts
        BY <4>2
      <4>4. t.value # Null
        BY <3>2, <3>4, <4>3, ResolverConstants
      <4> QED BY <2>2, <3>1, <3>2, <3>4, <4>4
    <3> QED BY <3>3, <3>4
  <2> QED BY <2>1, <2>2, StatesAre
<1> QED BY <1>1, <1>2, <1>3, <1>4, <1>5 DEF TypeOK

\* Facts and states are well formed (_classify, EffectiveState).
THEOREM ResolverTypeCorrect == Spec => []TypeOK
<1> QED BY ResolverInvariantHolds, InvariantTypes, PTL

\* What the deciding facts agree on, the last statement of every artifact says.
LEMMA InvariantUnopposed == IInv => ResolvedMeansUnopposed
<1> SUFFICES ASSUME IInv, NEW t \in states, t.field = "timeout", t.status = "resolved",
                    NEW f \in Standing(t.sources)
             PROVE  f.says = <<"assign", t.value>>
  BY DEF ResolvedMeansUnopposed
<1>1. PICK scope, F : F \subseteq FieldFacts("timeout") /\ F # {} /\ t = ScalarState("timeout", scope, F)
  BY StatesAre, CollectionShape
<1>2. F \subseteq facts /\ \A g \in F : g.field = "timeout"
  BY <1>1 DEF FieldFacts
<1>3. /\ t.sources = F
      /\ Conflict(F) => t.status = "conflicting"
      /\ ~Conflict(F) => \E w : /\ \A g \in Deciding(F) : g.says = w
                                /\ w[1] = "assign" => t.value = w[2]
                                /\ w[1] # "assign" => t.status = "unknown"
  BY <1>1, ScalarShape
<1>4. PICK w : /\ \A g \in Deciding(F) : g.says = w
               /\ w[1] = "assign" => t.value = w[2]
               /\ w[1] # "assign" => t.status = "unknown"
  BY <1>3
<1>5. w[1] = "assign" /\ t.value = w[2]
  BY <1>4
<1>6. f \in Deciding(F) /\ f \in F
  BY <1>2, <1>3, StandingDecides DEF Standing
<1>7. f.says = w
  BY <1>4, <1>6
<1>8. f.says = <<"reset", Null>> \/ f.says = <<"assign", f.says[2]>>
  BY <1>2, <1>6, SaysCases
<1>9. f.says # <<"reset", Null>>
  BY <1>5, <1>7
<1> QED BY <1>5, <1>7, <1>8, <1>9

\* A value is reported only when the last word of every artifact on its scope
\* assigns it (_ordered_winner, _resolve_scalar_scope).
THEOREM ResolvedStatesAreUnopposed == Spec => []ResolvedMeansUnopposed
<1> QED BY ResolverInvariantHolds, InvariantUnopposed, PTL

\* Deciding facts of one artifact share a header, and its last statement is one.
LEMMA InvariantConflict == IInv => ConflictIsReal
<1> SUFFICES ASSUME IInv, NEW t \in states, t.field = "timeout", t.status = "conflicting"
             PROVE  \E f, g \in t.sources :
                      /\ f.says # g.says
                      /\ \/ f.artifact # g.artifact
                         \/ SourceLine(f) = SourceLine(g) /\ f \in Standing(t.sources)
  BY DEF ConflictIsReal, SourceLine
<1>1. PICK scope, F : F \subseteq FieldFacts("timeout") /\ F # {} /\ t = ScalarState("timeout", scope, F)
  BY StatesAre, CollectionShape
<1>2. F \subseteq facts
  BY <1>1 DEF FieldFacts
<1>3. t.sources = F /\ Conflict(F)
  <2>1. /\ t.sources = F
        /\ ~Conflict(F) => \E w : /\ w[1] = "assign" => t.status = "resolved"
                                  /\ w[1] # "assign" => t.status = "unknown"
    BY <1>1, ScalarShape
  <2> QED BY <2>1
<1>4. PICK f \in Deciding(F), g \in Deciding(F) : f.says # g.says
  BY <1>2, <1>3, ConflictMeans
<1>5. f \in F /\ g \in F
  BY <1>2, ConflictMeans
<1>6. CASE f.artifact # g.artifact
  BY <1>3, <1>4, <1>5, <1>6
<1>7. CASE (\E d, e \in F : d.artifact # e.artifact) /\ f.artifact = g.artifact
  <2>1. PICK e \in F : e.artifact # f.artifact
    BY <1>5, <1>7
  <2>2. e.says # f.says \/ e.says # g.says
    BY <1>4
  <2> QED BY <1>3, <1>5, <1>7, <2>1, <2>2
<1>8. CASE \A d, e \in F : d.artifact = e.artifact
  <2>1. PICK h \in Standing(F) : TRUE
    BY <1>2, <1>5, StandingExists
  <2>2. h \in Deciding(F) /\ h \in F
    BY <1>2, <2>1, StandingDecides DEF Standing
  <2>3. SourceLine(h) = SourceLine(f) /\ SourceLine(h) = SourceLine(g)
    BY <1>2, <1>4, <1>8, <2>2, DecidingShareHeader
  <2>4. h.says # f.says \/ h.says # g.says
    BY <1>4
  <2> QED BY <1>3, <1>5, <2>1, <2>2, <2>3, <2>4
<1> QED BY <1>6, <1>7, <1>8

\* A conflict is reported only for statements that nothing orders: of different
\* artifacts, or of one block (_ordered_winner).
THEOREM ReportedConflictsAreReal == Spec => []ConflictIsReal
<1> QED BY ResolverInvariantHolds, InvariantConflict, PTL

\* Facts about one logging host that decide in one artifact are one fact: its
\* statements stand on lines of their own.
LEMMA OneHostStatementDecides ==
  ASSUME IInv, NEW F, F \subseteq FieldFacts("hosts"), NEW f \in Deciding(F), NEW g \in Deciding(F),
         \A d, e \in F : d.artifact = e.artifact
  PROVE  f = g
<1>1. F \subseteq facts /\ \A e \in F : e.field = "hosts"
  BY DEF FieldFacts
<1>2. f \in F /\ g \in F
  BY <1>1, ConflictMeans
<1>3. SourceLine(f) = SourceLine(g)
  BY <1>1, DecidingShareHeader
<1>4. Line(f) = Line(g)
  BY <1>1, <1>2, <1>3, FactOrder
<1> QED BY <1>1, <1>2, <1>4, FactOrder DEF OrderInv

\* Each member is decided by the last statements about it alone.
LEMMA InvariantMembers == IInv => CollectionHoldsMembers
<1> SUFFICES ASSUME IInv, NEW t \in states, t.field = "hosts"
             PROVE  LET About(v) == Standing(OfMember(t.sources, v)) IN
                    /\ t.status = "resolved" =>
                         \A v \in Hosts :
                           IF v \in t.value[2]
                           THEN About(v) # {} /\ \A f \in About(v) : f.says[1] = "assign"
                           ELSE \A f \in About(v) : f.says[1] = "remove"
                    /\ t.status = "conflicting" =>
                         \E f, g \in t.sources : \/ f.says[1] = "reset"
                                                 \/ /\ f.says[2] = g.says[2]
                                                    /\ f.says # g.says
                                                    /\ f.artifact # g.artifact
  BY DEF CollectionHoldsMembers
<1>1. PICK scope, F : F \subseteq FieldFacts("hosts") /\ F # {} /\ t = CollectionState("hosts", scope, F)
  BY StatesAre, ScalarShape
<1> DEFINE members == {f.says[2] : f \in F}
           present == {v \in members : Verdicts(OfMember(F, v)) = {<<"assign", v>>}}
           unclear == \E v \in members : Conflict(OfMember(F, v)) \/ v = Null
<1>2. F \subseteq facts /\ \A f \in F : f.field = "hosts"
  BY <1>1 DEF FieldFacts
<1>3. /\ t.sources = F
      /\ unclear => t.status = "conflicting"
      /\ ~unclear => t.status = "resolved" /\ t.value = <<"list", present>>
  BY <1>1, CollectionShape
<1>4. \A v : /\ OfMember(F, v) \subseteq F /\ OfMember(F, v) \subseteq facts
            /\ \A f \in OfMember(F, v) : f.says[2] = v
  BY <1>2 DEF OfMember
<1>5. ASSUME t.status = "resolved", NEW v \in Hosts, v \in t.value[2]
      PROVE  /\ Standing(OfMember(F, v)) # {}
             /\ \A f \in Standing(OfMember(F, v)) : f.says[1] = "assign"
  <2>1. v \in present
    BY <1>3, <1>5
  <2>2. PICK e \in F : e.says[2] = v
    BY <2>1
  <2>3. e \in OfMember(F, v)
    BY <2>2 DEF OfMember
  <2>4. Standing(OfMember(F, v)) # {}
    BY <1>4, <2>3, StandingExists
  <2>5. \A f \in Standing(OfMember(F, v)) : f \in Deciding(OfMember(F, v))
    BY <1>4, StandingDecides
  <2>6. \A f \in Standing(OfMember(F, v)) : f.says = <<"assign", v>>
    BY <2>1, <2>5 DEF Verdicts
  <2> QED BY <2>4, <2>6
<1>6. ASSUME t.status = "resolved", NEW v \in Hosts, v \notin t.value[2],
             NEW f \in Standing(OfMember(F, v))
      PROVE  f.says[1] = "remove"
  <2>1. f \in OfMember(F, v) /\ f \in Deciding(OfMember(F, v))
    BY <1>4, StandingDecides DEF Standing
  <2>2. f \in F /\ f.says[2] = v
    BY <1>4, <2>1
  <2>3. v \in members /\ v \notin present
    BY <1>3, <1>6, <2>2
  <2>4. ~Conflict(OfMember(F, v)) /\ v # Null
    BY <1>3, <1>6, <2>3
  <2>5. \A g \in Deciding(OfMember(F, v)) : g.says = f.says
    BY <1>4, <2>1, <2>4, ConflictMeans
  <2>6. Verdicts(OfMember(F, v)) = {f.says}
    BY <2>1, <2>5 DEF Verdicts
  <2>7. f.says # <<"assign", v>>
    BY <2>3, <2>6
  <2>8. f.says # <<"reset", Null>>
    BY <2>2, <2>4
  <2>9. f.says = <<"remove", f.says[2]>>
    BY <1>2, <2>2, <2>7, <2>8, SaysCases
  <2> QED BY <2>9
<1>7. ASSUME t.status = "conflicting"
      PROVE  \E f, g \in F : \/ f.says[1] = "reset"
                             \/ /\ f.says[2] = g.says[2]
                                /\ f.says # g.says
                                /\ f.artifact # g.artifact
  <2>1. PICK v \in members : Conflict(OfMember(F, v)) \/ v = Null
    BY <1>3, <1>7
  <2>2. CASE v = Null
    <3>1. PICK f \in F : f.says[2] = Null
      BY <2>1, <2>2
    <3>2. f.says = <<"reset", Null>>
      BY <1>2, <3>1, SaysCases, ResolverConstants
    <3>3. f.says[1] = "reset"
      BY <3>2
    <3> QED BY <3>3
  <2>3. CASE Conflict(OfMember(F, v))
    <3>1. PICK f \in Deciding(OfMember(F, v)), g \in Deciding(OfMember(F, v)) : f.says # g.says
      BY <1>4, <2>3, ConflictMeans
    <3>2. f \in OfMember(F, v) /\ g \in OfMember(F, v)
      BY <1>4, ConflictMeans
    <3>3. f \in F /\ g \in F /\ f.says[2] = g.says[2]
      BY <1>4, <3>2
    <3>4. PICK d \in OfMember(F, v), e \in OfMember(F, v) : d.artifact # e.artifact
      <4>1. OfMember(F, v) \subseteq FieldFacts("hosts")
        BY <1>1, <1>4
      <4> QED BY <3>1, <4>1, OneHostStatementDecides
    <3>5. CASE f.artifact # g.artifact
      BY <3>1, <3>3, <3>5
    <3>6. CASE f.artifact = g.artifact
      <4>1. PICK h \in OfMember(F, v) : h.artifact # f.artifact
        BY <3>4
      <4>2. h \in F /\ h.says[2] = f.says[2] /\ h.says[2] = g.says[2]
        BY <1>4, <3>2, <4>1
      <4>3. h.says # f.says \/ h.says # g.says
        BY <3>1
      <4> QED BY <3>3, <3>6, <4>1, <4>2, <4>3
    <3> QED BY <3>5, <3>6
  <2> QED BY <2>1, <2>2, <2>3
<1> QED BY <1>3, <1>5, <1>6, <1>7

\* A resolved list of logging hosts has the members whose last statements add
\* them, and is given up only for a reset or a disagreement of artifacts
\* (_resolve_repeatable_field).
THEOREM CollectionsHoldTheirMembers == Spec => []CollectionHoldsMembers
<1> QED BY ResolverInvariantHolds, InvariantMembers, PTL

----------------------------------------------------------------------------
(* Overlapping VTY ranges.                                                 *)

\* A partition starts at a boundary and ends before the next one.
LEMMA PartitionIs ==
  ASSUME NEW F, NEW r
  PROVE  r \in Partitions(F) <=>
           \E b \in Boundaries(F) \ {Max(Boundaries(F))} :
             /\ r = <<"vty_range", b, Min({c \in Boundaries(F) : c > b}) - 1>>
             /\ Applicable(F, r) # {}
BY DEF Partitions

\* After every boundary but the last there is a next one.
LEMMA BoundaryAfter ==
  ASSUME NEW F, NEW last \in Nat,
         \A f \in F : /\ f.scope[2] \in Nat /\ f.scope[3] \in Nat
                      /\ f.scope[2] <= f.scope[3] /\ f.scope[3] <= last,
         NEW d \in Boundaries(F) \ {Max(Boundaries(F))}
  PROVE  LET next == Min({c \in Boundaries(F) : c > d}) IN
         /\ next \in Boundaries(F) /\ next \in Nat /\ d \in Nat /\ next > d
         /\ \A c \in Boundaries(F) : c > d => next <= c
<1> DEFINE B == Boundaries(F)
           U == {c \in B : c > d}
<1>1. B \subseteq Nat /\ \A c \in B : c <= last + 1
  BY DEF Boundaries
<1> HIDE DEF B
<1>2. d \in B /\ d # Max(B)
  BY DEF B
<1>3. Max(B) \in B /\ d <= Max(B)
  BY <1>1, <1>2, MaxOf, last + 1 \in Nat
<1>4. d \in Nat /\ Max(B) \in Nat
  BY <1>1, <1>2, <1>3
<1>5. Max(B) > d
  BY <1>2, <1>3, <1>4
<1>6. U \subseteq Nat /\ U # {}
  BY <1>1, <1>3, <1>5
<1>7. Min(U) \in U /\ \A c \in U : Min(U) <= c
  <2> HIDE DEF U
  <2> QED BY <1>6, MinOf
<1>8. Min(U) \in B /\ Min(U) \in Nat /\ Min(U) > d /\ \A c \in B : c > d => Min(U) <= c
  <2> DEFINE m == Min(U)
  <2> HIDE DEF m
  <2>1. m \in U /\ \A c \in U : m <= c
    BY <1>7 DEF m
  <2>2. m \in B /\ m \in Nat /\ m > d /\ \A c \in B : c > d => m <= c
    BY <1>1, <2>1
  <2> QED BY <2>2 DEF m
<1> QED BY <1>4, <1>8 DEF B

\* The ends of a partition are numbers.
LEMMA PartitionEnds ==
  ASSUME NEW F, NEW last \in Nat,
         \A f \in F : /\ f.scope[2] \in Nat /\ f.scope[3] \in Nat
                      /\ f.scope[2] <= f.scope[3] /\ f.scope[3] <= last,
         NEW r \in Partitions(F)
  PROVE  r[2] \in Nat /\ r[3] \in Int
<1> DEFINE B == Boundaries(F)
           After(b) == Min({c \in B : c > b})
<1>1. \A d \in B \ {Max(B)} : After(d) \in Nat /\ d \in Nat
  BY BoundaryAfter
<1>2. PICK b \in B \ {Max(B)} : r = <<"vty_range", b, After(b) - 1>>
  BY PartitionIs
<1> HIDE DEF B, After
<1> QED BY <1>1, <1>2

\* However the ranges of F overlap, a line n that one of them covers lies in
\* exactly one partition, to which exactly the facts that cover n apply.
LEMMA OnePartition ==
  ASSUME NEW F, NEW last \in Nat, NEW n \in Nat, NEW e \in F,
         \A f \in F : /\ f.scope[2] \in Nat /\ f.scope[3] \in Nat
                      /\ f.scope[2] <= f.scope[3] /\ f.scope[3] <= last,
         e.scope[2] <= n, n <= e.scope[3]
  PROVE  \E r \in Partitions(F) :
           /\ r[1] = "vty_range" /\ r[2] <= n /\ n <= r[3]
           /\ Applicable(F, r) = {f \in F : f.scope[2] <= n /\ n <= f.scope[3]}
           /\ \A q \in Partitions(F) : q[2] <= n /\ n <= q[3] => q = r
<1> DEFINE B == Boundaries(F)
           After(b) == Min({c \in B : c > b})
<1>1. /\ \A f \in F : f.scope[2] \in B /\ f.scope[3] + 1 \in B
      /\ \A c \in B : \E f \in F : c = f.scope[2] \/ c = f.scope[3] + 1
  BY DEF Boundaries
<1>2. B \subseteq Nat /\ \A c \in B : c <= last + 1
  BY <1>1
<1>3. PICK b \in {c \in B : c <= n} : \A c \in {d \in B : d <= n} : c <= b
  <2>1. {c \in B : c <= n} \subseteq Nat /\ e.scope[2] \in {c \in B : c <= n}
    BY <1>1, <1>2
  <2> HIDE DEF B
  <2> QED BY <2>1, LargestExists
<1> DEFINE r == <<"vty_range", b, After(b) - 1>>
<1>4. e.scope[3] + 1 \in B /\ e.scope[3] + 1 > b
  BY <1>1, <1>3
<1>5. b # Max(B)
  <2> HIDE DEF B
  <2>1. \A c \in B : c <= Max(B)
    BY <1>2, <1>3, MaxOf, last + 1 \in Nat
  <2>2. b \in Nat
    BY <1>2, <1>3
  <2> QED BY <2>1, <2>2, <1>2, <1>4
<1>6. \A d \in B \ {Max(B)} :
        /\ After(d) \in B /\ After(d) \in Nat /\ d \in Nat /\ After(d) > d
        /\ \A c \in B : c > d => After(d) <= c
  BY BoundaryAfter
<1>7. After(b) \in B /\ After(b) > b /\ \A c \in B : c > b => After(b) <= c
  BY <1>3, <1>5, <1>6
<1>8. After(b) \in Nat /\ b \in Nat /\ b <= n
  BY <1>2, <1>3, <1>7
<1>9. n < After(b)
  BY <1>3, <1>7, <1>8
<1> HIDE DEF B, After
<1>10. r[1] = "vty_range" /\ r[2] = b /\ r[3] = After(b) - 1 /\ r[2] <= n /\ n <= r[3]
  BY <1>8, <1>9
<1>11. Applicable(F, r) = {f \in F : f.scope[2] <= n /\ n <= f.scope[3]}
  <2>1. \A f \in F : (f.scope[2] <= b /\ After(b) - 1 <= f.scope[3])
                       <=> (f.scope[2] <= n /\ n <= f.scope[3])
    <3> SUFFICES ASSUME NEW f \in F
                 PROVE  (f.scope[2] <= b /\ After(b) - 1 <= f.scope[3])
                          <=> (f.scope[2] <= n /\ n <= f.scope[3])
      OBVIOUS
    <3>1. f.scope[2] \in Nat /\ f.scope[3] \in Nat /\ f.scope[2] \in B /\ f.scope[3] + 1 \in B
      BY <1>1
    <3>2. f.scope[2] <= n => f.scope[2] <= b
      BY <1>3, <3>1
    <3>3. n <= f.scope[3] => After(b) <= f.scope[3] + 1
      BY <1>7, <1>8, <3>1
    <3> QED BY <1>8, <1>9, <3>1, <3>2, <3>3
  <2>2. Applicable(F, r) = {f \in F : f.scope[2] <= b /\ After(b) - 1 <= f.scope[3]}
    BY <1>10 DEF Applicable
  <2> QED BY <2>1, <2>2
<1>12. e \in Applicable(F, r)
  BY <1>11
<1>13. r \in Partitions(F)
  <2>1. b \in B \ {Max(B)}
    BY <1>3, <1>5
  <2> QED BY <2>1, <1>12, PartitionIs DEF B, After
<1>14. ASSUME NEW q \in Partitions(F), q[2] <= n, n <= q[3]
       PROVE  q = r
  <2>1. PICK d \in B \ {Max(B)} : q = <<"vty_range", d, After(d) - 1>>
    <3>1. \E d \in B \ {Max(B)} : q = <<"vty_range", d, After(d) - 1>> /\ Applicable(F, q) # {}
      BY PartitionIs, Zenon DEF B, After
    <3> QED BY <3>1
  <2>2. After(d) \in B /\ After(d) > d /\ \A c \in B : c > d => After(d) <= c
    BY <1>6
  <2>3. d \in Nat /\ After(d) \in Nat
    BY <1>2, <2>2
  <2>4. d <= n /\ n < After(d)
    BY <1>14, <2>1, <2>3
  <2>5. d <= b
    BY <1>3, <2>4
  <2>6. ~(b > d)
    BY <1>3, <1>8, <2>2, <2>3, <2>4
  <2>7. d = b
    BY <1>8, <2>3, <2>5, <2>6
  <2> QED BY <2>1, <2>7
<1> HIDE DEF r
<1> QED BY <1>10, <1>11, <1>13, <1>14

\* The two ends of a VTY range.
LEMMA RangeEnds ==
  ASSUME NEW scope \in Ranges
  PROVE  /\ IsRange(scope)
         /\ scope[2] \in Nat /\ scope[3] \in Nat
         /\ scope[2] <= scope[3] /\ scope[3] <= LastVty
<1>1. PICK a \in 0 .. LastVty : scope \in {<<"vty_range", a, b>> : b \in a .. LastVty}
  BY DEF Ranges
<1>2. PICK b \in a .. LastVty : scope = <<"vty_range", a, b>>
  BY <1>1
<1> QED BY <1>2, ResolverConstants DEF IsRange

\* A line that no statement covers is in no partition, one that some cover in one.
LEMMA InvariantVty == IInv => OneStatePerVtyLine
<1> DEFINE T == FieldFacts("timeout")
<1> SUFFICES ASSUME IInv, resolved, \A f \in T : f.scope # Device, NEW n \in 0 .. LastVty
             PROVE  /\ Covering(facts, n) = {} => Covering(states, n) = {}
                    /\ Covering(facts, n) # {} =>
                         \E t \in states : Covering(states, n) = {t} /\ t.sources = Covering(facts, n)
  BY DEF OneStatePerVtyLine
<1>1. n \in Nat /\ n <= LastVty /\ LastVty \in Nat
  BY ResolverConstants
<1>2. T \subseteq facts /\ \A f \in T : f.scope \in Ranges
  BY DEF IInv, FactsTyped, FieldFacts
<1>3. \A f \in T : /\ IsRange(f.scope)
                   /\ f.scope[2] \in Nat /\ f.scope[3] \in Nat
                   /\ f.scope[2] <= f.scope[3] /\ f.scope[3] <= LastVty
  BY <1>2, RangeEnds
<1>4. Covering(facts, n) = {f \in T : f.scope[2] <= n /\ n <= f.scope[3]}
  BY <1>3 DEF Covering, FieldFacts
<1>5. states = StatesOf
  BY DEF IInv
<1>6. T # {} =>
        ScalarStates("timeout", T) = {ScalarState("timeout", r, Applicable(T, r)) : r \in Partitions(T)}
  BY <1>3 DEF ScalarStates
<1>7. ASSUME NEW t \in Covering(states, n)
      PROVE  \E q \in Partitions(T) :
               /\ t = ScalarState("timeout", q, Applicable(T, q))
               /\ Applicable(T, q) # {} /\ T # {}
               /\ q[2] <= n /\ n <= q[3]
  <2>1. t \in states /\ t.field = "timeout" /\ t.scope[2] <= n /\ n <= t.scope[3]
    BY DEF Covering
  <2>2. t \notin CollectionStates("hosts", FieldFacts("hosts"))
    BY <2>1, CollectionShape DEF CollectionStates
  <2>3. T # {} /\ t \in ScalarStates("timeout", T)
    BY <2>1, <2>2, <1>5 DEF StatesOf
  <2>4. PICK q \in Partitions(T) : t = ScalarState("timeout", q, Applicable(T, q))
    BY <2>3, <1>6
  <2>5. Applicable(T, q) # {} /\ Applicable(T, q) \subseteq T
    BY PartitionIs DEF Applicable
  <2>6. t.scope = q
    BY <2>4 DEF ScalarState, State
  <2> QED BY <2>1, <2>3, <2>4, <2>5, <2>6
<1>8. ASSUME Covering(facts, n) = {}
      PROVE  Covering(states, n) = {}
  <2> SUFFICES ASSUME NEW t \in Covering(states, n) PROVE FALSE
    OBVIOUS
  <2>1. PICK q \in Partitions(T) : Applicable(T, q) # {} /\ q[2] <= n /\ n <= q[3]
    BY <1>7
  <2>2. PICK f \in T : f.scope[2] <= q[2] /\ q[3] <= f.scope[3]
    BY <2>1 DEF Applicable
  <2>3. q[2] \in Nat /\ q[3] \in Int
    BY <1>1, <1>3, PartitionEnds
  <2>4. f.scope[2] <= n /\ n <= f.scope[3]
    BY <1>1, <1>3, <2>1, <2>2, <2>3
  <2> QED BY <1>4, <1>8, <2>4
<1>9. ASSUME Covering(facts, n) # {}
      PROVE  \E t \in states : Covering(states, n) = {t} /\ t.sources = Covering(facts, n)
  <2>1. PICK e \in T : e.scope[2] <= n /\ n <= e.scope[3]
    BY <1>4, <1>9
  <2>2. PICK r \in Partitions(T) :
          /\ r[1] = "vty_range" /\ r[2] <= n /\ n <= r[3]
          /\ Applicable(T, r) = {f \in T : f.scope[2] <= n /\ n <= f.scope[3]}
          /\ \A q \in Partitions(T) : q[2] <= n /\ n <= q[3] => q = r
    BY <1>1, <1>3, <2>1, OnePartition
  <2> DEFINE t == ScalarState("timeout", r, Applicable(T, r))
  <2>3. t \in states
    BY <1>5, <1>6, <2>1 DEF StatesOf
  <2>4. t.field = "timeout" /\ t.scope = r /\ t.sources = Covering(facts, n)
    BY <1>4, <2>2 DEF ScalarState, State
  <2>5. t \in Covering(states, n)
    BY <2>2, <2>3, <2>4 DEF Covering, IsRange
  <2>6. \A u \in Covering(states, n) : u = t
    BY <1>7, <2>2
  <2> HIDE DEF t
  <2> QED BY <2>3, <2>4, <2>5, <2>6
<1> QED BY <1>8, <1>9

\* However VTY ranges overlap, each line has one state, from exactly the
\* statements that cover it (_vty_partitions).
THEOREM VtyLinesHaveOneState == Spec => []OneStatePerVtyLine
<1> QED BY ResolverInvariantHolds, InvariantVty, PTL
=============================================================================
