--------------------------- MODULE FormatsProofs ----------------------------
(* Proofs about Formats: that a name means the format registered last under  *)
(* it, and that what is registered was compiled and is complete.             *)
EXTENDS Formats, Recurrence, SequenceTheorems

-----------------------------------------------------------------------------
(* The parser                                                                *)

\* what a pointer to a cell may be: nothing hangs on the null cell itself
CellRecords == {c \in [null : BOOLEAN, cells : Seq(Tokens)] : c.null => c.cells = << >>}

LEMMA ScanIs ==
    ASSUME NEW text \in Seq(Tokens), NEW p \in Nat \ {0}
    PROVE  /\ p > Len(text) => scan(text, p) = "no_more"
           /\ p <= Len(text) => /\ scan(text, p) = text[p].kind
                                /\ text[p] \in Tokens
                                /\ scan(text, p) # "no_more"
<1>1. p <= Len(text) => text[p] \in Tokens
  BY ElementOfSeq
<1>2. \A t \in Tokens : t.kind # "no_more"
  BY DEF Tokens
<1> QED
  BY <1>1, <1>2, LenProperties DEF scan

\* Cells end somewhere, at the end of the text at the latest.
LEMMA CellsEndIs ==
    ASSUME NEW text \in Seq(Tokens), NEW p \in 1..(Len(text) + 1)
    PROVE  /\ CellsEnd(text, p) \in p..(Len(text) + 1)
           /\ scan(text, CellsEnd(text, p)) \notin CellKinds
           /\ \A j \in p..(CellsEnd(text, p) - 1) : scan(text, j) \in CellKinds
<1> DEFINE Ends == {q \in p..(Len(text) + 1) : scan(text, q) \notin CellKinds}
<1>1. Len(text) \in Nat
  BY LenProperties
<1>2. Len(text) + 1 \in Ends
  BY <1>1, ScanIs DEF CellKinds
<1>3. PICK q \in Ends : \A k \in Ends : q <= k
  <2>1. Ends \in SUBSET Nat
    BY <1>1
  <2> QED
    BY <1>2, <2>1, LeastNatural
<1>4. \A j \in p..(q - 1) : scan(text, j) \in CellKinds
  BY <1>1, <1>3
<1> QED
  BY <1>3, <1>4 DEF CellsEnd

\* ... and nowhere else.
LEMMA CellsEndAt ==
    ASSUME NEW text \in Seq(Tokens), NEW p \in 1..(Len(text) + 1),
           NEW q \in p..(Len(text) + 1), scan(text, q) \notin CellKinds,
           \A j \in p..(q - 1) : scan(text, j) \in CellKinds
    PROVE  CellsEnd(text, p) = q
<1>1. Len(text) \in Nat
  BY LenProperties
<1> DEFINE e == CellsEnd(text, p)
<1>2. /\ e \in p..(Len(text) + 1)
      /\ scan(text, e) \notin CellKinds
      /\ \A j \in p..(e - 1) : scan(text, j) \in CellKinds
  BY CellsEndIs
<1> HIDE DEF e
<1>3. ~(e < q) /\ ~(q < e)
  BY <1>1, <1>2
<1> QED
  BY <1>1, <1>2, <1>3 DEF e

LEMMA ChainIs ==
    ASSUME NEW text \in Seq(Tokens), NEW p \in 1..(Len(text) + 1),
           NEW hung \in Seq(Tokens)
    PROVE  /\ get_cell_chain(text, p, hung).cell \in CellRecords
           /\ get_cell_chain(text, p, hung).spill \in Seq(Tokens)
           /\ get_cell_chain(text, p, hung).next \in p..(Len(text) + 1)
<1>1. Len(text) \in Nat
  BY LenProperties
<1> DEFINE from == IF scan(text, p) \notin CellKinds THEN After(text, p) ELSE p
           to == CellsEnd(text, from)
<1>2. from \in p..(Len(text) + 1)
  BY <1>1, ScanIs DEF After
<1>3. to \in from..(Len(text) + 1)
  BY <1>1, <1>2, CellsEndIs
<1>4. SubSeq(text, from, to - 1) \in Seq(Tokens)
  <2>1. \A i \in from..(to - 1) : text[i] \in Tokens
    BY <1>1, <1>2, <1>3, ElementOfSeq
  <2> QED
    BY <1>1, <1>2, <1>3, <2>1, SubSeqProperties
<1>5. << >> \in Seq(Tokens)
  BY EmptySeq
<1> HIDE DEF from, to
<1>6. get_cell_chain(text, p, hung) =
         [cell |-> IF scan(text, p) \notin CellKinds THEN NullCell
                   ELSE [null |-> FALSE, cells |-> SubSeq(text, from, to - 1)],
          next |-> to,
          spill |-> IF scan(text, p) \notin CellKinds /\ SubSeq(text, from, to - 1) # << >>
                    THEN SubSeq(text, from, to - 1) ELSE hung]
  BY DEF get_cell_chain, from, to
<1> QED
  BY <1>1, <1>2, <1>3, <1>4, <1>5, <1>6 DEF CellRecords, NullCell

RawNodes == [type : Classes, text : Seq(Tokens), text2 : Seq(Tokens)]
Parts(nodeNames) == [begin : CellRecords, core : {None} \union nodeNames,
                     sep : Seq(Tokens), end : CellRecords]

\* What a text compiles to, when it does: a core is a node of the table.
LEMMA LoopIs ==
    ASSUME NEW text \in Seq(Tokens), NEW types, NEW hung \in Seq(Tokens),
           LoopCompile(text, types, hung).ok
    PROVE  /\ LoopCompile(text, types, hung).parts \in Parts(DOMAIN types)
           /\ LoopCompile(text, types, hung).spill \in Seq(Tokens)
<1>1. Len(text) \in Nat
  BY LenProperties
<1> DEFINE begin == get_cell_chain(text, 1, hung)
           core == begin.next
           hasSep == scan(text, core + 1) = "plaintext"
           dots == IF hasSep THEN core + 2 ELSE core + 1
           end == get_cell_chain(text, dots + 1, begin.spill)
           sep == IF hasSep THEN <<text[core + 1]>> ELSE << >>
<1>2. begin.cell \in CellRecords /\ begin.spill \in Seq(Tokens) /\ core \in 1..(Len(text) + 1)
  BY <1>1, ChainIs
<1>3. << >> \in Seq(Tokens) /\ NullCell \in CellRecords
  BY EmptySeq DEF NullCell, CellRecords
<1>4. CASE scan(text, core) # "node"
  <2>1. LoopCompile(text, types, hung) = Compiled(begin.cell, None, << >>, NullCell, begin.spill)
    BY <1>4 DEF LoopCompile, Failed
  <2> QED
    BY <1>2, <1>3, <2>1 DEF Compiled, Parts
<1>5. CASE scan(text, core) = "node"
  <2>1. /\ LoopCompile(text, types, hung) = Compiled(begin.cell, text[core].v, sep, end.cell, end.spill)
        /\ text[core].v \in DOMAIN types
        /\ scan(text, dots) = "ellipses"
    BY <1>5 DEF LoopCompile, Failed
  <2>2. dots \in Nat \ {0}
    BY <1>1, <1>2
  <2>3. end.cell \in CellRecords /\ end.spill \in Seq(Tokens)
    <3> HIDE DEF dots
    <3>1. dots + 1 \in 1..(Len(text) + 1)
      BY <1>1, <2>1, <2>2, ScanIs
    <3> HIDE DEF begin
    <3> QED
      BY <1>2, <3>1, ChainIs
  <2>4. sep \in Seq(Tokens)
    BY <1>1, <1>2, <1>3, ScanIs
  <2> HIDE DEF begin, end, sep
  <2> QED
    BY <1>2, <2>1, <2>3, <2>4 DEF Compiled, Parts
<1> QED
  BY <1>4, <1>5

LEMMA MainIs ==
    ASSUME NEW text \in Seq(Tokens), NEW types, NEW hung \in Seq(Tokens),
           MainCompile(text, types, hung).ok
    PROVE  LET r == MainCompile(text, types, hung)
           IN /\ r.parts \in Parts(DOMAIN types)
              /\ r.parts.core # None => types[r.parts.core] \in {"Scan", "Row"}
              /\ r.spill = hung
<1>1. Len(text) \in Nat
  BY LenProperties
<1> DEFINE hasBegin == scan(text, 1) \in CellKinds
           core == IF hasBegin THEN 2 ELSE 1
           hasCore == scan(text, core) = "node"
           at == After(text, core)
           hasEnd == scan(text, at) \in CellKinds
           one(p) == [null |-> FALSE, cells |-> <<text[p]>>]
           begin == IF hasBegin THEN one(1) ELSE NullCell
           end == IF hasEnd THEN one(at) ELSE NullCell
           node == IF hasCore THEN text[core].v ELSE None
<1>2. /\ MainCompile(text, types, hung) = Compiled(begin, node, << >>, end, hung)
      /\ hasCore => /\ text[core].v \in DOMAIN types
                    /\ types[text[core].v] \in {"Scan", "Row"}
  BY DEF MainCompile, Failed
<1>3. << >> \in Seq(Tokens) /\ NullCell \in CellRecords
  BY EmptySeq DEF NullCell, CellRecords
<1>4. ASSUME NEW p \in Nat \ {0}, scan(text, p) \in CellKinds
      PROVE  one(p) \in CellRecords
  <2>1. text[p] \in Tokens
    BY <1>1, <1>4, ScanIs DEF CellKinds
  <2> QED
    BY <2>1 DEF CellRecords
<1>5. at \in Nat \ {0}
  BY DEF After
<1>6. begin \in CellRecords /\ end \in CellRecords
  BY <1>3, <1>4, <1>5
<1> HIDE DEF begin, end
<1>7. Compiled(begin, node, << >>, end, hung).parts
        = [begin |-> begin, core |-> node, sep |-> << >>, end |-> end]
  BY DEF Compiled
<1> QED
  BY <1>2, <1>3, <1>6, <1>7 DEF Compiled, Parts

LEMMA RecordIs ==
    ASSUME NEW text \in Seq(Tokens), NEW text2 \in Seq(Tokens), NEW nodeNames,
           NEW hung \in Seq(Tokens), RecordCompile(text, text2, hung).ok
    PROVE  LET r == RecordCompile(text, text2, hung)
           IN /\ r.parts \in Parts(nodeNames)
              /\ ~r.parts.begin.null /\ ~r.parts.end.null
              /\ r.spill = hung
<1> DEFINE first == get_cell_chain(text, 1, hung)
           second == get_cell_chain(text2, 1, hung)
<1>1. /\ RecordCompile(text, text2, hung) = Compiled(first.cell, None, << >>, second.cell, hung)
      /\ ~first.cell.null /\ ~second.cell.null
  BY DEF RecordCompile, Failed
<1>2. first.cell \in CellRecords /\ second.cell \in CellRecords
  BY LenProperties, ChainIs
<1>3. << >> \in Seq(Tokens)
  BY EmptySeq
<1> HIDE DEF first, second
<1> QED
  BY <1>1, <1>2, <1>3 DEF Compiled, Parts

\* ... whatever the class of the node.
LEMMA CompiledIs ==
    ASSUME NEW node \in RawNodes, NEW types, NEW hung \in Seq(Tokens),
           NodeCompile(node, types, hung).ok
    PROVE  LET r == NodeCompile(node, types, hung)
           IN /\ r.parts \in Parts(DOMAIN types)
              /\ node.type = "Format" /\ r.parts.core # None
                   => types[r.parts.core] \in {"Scan", "Row"}
              /\ r.spill \in Seq(Tokens)
<1>1. node.text \in Seq(Tokens) /\ node.text2 \in Seq(Tokens) /\ node.type \in Classes
  BY DEF RawNodes
<1>2. CASE node.type = "Format"
  BY <1>1, <1>2, MainIs DEF NodeCompile
<1>3. CASE node.type \in {"Scan", "Row"}
  BY <1>1, <1>3, LoopIs DEF NodeCompile
<1>4. CASE node.type = "Record"
  BY <1>1, <1>4, RecordIs DEF NodeCompile
<1> QED
  BY <1>1, <1>2, <1>3, <1>4 DEF Classes

-----------------------------------------------------------------------------
(* Nothing gets lost                                                         *)

\* the chain of the cells from p to q
LEMMA ChainAt ==
    ASSUME NEW text \in Seq(Tokens), NEW hung,
           NEW p \in 1..(Len(text) + 1), NEW q \in p..(Len(text) + 1),
           scan(text, q) \notin CellKinds, p < q \/ p = Len(text) + 1,
           \A j \in p..(q - 1) : text[j].kind \in CellKinds
    PROVE  LET r == get_cell_chain(text, p, hung)
           IN r.cell.cells = SubSeq(text, p, q - 1) /\ r.next = q /\ r.spill = hung
<1>1. Len(text) \in Nat
  BY LenProperties
<1>2. \A j \in p..(q - 1) : scan(text, j) \in CellKinds
  BY <1>1, ScanIs
<1>3. CellsEnd(text, p) = q
  BY <1>2, CellsEndAt
<1>4. CASE p < q
  <2>1. scan(text, p) \in CellKinds
    BY <1>1, <1>2, <1>4
  <2> QED
    BY <1>3, <2>1 DEF get_cell_chain
<1>5. CASE p = Len(text) + 1
  <2>1. scan(text, p) = "no_more" /\ p = q
    BY <1>1, <1>5, ScanIs
  <2>2. After(text, p) = p /\ "no_more" \notin CellKinds
    BY <2>1 DEF After, CellKinds
  <2>3. SubSeq(text, p, q - 1) = << >>
    BY <1>1, <2>1, SubSeqEmpty
  <2> QED
    BY <1>3, <2>1, <2>2, <2>3 DEF get_cell_chain, NullCell
<1> QED
  BY <1>4, <1>5

LEMMA NodeToken ==
    ASSUME NEW t \in Tokens, t.kind = "node"
    PROVE  t = Node(t.v)
<1>1. t \in [kind : {"plaintext", "node"}, v : Words, i : {0}]
  BY DEF Tokens
<1> QED
  BY <1>1 DEF Node, Token

\* A sequence up to n, with the element after it, is the sequence up to n + 1.
LEMMA UpToNext ==
    ASSUME NEW S, NEW s \in Seq(S), NEW n \in 0..(Len(s) - 1)
    PROVE  SubSeq(s, 1, n) \o <<s[n + 1]>> = SubSeq(s, 1, n + 1)
<1>1. Len(s) \in Nat
  BY LenProperties
<1>2. n + 1 \in 1..Len(s) /\ 1 \in 1..Len(s) /\ (n + 1) - 1 = n
  BY <1>1
<1> QED
  BY <1>1, <1>2, SubSeqRecursiveSecond

LEMMA UpToEnd ==
    ASSUME NEW S, NEW s \in Seq(S), NEW n \in 0..Len(s)
    PROVE  SubSeq(s, 1, n) \o SubSeq(s, n + 1, Len(s)) = s
<1>1. Len(s) \in Nat
  BY LenProperties
<1>2. 1 \in 1..(Len(s) + 1) /\ n \in (1 - 1)..Len(s) /\ Len(s) \in n..Len(s)
  BY <1>1
<1>3. SubSeq(s, 1, n) \o SubSeq(s, n + 1, Len(s)) = SubSeq(s, 1, Len(s))
  BY <1>2, ConcatAdjacentSubSeq
<1> QED
  BY <1>3, SubSeqFull

LEMMA PartIsSeq ==
    ASSUME NEW S, NEW s \in Seq(S), NEW p \in 1..(Len(s) + 1), NEW q \in 0..Len(s)
    PROVE  SubSeq(s, p, q) \in Seq(S)
<1>1. Len(s) \in Nat
  BY LenProperties
<1>2. \A i \in p..q : s[i] \in S
  BY <1>1, ElementOfSeq
<1> QED
  BY <1>1, <1>2, SubSeqProperties

CoreText(parts) == IF parts.core = None THEN << >> ELSE <<Node(parts.core)>>

LEMMA LoopKept ==
    ASSUME NEW text \in Seq(Tokens), NEW types, NEW hung, None \notin DOMAIN types,
           ProperLoop(text), LoopCompile(text, types, hung).ok
    PROVE  LET p == LoopCompile(text, types, hung).parts
           IN p.begin.cells \o CoreText(p) \o p.sep
                 \o (IF CoreText(p) = << >> THEN << >> ELSE <<Dots>>) \o p.end.cells = text
<1>1. Len(text) \in Nat /\ DOMAIN text = 1..Len(text)
  BY LenProperties
<1> DEFINE begin == get_cell_chain(text, 1, hung)
           core == begin.next
           hasSep == scan(text, core + 1) = "plaintext"
           dots == IF hasSep THEN core + 2 ELSE core + 1
           end == get_cell_chain(text, dots + 1, begin.spill)
           sep == IF hasSep THEN <<text[core + 1]>> ELSE << >>
<1>2. scan(text, Len(text) + 1) = "no_more" /\ "no_more" \notin CellKinds
  BY <1>1, ScanIs DEF CellKinds
<1>3. CASE AllCells(text)
  <2>1. \A j \in 1..((Len(text) + 1) - 1) : text[j].kind \in CellKinds
    BY <1>1, <1>3 DEF AllCells
  <2>2. begin.cell.cells = SubSeq(text, 1, (Len(text) + 1) - 1) /\ core = Len(text) + 1
    BY <1>1, <1>2, <2>1, ChainAt
  <2>3. begin.cell.cells = text
    BY <1>1, <2>2, SubSeqFull
  <2>4. LoopCompile(text, types, hung) = Compiled(begin.cell, None, << >>, NullCell, begin.spill)
    BY <1>2, <2>2 DEF LoopCompile, Failed
  <2> HIDE DEF begin
  <2>5. LET p == LoopCompile(text, types, hung).parts
        IN p.begin.cells = text /\ p.core = None /\ p.sep = << >> /\ p.end.cells = << >>
    BY <2>3, <2>4 DEF Compiled, NullCell
  <2> QED
    BY <2>5, ConcatEmptySeq DEF CoreText
<1>4. ASSUME NEW c \in 2..Len(text), NEW d \in 3..Len(text),
             AllCells(SubSeq(text, 1, c - 1)), text[c].kind = "node",
             text[d] = Dots, AllCells(SubSeq(text, d + 1, Len(text))),
             d = c + 1 \/ (d = c + 2 /\ text[c + 1].kind = "plaintext")
      PROVE  LET p == LoopCompile(text, types, hung).parts
             IN p.begin.cells \o CoreText(p) \o p.sep
                 \o (IF CoreText(p) = << >> THEN << >> ELSE <<Dots>>) \o p.end.cells = text
  <2>1. \A j \in 1..(c - 1) : text[j].kind \in CellKinds
    <3>1. \A i \in 1..(c - 1) : text[i] \in Tokens
      BY <1>1, ElementOfSeq
    <3>2. /\ Len(SubSeq(text, 1, c - 1)) = c - 1
          /\ \A j \in 1..(c - 1) : SubSeq(text, 1, c - 1)[j] = text[j]
          /\ SubSeq(text, 1, c - 1) \in Seq(Tokens)
      BY <1>1, <3>1, SubSeqProperties
    <3>3. DOMAIN SubSeq(text, 1, c - 1) = 1..(c - 1)
      BY <3>2, LenProperties
    <3> QED
      BY <1>4, <3>2, <3>3 DEF AllCells
  <2>2. \A j \in (d + 1)..Len(text) : text[j].kind \in CellKinds
    <3> DEFINE rest == SubSeq(text, d + 1, Len(text))
    <3>1. \A i \in (d + 1)..Len(text) : text[i] \in Tokens
      BY <1>1, ElementOfSeq
    <3>2. d + 1 \in Int /\ Len(text) \in Int
      BY <1>1
    <3>3. /\ Len(rest) = IF d + 1 <= Len(text) THEN Len(text) - (d + 1) + 1 ELSE 0
          /\ \A i \in 1..(Len(text) - (d + 1) + 1) : rest[i] = text[(d + 1) + i - 1]
          /\ rest \in Seq(Tokens)
      BY <3>2, <3>1, SubSeqProperties
    <3>4. Len(text) - (d + 1) + 1 = Len(text) - d
      BY <1>1
    <3>5. \A i \in 1..(Len(text) - d) : (d + 1) + i - 1 = d + i
      BY <1>1
    <3> HIDE DEF rest
    <3>6. /\ Len(rest) = Len(text) - d
          /\ \A i \in 1..(Len(text) - d) : rest[i] = text[d + i]
          /\ rest \in Seq(Tokens)
      <4>1. d <= Len(text)
        BY <1>1
      <4>2. Len(rest) = Len(text) - d
        <5>1. CASE d = Len(text)
          BY <1>1, <3>3, <5>1
        <5>2. CASE d < Len(text)
          <6>1. d + 1 <= Len(text)
            BY <1>1, <5>2
          <6> QED
            BY <3>3, <3>4, <6>1
        <5>3. d \in Int /\ Len(text) \in Int
          BY <1>1
        <5>4. d < Len(text) \/ d = Len(text)
          BY <4>1, <5>3
        <5> QED
          BY <5>1, <5>2, <5>4
      <4> QED
        BY <3>3, <3>4, <3>5, <4>2
    <3>7. DOMAIN rest = 1..(Len(text) - d)
      BY <3>6, LenProperties
    <3>8. \A i \in 1..(Len(text) - d) : text[d + i].kind \in CellKinds
      BY <1>4, <3>6, <3>7 DEF AllCells, rest
    <3>9. \A j \in (d + 1)..Len(text) : j - d \in 1..(Len(text) - d) /\ d + (j - d) = j
      BY <1>1
    <3> QED
      BY <3>8, <3>9
  <2>3. scan(text, c) = "node" /\ "node" \notin CellKinds
    BY <1>1, <1>4, ScanIs DEF CellKinds
  <2>4. begin.cell.cells = SubSeq(text, 1, c - 1) /\ core = c
    BY <1>1, <2>1, <2>3, ChainAt
  <2>5. dots = d /\ sep = IF d = c + 1 THEN << >> ELSE <<text[c + 1]>>
    <3> HIDE DEF begin
    <3>1. CASE d = c + 1
      <4>1. scan(text, c + 1) = "ellipses"
        <5>1. c + 1 \in Nat \ {0} /\ c + 1 <= Len(text)
          BY <1>1, <3>1
        <5>2. text[c + 1].kind = "ellipses"
          <6>1. text[c + 1] = Dots
            BY <1>4, <3>1
          <6>2. Dots.kind = "ellipses"
            BY DEF Dots, Token
          <6> QED
            BY <6>1, <6>2
        <5> QED
          BY <5>1, <5>2, ScanIs
      <4> QED
        BY <2>4, <3>1, <4>1
    <3>2. CASE d = c + 2
      <4>1. scan(text, c + 1) = "plaintext"
        BY <1>1, <1>4, <3>2, ScanIs
      <4> QED
        BY <2>4, <3>2, <4>1
    <3> QED
      BY <1>4, <3>1, <3>2
  <2>6. end.cell.cells = SubSeq(text, d + 1, Len(text))
    <3>1. \A j \in (d + 1)..((Len(text) + 1) - 1) : text[j].kind \in CellKinds
      BY <1>1, <2>2
    <3>2. get_cell_chain(text, d + 1, begin.spill).cell.cells
             = SubSeq(text, d + 1, (Len(text) + 1) - 1)
      BY <1>1, <1>2, <3>1, ChainAt
    <3> QED
      BY <1>1, <2>5, <3>2
  <2>7. LoopCompile(text, types, hung)
          = Compiled(begin.cell, text[c].v, sep, end.cell, end.spill)
    BY <2>3, <2>4 DEF LoopCompile, Failed
  <2>8. text[c].v # None
    BY <2>3, <2>4 DEF LoopCompile, Failed
  <2>9. <<Node(text[c].v)>> = <<text[c]>>
    BY <1>1, <1>4, ElementOfSeq, NodeToken
  <2> HIDE DEF begin, end, sep, dots
  <2>10. LET p == LoopCompile(text, types, hung).parts
         IN /\ p.begin.cells = SubSeq(text, 1, c - 1) /\ p.core = text[c].v
            /\ p.sep = IF d = c + 1 THEN << >> ELSE <<text[c + 1]>>
            /\ p.end.cells = SubSeq(text, d + 1, Len(text))
    BY <2>4, <2>5, <2>6, <2>7 DEF Compiled
  <2>11. SubSeq(text, 1, c - 1) \o <<text[c]>> = SubSeq(text, 1, c)
    <3>1. c - 1 \in 0..(Len(text) - 1) /\ (c - 1) + 1 = c
      BY <1>1
    <3> QED
      BY <3>1, UpToNext
  <2>12. SubSeq(text, 1, c) \o (IF d = c + 1 THEN << >> ELSE <<text[c + 1]>>)
           = SubSeq(text, 1, d - 1)
    <3>1. CASE d = c + 1
      <4>1. SubSeq(text, 1, c) \in Seq(Tokens)
        BY <1>1, PartIsSeq
      <4> QED
        BY <1>1, <3>1, <4>1, ConcatEmptySeq
    <3>2. CASE d = c + 2
      <4>1. c \in 0..(Len(text) - 1) /\ d - 1 = c + 1
        BY <1>1, <3>2
      <4> QED
        BY <3>2, <4>1, UpToNext
    <3> QED
      BY <1>4, <3>1, <3>2
  <2>13. SubSeq(text, 1, d - 1) \o <<Dots>> = SubSeq(text, 1, d)
    <3>1. d - 1 \in 0..(Len(text) - 1) /\ (d - 1) + 1 = d
      BY <1>1
    <3> QED
      BY <1>4, <3>1, UpToNext
  <2>14. SubSeq(text, 1, d) \o SubSeq(text, d + 1, Len(text)) = text
    <3>1. d \in 0..Len(text)
      BY <1>1
    <3> QED
      BY <3>1, UpToEnd
  <2>15. <<Node(text[c].v)>> # << >>
    OBVIOUS
  <2> QED
    BY <2>8, <2>9, <2>10, <2>11, <2>12, <2>13, <2>14, <2>15 DEF CoreText
<1> QED
  BY <1>3, <1>4 DEF ProperLoop

LEMMA FirstIs ==
    ASSUME NEW S, NEW s \in Seq(S), 1 <= Len(s)
    PROVE  SubSeq(s, 1, 1) = <<s[1]>>
<1>1. Len(s) \in Nat /\ s[1] \in S
  BY LenProperties, ElementOfSeq
<1>2. SubSeq(s, 1, 0) = << >>
  BY SubSeqEmpty
<1>3. SubSeq(s, 1, 0) \o <<s[0 + 1]>> = SubSeq(s, 1, 0 + 1)
  BY <1>1, UpToNext
<1>4. <<s[1]>> \in Seq(S)
  BY <1>1
<1>5. << >> \o <<s[1]>> = <<s[1]>>
  BY <1>4, ConcatEmptySeq
<1>6. 0 + 1 = 1
  OBVIOUS
<1> QED
  BY <1>2, <1>3, <1>5, <1>6

LEMMA MainKept ==
    ASSUME NEW text \in Seq(Tokens), NEW types, NEW hung, None \notin DOMAIN types,
           ProperMain(text), MainCompile(text, types, hung).ok
    PROVE  LET p == MainCompile(text, types, hung).parts
           IN p.begin.cells \o CoreText(p) \o p.end.cells = text
<1>1. Len(text) \in Nat /\ DOMAIN text = 1..Len(text)
  BY LenProperties
<1> DEFINE hasBegin == scan(text, 1) \in CellKinds
           core == IF hasBegin THEN 2 ELSE 1
           hasCore == scan(text, core) = "node"
           at == After(text, core)
           hasEnd == scan(text, at) \in CellKinds
           one(i) == [null |-> FALSE, cells |-> <<text[i]>>]
           begin == IF hasBegin THEN one(1) ELSE NullCell
           end == IF hasEnd THEN one(at) ELSE NullCell
           node == IF hasCore THEN text[core].v ELSE None
           n == Len(text)
<1>2. /\ MainCompile(text, types, hung) = Compiled(begin, node, << >>, end, hung)
      /\ hasCore => text[core].v \in DOMAIN types
  BY DEF MainCompile, Failed
<1>3. "node" \notin CellKinds /\ "no_more" \notin CellKinds
  BY DEF CellKinds
<1>4. SubSeq(text, 1, 0) = << >> /\ SubSeq(text, 1, n) = text
  BY SubSeqEmpty, SubSeqFull
<1> DEFINE p == [begin |-> begin, core |-> node, sep |-> << >>, end |-> end]
<1>5. MainCompile(text, types, hung).parts = p
  <2> HIDE DEF begin, node, end
  <2> QED
    BY <1>2 DEF Compiled
<1>6. CASE n = 1 /\ AllCells(text)
  <2>1. text[1].kind \in CellKinds
    BY <1>1, <1>6 DEF AllCells
  <2>2. hasBegin /\ core = 2
    BY <1>6, <2>1, ScanIs
  <2>3. scan(text, 2) = "no_more"
    BY <1>6, ScanIs
  <2>4. at = 2
    BY <2>2, <2>3 DEF After
  <2>5. ~hasCore /\ ~hasEnd
    BY <1>3, <2>2, <2>3, <2>4
  <2>6. p.begin.cells = text
    BY <1>4, <1>6, <2>2, FirstIs
  <2>7. CoreText(p) = << >> /\ p.end.cells = << >>
    BY <2>5 DEF CoreText, NullCell
  <2> HIDE DEF p
  <2> QED
    BY <1>5, <2>6, <2>7, ConcatEmptySeq
<1>7. ASSUME NEW c \in 1..n, text[c].kind = "node", c <= 2, n <= c + 1,
             \A j \in DOMAIN text \ {c} : text[j].kind \in CellKinds
      PROVE  p.begin.cells \o CoreText(p) \o p.end.cells = text
  <2>1. scan(text, c) = "node" /\ text[c] \in Tokens
    BY <1>1, <1>7, ScanIs
  <2>2. hasBegin <=> c = 2
    <3>1. CASE c = 1
      BY <1>3, <2>1, <3>1
    <3>2. CASE c = 2
      <4>1. 1 \in DOMAIN text \ {c} /\ 1 <= Len(text)
        BY <1>1, <3>2
      <4> QED
        BY <1>7, <3>2, <4>1, ScanIs
    <3> QED
      BY <1>1, <1>7, <3>1, <3>2
  <2>3. core = c
    BY <1>1, <1>7, <2>2
  <2>4. hasCore /\ at = c + 1
    BY <2>1, <2>3 DEF After
  <2>5. hasEnd <=> n = c + 1
    <3>1. CASE n = c
      <4>1. scan(text, c + 1) = "no_more"
        BY <1>1, <3>1, ScanIs
      <4> QED
        BY <1>1, <1>3, <2>4, <3>1, <4>1
    <3>2. CASE n = c + 1
      <4>1. c + 1 \in DOMAIN text \ {c} /\ c + 1 <= Len(text) /\ c + 1 \in Nat \ {0}
        BY <1>1, <3>2
      <4>2. scan(text, c + 1) \in CellKinds
        BY <1>7, <4>1, ScanIs
      <4> QED
        BY <2>4, <3>2, <4>2
    <3>3. n = c \/ n = c + 1
      BY <1>1, <1>7
    <3> QED
      BY <3>1, <3>2, <3>3
  <2>6. p.begin.cells = SubSeq(text, 1, c - 1)
    <3>1. CASE c = 1
      <4>1. p.begin.cells = << >>
        BY <2>2, <3>1 DEF NullCell
      <4>2. c - 1 = 0
        BY <3>1
      <4> HIDE DEF p
      <4> QED
        BY <1>4, <4>1, <4>2
    <3>2. CASE c = 2
      <4>1. 1 <= Len(text)
        BY <1>1, <3>2
      <4> QED
        BY <2>2, <3>2, <4>1, FirstIs
    <3> QED
      BY <1>1, <1>7, <3>1, <3>2
  <2>7. CoreText(p) = <<text[c]>>
    <3>1. text[c].v # None
      BY <1>2, <2>3, <2>4
    <3>2. text[c] = Node(text[c].v)
      BY <1>7, <2>1, NodeToken
    <3>3. p.core = text[c].v
      BY <2>3, <2>4
    <3> HIDE DEF p
    <3> QED
      BY <3>1, <3>2, <3>3 DEF CoreText
  <2>8. p.end.cells = IF n = c + 1 THEN <<text[c + 1]>> ELSE << >>
    BY <2>4, <2>5 DEF NullCell
  <2> HIDE DEF p
  <2>9. SubSeq(text, 1, c - 1) \o <<text[c]>> = SubSeq(text, 1, c)
    <3>1. c - 1 \in 0..(n - 1) /\ (c - 1) + 1 = c
      BY <1>1
    <3> QED
      BY <3>1, UpToNext
  <2>10. SubSeq(text, 1, c) \o p.end.cells = text
    <3>1. CASE n = c + 1
      <4>1. c \in 0..(n - 1)
        BY <1>1, <3>1
      <4>2. SubSeq(text, 1, c) \o <<text[c + 1]>> = SubSeq(text, 1, c + 1)
        BY <4>1, UpToNext
      <4> QED
        BY <1>4, <2>8, <3>1, <4>2
    <3>2. CASE n # c + 1
      <4>1. n = c
        <5>1. n \in Int /\ c \in Int /\ c <= n /\ n <= c + 1
          BY <1>1, <1>7
        <5> HIDE DEF n
        <5> QED
          BY <3>2, <5>1
      <4>2. p.end.cells = << >>
        BY <2>8, <3>2
      <4> QED
        BY <1>4, <4>1, <4>2, ConcatEmptySeq
    <3> QED
      BY <3>1, <3>2
  <2> QED
    BY <2>6, <2>7, <2>9, <2>10
<1>8. p.begin.cells \o CoreText(p) \o p.end.cells = text
  <2>1. CASE n = 1 /\ AllCells(text)
    BY <1>5, <1>6, <2>1
  <2>2. CASE ~(n = 1 /\ AllCells(text))
    <3>1. PICK c \in 1..n : /\ text[c].kind = "node" /\ c <= 2 /\ n <= c + 1
                            /\ \A j \in DOMAIN text \ {c} : text[j].kind \in CellKinds
      BY <2>2 DEF ProperMain
    <3> QED
      BY <1>7, <3>1
  <2> QED
    BY <2>1, <2>2
<1> HIDE DEF p
<1> QED
  BY <1>5, <1>8

LEMMA RecordKept ==
    ASSUME NEW text \in Seq(Tokens), NEW text2 \in Seq(Tokens), NEW hung,
           AllCells(text), AllCells(text2), RecordCompile(text, text2, hung).ok
    PROVE  LET p == RecordCompile(text, text2, hung).parts
           IN p.begin.cells = text /\ p.end.cells = text2
<1> DEFINE first == get_cell_chain(text, 1, hung)
           second == get_cell_chain(text2, 1, hung)
<1>1. RecordCompile(text, text2, hung) = Compiled(first.cell, None, << >>, second.cell, hung)
  BY DEF RecordCompile, Failed
<1>2. ASSUME NEW t \in Seq(Tokens), AllCells(t)
      PROVE  get_cell_chain(t, 1, hung).cell.cells = t
  <2>1. Len(t) \in Nat /\ DOMAIN t = 1..Len(t)
    BY LenProperties
  <2>2. scan(t, Len(t) + 1) \notin CellKinds
    BY <2>1, ScanIs DEF CellKinds
  <2>3. \A j \in 1..((Len(t) + 1) - 1) : t[j].kind \in CellKinds
    BY <1>2, <2>1 DEF AllCells
  <2>4. get_cell_chain(t, 1, hung).cell.cells = SubSeq(t, 1, (Len(t) + 1) - 1)
    BY <2>1, <2>2, <2>3, ChainAt
  <2> QED
    BY <2>1, <2>4, SubSeqFull
<1>3. first.cell.cells = text /\ second.cell.cells = text2
  BY <1>2
<1> HIDE DEF first, second
<1> QED
  BY <1>1, <1>3 DEF Compiled

-----------------------------------------------------------------------------
(* Formats                                                                   *)

FormatFields == {"name", "raw", "override", "top", "nodes"}
Tops == {"null", "_main", "uncompiled"}

\* A format whose container is being read: no node is called like the null node,
\* and a top node is the node "_main" or a second one beside it.
RawOK(f) ==
    /\ DOMAIN f = FormatFields /\ f.raw = FALSE /\ f.override = FALSE /\ f.top \in Tops
    /\ None \notin DOMAIN f.nodes /\ IsFiniteSet(DOMAIN f.nodes)
    /\ \A n \in DOMAIN f.nodes : f.nodes[n] \in RawNodes
    /\ f.top # "null" => "_main" \in DOMAIN f.nodes
    /\ f.top = "_main" => f.nodes["_main"].type = "Format"

\* The text of a compiled node is what its parts stand for.
Kept(node) == Proper(node) => /\ Written(node) = node.text
                              /\ node.type = "Record" => node.end.cells = node.text2

NodeOK(node, nodes) ==
    /\ node.type \in Classes /\ node.text \in Seq(Tokens) /\ node.text2 \in Seq(Tokens)
    /\ node.begin \in CellRecords /\ node.end \in CellRecords /\ node.sep \in Seq(Tokens)
    /\ node.core \in {None} \union DOMAIN nodes
    /\ node.type = "Format" /\ node.core # None => nodes[node.core].type \in {"Scan", "Row"}
    /\ Kept(node)

\* A format that a section may serve.
FormatOK(f) ==
    /\ f.raw \in BOOLEAN /\ f.override \in BOOLEAN /\ f.top \in Tops
    /\ IF f.raw THEN f.top = "null" ELSE f.top # "null" /\ "_main" \in DOMAIN f.nodes
    /\ f.top = "_main" => f.nodes["_main"].type = "Format"
    /\ None \notin DOMAIN f.nodes /\ IsFiniteSet(DOMAIN f.nodes)
    /\ \A n \in DOMAIN f.nodes : NodeOK(f.nodes[n], f.nodes)

LEMMA NodeKept ==
    ASSUME NEW node \in RawNodes, NEW types, NEW hung \in Seq(Tokens), None \notin DOMAIN types,
           NodeCompile(node, types, hung).ok
    PROVE  Kept(NodeWith(node, NodeCompile(node, types, hung).parts))
<1> DEFINE parts == NodeCompile(node, types, hung).parts
           m == NodeWith(node, parts)
<1>1. parts \in Parts(DOMAIN types)
  BY CompiledIs
<1> HIDE DEF parts
<1>2. /\ m.type = node.type /\ m.text = node.text /\ m.text2 = node.text2
      /\ m.begin = parts.begin /\ m.core = parts.core
      /\ m.sep = parts.sep /\ m.end = parts.end
  BY DEF NodeWith
<1>3. node.text \in Seq(Tokens) /\ node.text2 \in Seq(Tokens) /\ node.type \in Classes
  BY DEF RawNodes
<1> HIDE DEF m
<1> SUFFICES ASSUME Proper(m)
             PROVE  Written(m) = m.text /\ (m.type = "Record" => m.end.cells = m.text2)
  BY DEF Kept, m, parts
<1>4. CASE node.type = "Format"
  <2>1. ProperMain(node.text)
    BY <1>2, <1>4 DEF Proper
  <2>2. parts = MainCompile(node.text, types, hung).parts /\ MainCompile(node.text, types, hung).ok
    BY <1>4 DEF NodeCompile, parts
  <2>3. parts.begin.cells \o CoreText(parts) \o parts.end.cells = node.text
    BY <1>3, <2>1, <2>2, MainKept
  <2> QED
    BY <1>2, <1>4, <2>3 DEF Written, CoreText
<1>5. CASE node.type \in {"Scan", "Row"}
  <2>1. ProperLoop(node.text)
    BY <1>2, <1>5 DEF Proper
  <2>2. parts = LoopCompile(node.text, types, hung).parts /\ LoopCompile(node.text, types, hung).ok
    BY <1>5 DEF NodeCompile, parts
  <2>3. parts.begin.cells \o CoreText(parts) \o parts.sep
           \o (IF CoreText(parts) = << >> THEN << >> ELSE <<Dots>>) \o parts.end.cells = node.text
    BY <1>3, <2>1, <2>2, LoopKept
  <2> QED
    BY <1>2, <1>5, <2>3 DEF Written, CoreText
<1>6. CASE node.type = "Record"
  <2>1. AllCells(node.text) /\ AllCells(node.text2)
    BY <1>2, <1>6 DEF Proper
  <2>2. /\ parts = RecordCompile(node.text, node.text2, hung).parts
        /\ RecordCompile(node.text, node.text2, hung).ok
    BY <1>6 DEF NodeCompile, parts
  <2>3. parts.begin.cells = node.text /\ parts.end.cells = node.text2
    BY <1>3, <2>1, <2>2, RecordKept
  <2> QED
    BY <1>2, <1>6, <2>3 DEF Written
<1> QED
  BY <1>3, <1>4, <1>5, <1>6 DEF Classes

LEMMA CompiledFormat ==
    ASSUME NEW f, RawOK(f), f.top # "null", NEW hung \in Seq(Tokens),
           \A n \in DOMAIN f.nodes : Results(f, hung)[n].ok
    PROVE  LET g == WithParts(f, Results(f, hung))
           IN /\ FormatOK(g) /\ g.name = f.name /\ DOMAIN g = FormatFields
              /\ Spills(Results(f, hung), hung) \subseteq Seq(Tokens)
<1> DEFINE R == Results(f, hung)
           g == WithParts(f, R)
<1>1. /\ DOMAIN Types(f) = DOMAIN f.nodes /\ DOMAIN R = DOMAIN f.nodes
      /\ \A n \in DOMAIN f.nodes : Types(f)[n] = f.nodes[n].type
  BY DEF Types, Results
<1>2. ASSUME NEW n \in DOMAIN f.nodes
      PROVE  /\ R[n] = NodeCompile(f.nodes[n], Types(f), hung)
             /\ f.nodes[n] \in RawNodes
             /\ R[n].parts \in Parts(DOMAIN f.nodes)
             /\ f.nodes[n].type = "Format" /\ R[n].parts.core # None
                  => Types(f)[R[n].parts.core] \in {"Scan", "Row"}
             /\ R[n].spill \in Seq(Tokens)
             /\ Kept(NodeWith(f.nodes[n], R[n].parts))
  <2>1. R[n] = NodeCompile(f.nodes[n], Types(f), hung)
    BY DEF Results
  <2>2. f.nodes[n] \in RawNodes /\ None \notin DOMAIN Types(f)
    BY <1>1 DEF RawOK
  <2> HIDE DEF R
  <2>3. NodeCompile(f.nodes[n], Types(f), hung).ok
    BY <2>1 DEF R
  <2> QED
    BY <1>1, <2>1, <2>2, <2>3, CompiledIs, NodeKept
<1> HIDE DEF R
<1>3. /\ DOMAIN g = FormatFields
      /\ g.name = f.name /\ g.raw = f.raw /\ g.override = f.override /\ g.top = f.top
      /\ DOMAIN g.nodes = DOMAIN f.nodes
      /\ \A n \in DOMAIN f.nodes : g.nodes[n] = NodeWith(f.nodes[n], R[n].parts)
  BY DEF WithParts, RawOK, FormatFields
<1> HIDE DEF g
<1>4. ASSUME NEW n \in DOMAIN f.nodes
      PROVE  /\ g.nodes[n].type = f.nodes[n].type
             /\ g.nodes[n].text = f.nodes[n].text /\ g.nodes[n].text2 = f.nodes[n].text2
             /\ g.nodes[n].begin = R[n].parts.begin /\ g.nodes[n].core = R[n].parts.core
             /\ g.nodes[n].sep = R[n].parts.sep /\ g.nodes[n].end = R[n].parts.end
  <2>1. g.nodes[n] = NodeWith(f.nodes[n], R[n].parts)
    BY <1>3
  <2> DEFINE a == f.nodes[n]
             b == R[n].parts
  <2>2. g.nodes[n] = [type |-> a.type, text |-> a.text, text2 |-> a.text2,
                      begin |-> b.begin, core |-> b.core, sep |-> b.sep, end |-> b.end]
    BY <2>1 DEF NodeWith
  <2> HIDE DEF a, b
  <2>3. /\ g.nodes[n].type = a.type /\ g.nodes[n].text = a.text /\ g.nodes[n].text2 = a.text2
        /\ g.nodes[n].begin = b.begin /\ g.nodes[n].core = b.core
        /\ g.nodes[n].sep = b.sep /\ g.nodes[n].end = b.end
    BY <2>2
  <2> QED
    BY <2>3 DEF a, b
<1>5. ASSUME NEW n \in DOMAIN f.nodes
      PROVE  NodeOK(g.nodes[n], g.nodes)
  <2>1. /\ R[n].parts.begin \in CellRecords /\ R[n].parts.end \in CellRecords
        /\ R[n].parts.sep \in Seq(Tokens) /\ R[n].parts.core \in {None} \union DOMAIN f.nodes
    BY <1>2 DEF Parts
  <2>2. f.nodes[n].type \in Classes /\ f.nodes[n].text \in Seq(Tokens)
        /\ f.nodes[n].text2 \in Seq(Tokens)
    BY <1>2 DEF RawNodes
  <2>3. g.nodes[n].type = "Format" /\ g.nodes[n].core # None
          => g.nodes[g.nodes[n].core].type \in {"Scan", "Row"}
    BY <1>1, <1>2, <1>4, <2>1
  <2>4. Kept(g.nodes[n])
    BY <1>2, <1>3
  <2> QED
    BY <1>3, <1>4, <2>1, <2>2, <2>3, <2>4 DEF NodeOK
<1>6. FormatOK(g)
  <2>1. f.top = "_main" => g.nodes["_main"].type = "Format"
    BY <1>4 DEF RawOK
  <2> QED
    BY <1>3, <1>5, <2>1 DEF FormatOK, RawOK
<1>7. Spills(R, hung) \subseteq Seq(Tokens)
  BY <1>1, <1>2 DEF Spills
<1> QED
  BY <1>3, <1>6, <1>7 DEF g, R

LEMMA AddedNode ==
    ASSUME NEW f, DOMAIN f = FormatFields, NEW line
    PROVE  LET g == AddLine(f, line)
               key == IF line.type = "Format" THEN "_main" ELSE line.name
           IN /\ DOMAIN g = FormatFields
              /\ g.name = f.name /\ g.raw = f.raw /\ g.override = f.override
              /\ g.top = IF line.type = "Format"
                         THEN IF "_main" \in DOMAIN f.nodes THEN "uncompiled" ELSE "_main"
                         ELSE f.top
              /\ DOMAIN g.nodes = DOMAIN f.nodes \union {key}
              /\ \A n \in DOMAIN f.nodes : g.nodes[n] = f.nodes[n]
              /\ key \notin DOMAIN f.nodes
                   => g.nodes[key] = [type |-> line.type, text |-> line.text, text2 |-> line.text2]
<1> DEFINE node == [type |-> line.type, text |-> line.text, text2 |-> line.text2]
<1>1. ASSUME NEW n
      PROVE  LET g == symbol(f, n, node)
             IN /\ DOMAIN g = FormatFields
                /\ g.name = f.name /\ g.raw = f.raw /\ g.override = f.override /\ g.top = f.top
                /\ DOMAIN g.nodes = DOMAIN f.nodes \union {n}
                /\ \A k \in DOMAIN f.nodes : g.nodes[k] = f.nodes[k]
                /\ n \notin DOMAIN f.nodes => g.nodes[n] = node
  <2> HIDE DEF node
  <2> QED
    BY DEF symbol, FormatFields
<1>2. CASE line.type = "Format"
  <2> DEFINE top == IF "_main" \in DOMAIN f.nodes THEN "uncompiled" ELSE "_main"
             s == symbol(f, "_main", node)
  <2>1. AddLine(f, line) = [s EXCEPT !.top = top]
    BY <1>2 DEF AddLine
  <2>2. /\ DOMAIN s = FormatFields
        /\ s.name = f.name /\ s.raw = f.raw /\ s.override = f.override
        /\ DOMAIN s.nodes = DOMAIN f.nodes \union {"_main"}
        /\ \A k \in DOMAIN f.nodes : s.nodes[k] = f.nodes[k]
        /\ "_main" \notin DOMAIN f.nodes => s.nodes["_main"] = node
    BY <1>1
  <2> HIDE DEF s, top
  <2>3. LET g == [s EXCEPT !.top = top]
        IN /\ DOMAIN g = FormatFields
           /\ g.name = f.name /\ g.raw = f.raw /\ g.override = f.override
           /\ g.top = top /\ g.nodes = s.nodes
    BY <2>2 DEF FormatFields
  <2> HIDE DEF node
  <2> QED
    BY <1>2, <2>1, <2>2, <2>3 DEF top, node
<1>3. CASE line.type # "Format"
  <2>1. AddLine(f, line) = symbol(f, line.name, node)
    BY <1>3 DEF AddLine
  <2> HIDE DEF node
  <2> QED
    BY <1>1, <1>3, <2>1 DEF node
<1> QED
  BY <1>2, <1>3

LineOK(line) == /\ line.type \in Classes /\ line.name # None
                /\ line.text \in Seq(Tokens) /\ line.text2 \in Seq(Tokens)

LEMMA AddLineOK ==
    ASSUME NEW f, RawOK(f), NEW line, LineOK(line)
    PROVE  RawOK(AddLine(f, line))
<1> DEFINE g == AddLine(f, line)
           key == IF line.type = "Format" THEN "_main" ELSE line.name
           node == [type |-> line.type, text |-> line.text, text2 |-> line.text2]
<1>1. /\ DOMAIN g = FormatFields
      /\ g.name = f.name /\ g.raw = f.raw /\ g.override = f.override
      /\ g.top = IF line.type = "Format"
                 THEN IF "_main" \in DOMAIN f.nodes THEN "uncompiled" ELSE "_main"
                 ELSE f.top
      /\ DOMAIN g.nodes = DOMAIN f.nodes \union {key}
      /\ \A n \in DOMAIN f.nodes : g.nodes[n] = f.nodes[n]
      /\ key \notin DOMAIN f.nodes => g.nodes[key] = node
  BY AddedNode DEF RawOK
<1>2. node \in RawNodes /\ node.type = line.type
  BY DEF LineOK, RawNodes
<1>3. key # None
  BY DEF LineOK, None
<1> HIDE DEF g, node
<1>4. \A n \in DOMAIN g.nodes : g.nodes[n] \in RawNodes
  BY <1>1, <1>2 DEF RawOK
<1>5. IsFiniteSet(DOMAIN g.nodes)
  BY <1>1, FS_AddElement DEF RawOK
<1>6. CASE line.type = "Format"
  BY <1>1, <1>2, <1>3, <1>4, <1>5, <1>6 DEF RawOK, Tops, g
<1>7. CASE line.type # "Format"
  BY <1>1, <1>3, <1>4, <1>5, <1>7 DEF RawOK, g
<1> QED
  BY <1>6, <1>7

-----------------------------------------------------------------------------
(* The built-in formats                                                      *)

LEMMA TokenIs ==
    /\ \A v \in Words : Text(v) \in Tokens /\ Node(v) \in Tokens
    /\ Dots \in Tokens /\ Name \in Tokens /\ Value \in Tokens
    /\ \A v : Text(v).kind = "plaintext" /\ Node(v).kind = "node" /\ Node(v).v = v
    /\ Dots.kind = "ellipses" /\ Name.kind = "fieldname" /\ Value.kind = "fieldval"
<1>1. \A v \in Words : Text(v) \in Tokens /\ Node(v) \in Tokens
  BY DEF Text, Node, Token, Tokens
<1>2. Dots \in Tokens /\ Name \in Tokens /\ Value \in Tokens
  BY DEF Dots, Name, Value, Token, Tokens
<1> QED
  BY <1>1, <1>2 DEF Text, Node, Dots, Name, Value, Token

LEMMA FiveTokens ==
    ASSUME NEW t1 \in Tokens, NEW t2 \in Tokens, NEW t3 \in Tokens, NEW t4 \in Tokens,
           NEW t5 \in Tokens
    PROVE  LET text == <<t1, t2, t3, t4, t5>>
           IN /\ text \in Seq(Tokens) /\ Len(text) = 5
              /\ text[1] = t1 /\ text[2] = t2 /\ text[3] = t3 /\ text[4] = t4 /\ text[5] = t5
  OBVIOUS

LEMMA MainTextCompiles ==
    ASSUME NEW types, NEW hung, NEW c \in Words, NEW v \in Words,
           c \in DOMAIN types, types[c] \in {"Scan", "Row"}
    PROVE  /\ <<Node(c), Text(v)>> \in Seq(Tokens)
           /\ MainCompile(<<Node(c), Text(v)>>, types, hung).ok
<1> DEFINE text == <<Node(c), Text(v)>>
<1>1. text \in Seq(Tokens) /\ Len(text) = 2 /\ text[1] = Node(c) /\ text[2] = Text(v)
  BY TokenIs
<1> HIDE DEF text
<1>2. scan(text, 1) = "node" /\ scan(text, 2) = "plaintext" /\ scan(text, 3) = "no_more"
  BY <1>1, ScanIs, TokenIs
<1>3. "node" \notin CellKinds /\ "plaintext" \in CellKinds
  BY DEF CellKinds
<1>4. After(text, 1) = 2 /\ After(text, 2) = 3 /\ the_end(text, 3)
  BY <1>2 DEF After, the_end
<1>5. text[1].v = c
  BY <1>1, TokenIs
<1>6. MainCompile(text, types, hung).ok
  BY <1>2, <1>3, <1>4, <1>5 DEF MainCompile, Compiled
<1> QED
  BY <1>1, <1>6 DEF text

LEMMA LoopTextCompiles ==
    ASSUME NEW types, NEW hung, NEW a \in Words, NEW b \in Words, NEW c \in Words,
           c \in DOMAIN types
    PROVE  LET text == <<Text(a), Node(c), Text("comma"), Dots, Text(b)>>
           IN text \in Seq(Tokens) /\ LoopCompile(text, types, hung).ok
<1> DEFINE text == <<Text(a), Node(c), Text("comma"), Dots, Text(b)>>
<1>1. /\ text \in Seq(Tokens) /\ Len(text) = 5
      /\ text[1] = Text(a) /\ text[2] = Node(c) /\ text[3] = Text("comma")
      /\ text[4] = Dots /\ text[5] = Text(b)
  <2>1. /\ Text(a) \in Tokens /\ Node(c) \in Tokens /\ Text("comma") \in Tokens
        /\ Dots \in Tokens /\ Text(b) \in Tokens
    BY FormatsAssumption, TokenIs
  <2> QED
    BY <2>1, FiveTokens
<1> HIDE DEF text
<1>2. /\ scan(text, 1) = "plaintext" /\ scan(text, 2) = "node" /\ scan(text, 3) = "plaintext"
      /\ scan(text, 4) = "ellipses" /\ scan(text, 5) = "plaintext" /\ scan(text, 6) = "no_more"
  <2>1. \A p \in 1..5 : scan(text, p) = text[p].kind
    BY <1>1, ScanIs
  <2> QED
    BY <1>1, <2>1, ScanIs, TokenIs
<1>3. "node" \notin CellKinds /\ "plaintext" \in CellKinds /\ "no_more" \notin CellKinds
  BY DEF CellKinds
<1>4. get_cell_chain(text, 1, hung).next = 2
  <2>1. \A j \in 1..(2 - 1) : text[j].kind \in CellKinds
    BY <1>1, <1>3, TokenIs
  <2>2. 2 \in 1..(Len(text) + 1) /\ 1 \in 1..(Len(text) + 1) /\ 1 < 2
    BY <1>1
  <2> QED
    BY <1>1, <1>2, <1>3, <2>1, <2>2, ChainAt
<1>5. ASSUME NEW h PROVE get_cell_chain(text, 5, h).next = 6
  <2>1. \A j \in 5..(6 - 1) : text[j].kind \in CellKinds
    BY <1>1, <1>3, TokenIs
  <2>2. 6 \in 5..(Len(text) + 1) /\ 5 \in 1..(Len(text) + 1) /\ 5 < 6
    BY <1>1
  <2> QED
    BY <1>1, <1>2, <1>3, <2>1, <2>2, ChainAt
<1>6. text[2].v = c
  BY <1>1, TokenIs
<1>7. LoopCompile(text, types, hung).ok
  <2>1. 2 + 1 = 3 /\ 2 + 2 = 4 /\ 4 + 1 = 5 /\ the_end(text, 6)
    BY <1>2 DEF the_end
  <2> QED
    BY <1>2, <1>4, <1>5, <1>6, <2>1 DEF LoopCompile, Compiled
<1> QED
  BY <1>1, <1>7 DEF text

LEMMA RecordTextCompiles ==
    ASSUME NEW hung, NEW text \in Seq(Tokens), NEW text2 \in Seq(Tokens),
           AllCells(text), AllCells(text2), 1 <= Len(text), 1 <= Len(text2)
    PROVE  RecordCompile(text, text2, hung).ok
<1>1. ASSUME NEW t \in Seq(Tokens), AllCells(t), 1 <= Len(t)
      PROVE  /\ ~get_cell_chain(t, 1, hung).cell.null
             /\ scan(t, get_cell_chain(t, 1, hung).next) = "no_more"
  <2>1. Len(t) \in Nat /\ DOMAIN t = 1..Len(t)
    BY LenProperties
  <2>2. scan(t, Len(t) + 1) = "no_more" /\ "no_more" \notin CellKinds
    BY <2>1, ScanIs DEF CellKinds
  <2>3. \A j \in 1..((Len(t) + 1) - 1) : t[j].kind \in CellKinds
    BY <1>1, <2>1 DEF AllCells
  <2>4. get_cell_chain(t, 1, hung).next = Len(t) + 1
    BY <2>1, <2>2, <2>3, ChainAt
  <2>5. scan(t, 1) \in CellKinds
    BY <1>1, <2>1, <2>3, ScanIs
  <2>6. ~get_cell_chain(t, 1, hung).cell.null
    BY <2>5 DEF get_cell_chain
  <2> QED
    BY <2>2, <2>4, <2>6
<1>2. "no_more" # "open"
  OBVIOUS
<1> QED
  BY <1>1, <1>2 DEF RecordCompile, Compiled

LEMMA BuiltInOK ==
    ASSUME NEW name, NEW s1 \in Words, NEW s2 \in Words, NEW r1 \in Words, NEW r2 \in Words,
           NEW i1 \in Seq(Tokens), NEW i2 \in Seq(Tokens),
           AllCells(i1), AllCells(i2), 1 <= Len(i1), 1 <= Len(i2)
    PROVE  /\ FormatOK(BuiltIn(name, s1, s2, r1, r2, i1, i2))
           /\ BuiltIn(name, s1, s2, r1, r2, i1, i2).name = name
<1> DEFINE mainText == <<Node("scan"), Text("nl")>>
           scanText == <<Text(s1), Node("row"), Text("comma"), Dots, Text(s2)>>
           rowText == <<Text(r1), Node("item"), Text("comma"), Dots, Text(r2)>>
           mainLine == Line("Format", "_main", mainText)
           scanLine == Line("Scan", "scan", scanText)
           rowLine == Line("Row", "row", rowText)
           itemLine == [type |-> "Record", name |-> "item", text |-> i1, text2 |-> i2]
           f0 == MkFormat(name)
           f1 == AddLine(f0, mainLine)
           f2 == AddLine(f1, scanLine)
           f3 == AddLine(f2, rowLine)
           f4 == AddLine(f3, itemLine)
<1>0. /\ "scan" \in Words /\ "nl" \in Words /\ "row" \in Words /\ "item" \in Words
      /\ "comma" \in Words
  BY FormatsAssumption
<1>1. BuiltIn(name, s1, s2, r1, r2, i1, i2)
        = [WithParts(f4, Results(f4, << >>)) EXCEPT !.override = TRUE]
  BY DEF BuiltIn
<1>2. mainText \in Seq(Tokens) /\ scanText \in Seq(Tokens) /\ rowText \in Seq(Tokens)
  <2>1. /\ Node("scan") \in Tokens /\ Text("nl") \in Tokens /\ Node("row") \in Tokens
        /\ Node("item") \in Tokens /\ Text("comma") \in Tokens
    BY <1>0, TokenIs
  <2>2. /\ Text(s1) \in Tokens /\ Text(s2) \in Tokens /\ Text(r1) \in Tokens
        /\ Text(r2) \in Tokens /\ Dots \in Tokens
    BY TokenIs
  <2> QED
    BY <2>1, <2>2, FiveTokens
<1>3. /\ mainLine.type = "Format" /\ mainLine.name = "_main"
      /\ mainLine.text = mainText /\ mainLine.text2 = mainText
      /\ scanLine.type = "Scan" /\ scanLine.name = "scan"
      /\ scanLine.text = scanText /\ scanLine.text2 = scanText
      /\ rowLine.type = "Row" /\ rowLine.name = "row"
      /\ rowLine.text = rowText /\ rowLine.text2 = rowText
      /\ itemLine.type = "Record" /\ itemLine.name = "item"
      /\ itemLine.text = i1 /\ itemLine.text2 = i2
  BY DEF Line
<1> HIDE DEF mainText, scanText, rowText, mainLine, scanLine, rowLine, itemLine
<1>4. LineOK(mainLine) /\ LineOK(scanLine) /\ LineOK(rowLine) /\ LineOK(itemLine)
  BY <1>2, <1>3 DEF LineOK, Classes, None
<1>5. RawOK(f0) /\ f0.name = name /\ f0.nodes = << >> /\ DOMAIN f0.nodes = {}
  BY FS_EmptySet DEF MkFormat, RawOK, FormatFields, Tops
<1> HIDE DEF f0
<1>6. /\ RawOK(f1) /\ f1.name = name /\ f1.top = "_main" /\ DOMAIN f1.nodes = {"_main"}
      /\ f1.nodes["_main"] = [type |-> "Format", text |-> mainText, text2 |-> mainText]
  <2>1. RawOK(f1)
    BY <1>4, <1>5, AddLineOK
  <2>2. DOMAIN f0 = FormatFields
    BY <1>5 DEF RawOK
  <2> QED
    BY <1>3, <1>5, <2>1, <2>2, AddedNode
<1> HIDE DEF f1
<1>7. /\ RawOK(f2) /\ f2.name = name /\ f2.top = "_main" /\ DOMAIN f2.nodes = {"_main", "scan"}
      /\ f2.nodes["_main"] = f1.nodes["_main"]
      /\ f2.nodes["scan"] = [type |-> "Scan", text |-> scanText, text2 |-> scanText]
  <2>1. RawOK(f2)
    BY <1>4, <1>6, AddLineOK
  <2>2. DOMAIN f1 = FormatFields
    BY <1>6 DEF RawOK
  <2> QED
    BY <1>3, <1>6, <2>1, <2>2, AddedNode
<1> HIDE DEF f2
<1>8. /\ RawOK(f3) /\ f3.name = name /\ f3.top = "_main"
      /\ DOMAIN f3.nodes = {"_main", "scan", "row"}
      /\ f3.nodes["_main"] = f2.nodes["_main"] /\ f3.nodes["scan"] = f2.nodes["scan"]
      /\ f3.nodes["row"] = [type |-> "Row", text |-> rowText, text2 |-> rowText]
  <2>1. RawOK(f3)
    BY <1>4, <1>7, AddLineOK
  <2>2. DOMAIN f2 = FormatFields
    BY <1>7 DEF RawOK
  <2> QED
    BY <1>3, <1>7, <2>1, <2>2, AddedNode
<1> HIDE DEF f3
<1>9. /\ RawOK(f4) /\ f4.name = name /\ f4.top = "_main"
      /\ DOMAIN f4.nodes = {"_main", "scan", "row", "item"}
      /\ f4.nodes["_main"] = f3.nodes["_main"] /\ f4.nodes["scan"] = f3.nodes["scan"]
      /\ f4.nodes["row"] = f3.nodes["row"]
      /\ f4.nodes["item"] = [type |-> "Record", text |-> i1, text2 |-> i2]
  <2>1. RawOK(f4)
    BY <1>4, <1>8, AddLineOK
  <2>2. DOMAIN f3 = FormatFields
    BY <1>8 DEF RawOK
  <2> QED
    BY <1>3, <1>8, <2>1, <2>2, AddedNode
<1> HIDE DEF f4
<1> DEFINE R == Results(f4, << >>)
<1>10. \A n \in DOMAIN f4.nodes : R[n].ok
  <2>1. /\ DOMAIN Types(f4) = {"_main", "scan", "row", "item"}
        /\ Types(f4)["scan"] = "Scan"
    BY <1>7, <1>8, <1>9 DEF Types
  <2>2. \A n \in DOMAIN f4.nodes : R[n] = NodeCompile(f4.nodes[n], Types(f4), << >>)
    BY DEF Results
  <2>3. MainCompile(mainText, Types(f4), << >>).ok
    BY <1>0, <2>1, MainTextCompiles DEF mainText
  <2>4. LoopCompile(scanText, Types(f4), << >>).ok /\ LoopCompile(rowText, Types(f4), << >>).ok
    BY <1>0, <2>1, LoopTextCompiles DEF scanText, rowText
  <2>5. RecordCompile(i1, i2, << >>).ok
    BY RecordTextCompiles
  <2>6. R["_main"].ok
    BY <1>6, <1>7, <1>8, <1>9, <2>2, <2>3 DEF NodeCompile
  <2>7. R["scan"].ok
    BY <1>7, <1>8, <1>9, <2>2, <2>4 DEF NodeCompile
  <2>8. R["row"].ok
    BY <1>8, <1>9, <2>2, <2>4 DEF NodeCompile
  <2>9. R["item"].ok
    BY <1>9, <2>2, <2>5 DEF NodeCompile
  <2> QED
    BY <1>9, <2>6, <2>7, <2>8, <2>9
<1> DEFINE g == WithParts(f4, R)
<1>11. FormatOK(g) /\ g.name = name /\ DOMAIN g = FormatFields
  <2>1. << >> \in Seq(Tokens)
    BY EmptySeq
  <2> QED
    BY <1>9, <1>10, <2>1, CompiledFormat
<1> HIDE DEF g
<1> DEFINE h == [g EXCEPT !.override = TRUE]
<1>12. /\ h.name = g.name /\ h.raw = g.raw /\ h.override = TRUE /\ h.top = g.top
       /\ h.nodes = g.nodes
  BY <1>11 DEF FormatFields
<1> HIDE DEF h
<1>13. FormatOK(h)
  BY <1>11, <1>12 DEF FormatOK
<1> QED
  BY <1>1, <1>11, <1>12, <1>13 DEF g, h

-----------------------------------------------------------------------------
(* The table of formats                                                      *)

Resolves(list, table) ==
    \A n \in DOMAIN table : /\ list[table[n] + 1].name = n
                            /\ \A j \in table[n] + 2..Len(list) : list[j].name # n

TableOK(list, table) ==
    /\ list \in Seq(Range(list))
    /\ {"raw", "JSON", "XML"} \subseteq DOMAIN table
    /\ \A n \in DOMAIN table : table[n] \in 0..(Len(list) - 1)
    /\ Resolves(list, table)
    /\ \A j \in DOMAIN list : FormatOK(list[j])

EndpointOK ==
    /\ endpoint = NoFormat \/ FormatOK(endpoint)
    /\ phase \in {"serving", "died"} => FormatOK(endpoint)

ReadingOK ==
    /\ RawOK(fmt) /\ spill \in Seq(Tokens)
    /\ lines \in 0..MaxLines /\ servers \in 1..MaxServers
    /\ phase \in Phases

ConfigOK == TableOK(formats, names) /\ EndpointOK /\ ReadingOK

LEMMA BuiltInsOK ==
    /\ Len(BuiltIns) = 3 /\ BuiltIns \in Seq(Range(BuiltIns))
    /\ DOMAIN BuiltInNames = {"raw", "JSON", "XML"}
    /\ BuiltInNames["raw"] = 0 /\ BuiltInNames["JSON"] = 1 /\ BuiltInNames["XML"] = 2
    /\ BuiltIns[1].name = "raw" /\ BuiltIns[2].name = "JSON" /\ BuiltIns[3].name = "XML"
    /\ \A j \in 1..3 : FormatOK(BuiltIns[j])
<1> DEFINE raw == [MkFormat("raw") EXCEPT !.raw = TRUE]
           i1 == <<Name, Text("colon"), Value>>
           i2 == <<Name, Text("colon_null")>>
           json == BuiltIn("JSON", "lbracket", "rbracket", "lbrace", "rbrace", i1, i2)
           i3 == <<Text("Attr_name"), Name, Text("value_is"), Value, Text("end_Attr")>>
           i4 == <<Text("Attr_name"), Name, Text("isNull")>>
           xml == BuiltIn("XML", "NDBScan", "end_NDBScan", "NDBTuple", "end_NDBTuple", i3, i4)
<1>1. BuiltIns = <<raw, json, xml>>
  BY DEF BuiltIns
<1>2. raw.name = "raw" /\ FormatOK(raw)
  <2>1. /\ raw.name = "raw" /\ raw.raw = TRUE /\ raw.override = FALSE /\ raw.top = "null"
        /\ raw.nodes = << >>
    BY DEF MkFormat
  <2> HIDE DEF raw
  <2>2. DOMAIN raw.nodes = {}
    BY <2>1
  <2> QED
    BY <2>1, <2>2, FS_EmptySet DEF FormatOK, Tops
<1>3. /\ Text("colon") \in Tokens /\ Text("colon_null") \in Tokens /\ Text("Attr_name") \in Tokens
      /\ Text("value_is") \in Tokens /\ Text("end_Attr") \in Tokens /\ Text("isNull") \in Tokens
      /\ Name \in Tokens /\ Value \in Tokens
  BY FormatsAssumption, TokenIs
<1>4. \A v : Text(v).kind \in CellKinds /\ Name.kind \in CellKinds /\ Value.kind \in CellKinds
  BY TokenIs DEF CellKinds
<1>5. i1 \in Seq(Tokens) /\ Len(i1) = 3 /\ AllCells(i1)
  BY <1>3, <1>4 DEF AllCells
<1>6. i2 \in Seq(Tokens) /\ Len(i2) = 2 /\ AllCells(i2)
  BY <1>3, <1>4 DEF AllCells
<1>7. i3 \in Seq(Tokens) /\ Len(i3) = 5 /\ AllCells(i3)
  BY <1>3, <1>4 DEF AllCells
<1>8. i4 \in Seq(Tokens) /\ Len(i4) = 3 /\ AllCells(i4)
  BY <1>3, <1>4 DEF AllCells
<1>9. /\ "lbracket" \in Words /\ "rbracket" \in Words /\ "lbrace" \in Words /\ "rbrace" \in Words
      /\ "NDBScan" \in Words /\ "end_NDBScan" \in Words /\ "NDBTuple" \in Words
      /\ "end_NDBTuple" \in Words
  BY FormatsAssumption
<1> HIDE DEF raw, i1, i2, i3, i4
<1>10. json.name = "JSON" /\ FormatOK(json)
  <2>1. 1 <= Len(i1) /\ 1 <= Len(i2)
    BY <1>5, <1>6
  <2>2. i1 \in Seq(Tokens) /\ i2 \in Seq(Tokens) /\ AllCells(i1) /\ AllCells(i2)
    BY <1>5, <1>6
  <2> HIDE DEF json
  <2>3. \A s1, s2, r1, r2 \in Words :
           LET f == BuiltIn("JSON", s1, s2, r1, r2, i1, i2) IN f.name = "JSON" /\ FormatOK(f)
    BY <2>1, <2>2, BuiltInOK
  <2> QED
    BY <1>9, <2>3 DEF json
<1>11. xml.name = "XML" /\ FormatOK(xml)
  <2>1. 1 <= Len(i3) /\ 1 <= Len(i4)
    BY <1>7, <1>8
  <2>2. i3 \in Seq(Tokens) /\ i4 \in Seq(Tokens) /\ AllCells(i3) /\ AllCells(i4)
    BY <1>7, <1>8
  <2> HIDE DEF xml
  <2>3. \A s1, s2, r1, r2 \in Words :
           LET f == BuiltIn("XML", s1, s2, r1, r2, i3, i4) IN f.name = "XML" /\ FormatOK(f)
    BY <2>1, <2>2, BuiltInOK
  <2> QED
    BY <1>9, <2>3 DEF xml
<1> HIDE DEF json, xml
<1>12. /\ Len(BuiltIns) = 3 /\ BuiltIns \in Seq(Range(BuiltIns))
       /\ BuiltIns[1] = raw /\ BuiltIns[2] = json /\ BuiltIns[3] = xml
  <2>1. /\ Len(<<raw, json, xml>>) = 3 /\ DOMAIN <<raw, json, xml>> = 1..3
        /\ <<raw, json, xml>>[1] = raw /\ <<raw, json, xml>>[2] = json
        /\ <<raw, json, xml>>[3] = xml
    OBVIOUS
  <2>2. raw \in Range(BuiltIns) /\ json \in Range(BuiltIns) /\ xml \in Range(BuiltIns)
    BY <1>1, <2>1 DEF Range
  <2>3. <<raw, json, xml>> \in Seq(Range(BuiltIns))
    BY <2>2
  <2> QED
    BY <1>1, <2>1, <2>3
<1>13. /\ DOMAIN BuiltInNames = {"raw", "JSON", "XML"}
       /\ BuiltInNames["raw"] = 0 /\ BuiltInNames["JSON"] = 1 /\ BuiltInNames["XML"] = 2
  BY DEF BuiltInNames
<1>14. \A j \in 1..3 : FormatOK(BuiltIns[j])
  BY <1>2, <1>10, <1>11, <1>12
<1> QED
  BY <1>2, <1>10, <1>11, <1>12, <1>13, <1>14

LEMMA BuiltInTable == TableOK(BuiltIns, BuiltInNames)
<1>1. Len(BuiltIns) = 3 /\ DOMAIN BuiltIns = 1..3
  BY BuiltInsOK, LenProperties
<1>2. \A n \in DOMAIN BuiltInNames : BuiltInNames[n] \in 0..2
  BY BuiltInsOK
<1>3. \A n \in DOMAIN BuiltInNames : BuiltIns[BuiltInNames[n] + 1].name = n
  BY BuiltInsOK
<1>4. \A n \in DOMAIN BuiltInNames :
         \A j \in BuiltInNames[n] + 2..3 : BuiltIns[j].name # n
  BY BuiltInsOK
<1>5. Resolves(BuiltIns, BuiltInNames)
  BY <1>1, <1>3, <1>4 DEF Resolves
<1> QED
  BY <1>1, <1>2, <1>5, BuiltInsOK DEF TableOK

\* What is registered becomes the meaning of its name, and of no other.
LEMMA RegisterOK ==
    ASSUME NEW list, NEW table, TableOK(list, table), NEW f, FormatOK(f),
           register_format(list, table, f)[1]
    PROVE  TableOK(register_format(list, table, f)[2], register_format(list, table, f)[3])
<1> DEFINE n == Len(list)
           longer == Append(list, f)
           newTable == NameMeans(table, f.name, n)
<1>1. register_format(list, table, f)[2] = longer /\ register_format(list, table, f)[3] = newTable
  BY DEF register_format
<1>2. n \in Nat /\ DOMAIN list = 1..n /\ list \in Seq(Range(list))
  BY LenProperties DEF TableOK
<1>3. /\ Len(longer) = n + 1 /\ DOMAIN longer = 1..(n + 1)
      /\ longer[n + 1] = f /\ \A j \in 1..n : longer[j] = list[j]
      /\ longer \in Seq(Range(longer))
  <2> DEFINE S == Range(list) \union {f}
  <2>1. list \in Seq(S) /\ f \in S
    BY <1>2, SeqMonotonic
  <2>2. /\ longer \in Seq(S) /\ Len(longer) = n + 1 /\ longer[n + 1] = f
        /\ \A j \in 1..n : longer[j] = list[j]
    BY <1>2, <2>1, AppendProperties
  <2> HIDE DEF longer
  <2>3. DOMAIN longer = 1..(n + 1)
    BY <2>2, LenProperties
  <2>4. \A j \in 1..(n + 1) : longer[j] \in Range(longer)
    BY <2>3 DEF Range
  <2>5. longer \in Seq(Range(longer))
    <3>1. longer = [j \in 1..(n + 1) |-> longer[j]]
      BY <2>2, <2>3, LenProperties
    <3>2. longer \in [1..(n + 1) -> Range(longer)]
      BY <2>4, <3>1
    <3> QED
      BY <1>2, <3>2
  <2> QED
    BY <2>2, <2>3, <2>5
<1>4. /\ DOMAIN newTable = DOMAIN table \union {f.name} /\ newTable[f.name] = n
      /\ \A k \in DOMAIN table \ {f.name} : newTable[k] = table[k]
  BY DEF NameMeans
<1> HIDE DEF n, longer, newTable
<1>5. \A k \in DOMAIN table : table[k] \in 0..(n - 1)
  BY DEF TableOK, n
<1>6. \A k \in DOMAIN newTable : newTable[k] \in 0..n
  BY <1>2, <1>4, <1>5
<1>7. ASSUME NEW k \in DOMAIN newTable
      PROVE  /\ longer[newTable[k] + 1].name = k
             /\ \A j \in newTable[k] + 2..n + 1 : longer[j].name # k
  <2>1. CASE k = f.name
    BY <1>2, <1>3, <1>4, <2>1
  <2>2. CASE k # f.name
    <3>1. k \in DOMAIN table /\ newTable[k] = table[k] /\ table[k] \in 0..(n - 1)
      BY <1>4, <1>5, <2>2
    <3>2. list[table[k] + 1].name = k /\ \A j \in table[k] + 2..n : list[j].name # k
      BY <3>1 DEF TableOK, Resolves, n
    <3>3. table[k] + 1 \in 1..n
      BY <1>2, <3>1
    <3>4. \A j \in table[k] + 2..n + 1 : j = n + 1 \/ (j \in table[k] + 2..n /\ j \in 1..n)
      BY <1>2, <3>1
    <3> QED
      BY <1>3, <2>2, <3>1, <3>2, <3>3, <3>4
  <2> QED
    BY <2>1, <2>2
<1>8. Resolves(longer, newTable)
  BY <1>3, <1>7 DEF Resolves
<1>9. \A j \in DOMAIN longer : FormatOK(longer[j])
  BY <1>2, <1>3 DEF TableOK
<1>10. TableOK(longer, newTable)
  <2>1. (n + 1) - 1 = n
    BY <1>2
  <2> QED
    BY <1>3, <1>4, <1>6, <1>8, <1>9, <2>1 DEF TableOK
<1> QED
  BY <1>1, <1>10

LEMMA MkFormatOK ==
    ASSUME NEW name
    PROVE  RawOK(MkFormat(name))
<1>1. DOMAIN << >> = {}
  OBVIOUS
<1>2. DOMAIN MkFormat(name).nodes = {}
  BY <1>1 DEF MkFormat
<1> QED
  BY <1>2, FS_EmptySet DEF MkFormat, RawOK, FormatFields, Tops

LEMMA NamedFormatOK ==
    ASSUME ConfigOK, NEW n \in DOMAIN names
    PROVE  FormatOK(get_format_by_name(n))
<1>1. names[n] + 1 \in 1..Len(formats) /\ DOMAIN formats = 1..Len(formats)
  BY LenProperties DEF ConfigOK, TableOK
<1> QED
  BY <1>1 DEF ConfigOK, TableOK, get_format_by_name

LEMMA ConfigInit == Init => ConfigOK
<1> SUFFICES ASSUME Init PROVE ConfigOK
  OBVIOUS
<1>1. TableOK(formats, names)
  BY BuiltInTable DEF Init
<1>2. ReadingOK
  <2>1. 0 \in 0..MaxLines /\ 1 \in 1..MaxServers
    BY FormatsAssumption
  <2>2. RawOK(fmt) /\ spill \in Seq(Tokens)
    BY MkFormatOK, EmptySeq DEF Init, NoFormat
  <2> QED
    BY <2>1, <2>2 DEF Init, ReadingOK, Phases
<1> QED
  BY <1>1, <1>2 DEF Init, ConfigOK, EndpointOK

\* A step that leaves the configuration alone, whatever it serves.
LEMMA ConfigSame ==
    ASSUME ConfigOK, UNCHANGED config,
           phase' = phase \/ (phase = "serving" /\ phase' = "died")
    PROVE  ConfigOK'
<1>1. TableOK(formats, names)'
  BY DEF ConfigOK, config
<1>2. EndpointOK' /\ ReadingOK'
  BY DEF ConfigOK, EndpointOK, ReadingOK, config, Phases
<1> QED
  BY <1>1, <1>2 DEF ConfigOK

LEMMA ConfigNext == ConfigOK /\ [Next]_vars => ConfigOK'
<1> SUFFICES ASSUME ConfigOK, [Next]_vars PROVE ConfigOK'
  OBVIOUS
<1>1. TableOK(formats, names) /\ EndpointOK /\ ReadingOK
  BY DEF ConfigOK
<1>2. CASE init_srv
  <2>1. TableOK(formats', names')
    BY <1>2, BuiltInTable DEF init_srv
  <2>2. servers' \in 1..MaxServers
    BY <1>1, <1>2, FormatsAssumption DEF init_srv, ReadingOK
  <2> QED
    BY <1>1, <1>2, <2>1, <2>2 DEF init_srv, ConfigOK, EndpointOK, ReadingOK
<1>3. CASE init_dir
  <2>1. FormatOK(endpoint')
    BY <1>1, <1>3, NamedFormatOK DEF init_dir, TableOK
  <2>2. TableOK(formats', names')
    BY <1>1, <1>3 DEF init_dir
  <2> QED
    BY <1>1, <1>3, <2>1, <2>2 DEF init_dir, ConfigOK, EndpointOK, ReadingOK
<1>4. CASE result_format
  <2>1. PICK name \in FormatNames \union {"raw", "XML"} :
           /\ phase = "config" /\ endpoint # NoFormat
           /\ IF name \in DOMAIN names
              THEN endpoint' = get_format_by_name(name) /\ phase' = phase
              ELSE endpoint' = NoFormat /\ phase' = "stopped"
           /\ UNCHANGED <<formats, names, spill, fmt, lines, servers, req>>
    BY <1>4 DEF result_format
  <2>2. FormatOK(endpoint') \/ endpoint' = NoFormat
    BY <2>1, NamedFormatOK
  <2>3. phase' \in {"config", "stopped"}
    BY <2>1
  <2>4. TableOK(formats', names')
    BY <1>1, <2>1
  <2> QED
    BY <1>1, <2>1, <2>2, <2>3, <2>4 DEF ConfigOK, EndpointOK, ReadingOK, NoFormat, Phases
<1>5. CASE openContainer
  <2>1. PICK name : fmt' = MkFormat(name)
    BY <1>5 DEF openContainer
  <2>2. RawOK(fmt')
    BY <2>1, MkFormatOK
  <2>3. TableOK(formats', names')
    BY <1>1, <1>5 DEF openContainer
  <2> QED
    BY <1>1, <1>5, <2>2, <2>3 DEF openContainer, ConfigOK, EndpointOK, ReadingOK, Phases
<1>6. CASE readLine
  <2>1. PICK line \in Lines : fmt' = AddLine(fmt, line)
    BY <1>6 DEF readLine
  <2>2. LineOK(line)
    BY FormatsAssumption DEF LineOK
  <2>3. RawOK(fmt')
    BY <1>1, <2>1, <2>2, AddLineOK DEF ReadingOK
  <2>4. TableOK(formats', names')
    BY <1>1, <1>6 DEF readLine
  <2>5. lines' \in 0..MaxLines
    BY <1>1, <1>6, FormatsAssumption DEF readLine, ReadingOK
  <2> QED
    BY <1>1, <1>6, <2>3, <2>4, <2>5 DEF readLine, ConfigOK, EndpointOK, ReadingOK, Phases
<1>7. CASE closeContainer
  <2> DEFINE results == Results(fmt, spill)
             compiled == /\ fmt.top # "null"
                         /\ \A n \in DOMAIN results : results[n].ok
             f == WithParts(fmt, results)
             outcome == register_format(formats, names, f)
  <2>1. /\ phase = "container" /\ fmt' = NoFormat /\ UNCHANGED <<lines, endpoint, servers, req>>
        /\ IF compiled /\ outcome[1]
           THEN /\ formats' = outcome[2] /\ names' = outcome[3]
                /\ spill' \in Spills(results, spill)
                /\ phase' = "config"
           ELSE phase' = "stopped" /\ UNCHANGED <<formats, names, spill>>
    BY <1>7 DEF closeContainer
  <2>2. RawOK(fmt')
    BY <2>1, MkFormatOK DEF NoFormat
  <2>3. CASE compiled /\ outcome[1]
    <3>1. DOMAIN results = DOMAIN fmt.nodes
      BY DEF Results
    <3>2. FormatOK(f) /\ Spills(results, spill) \subseteq Seq(Tokens)
      BY <1>1, <2>3, <3>1, CompiledFormat DEF ReadingOK
    <3> HIDE DEF results, f, outcome
    <3>3. spill' \in Seq(Tokens)
      BY <2>1, <2>3, <3>2
    <3>4. TableOK(formats', names')
      BY <1>1, <2>1, <2>3, <3>2, RegisterOK DEF outcome
    <3> QED
      BY <1>1, <2>1, <2>2, <2>3, <3>3, <3>4 DEF ConfigOK, EndpointOK, ReadingOK, Phases
  <2>4. CASE ~(compiled /\ outcome[1])
    <3> HIDE DEF compiled, outcome, results
    <3>1. TableOK(formats', names')
      BY <1>1, <2>1, <2>4
    <3> QED
      BY <1>1, <2>1, <2>2, <2>4, <3>1 DEF ConfigOK, EndpointOK, ReadingOK, Phases
  <2> QED
    BY <2>3, <2>4
<1>8. CASE startServing
  <2>1. TableOK(formats', names')
    BY <1>1, <1>8 DEF startServing, config
  <2> QED
    BY <1>1, <1>8, <2>1 DEF startServing, config, ConfigOK, EndpointOK, ReadingOK, Phases
<1>9. ASSUME NEW q, phase = "serving", Step(q) PROVE ConfigOK'
  BY <1>9, ConfigSame DEF Step
<1>10. CASE build_results
  <2>1. phase = "serving"
    BY <1>10 DEF build_results
  <2>2. \E q : Step(q)
    BY <1>10 DEF build_results
  <2> QED
    BY <1>9, <2>1, <2>2
<1>11. CASE \/ mainCore \/ mainEnd \/ singleCore \/ singleEnd \/ fetchRow
            \/ cachedRow \/ cacheEmpty \/ scanEnd \/ scanFails
  <2>1. phase = "serving"
    BY <1>11 DEF mainCore, mainEnd, singleCore, singleEnd, fetchRow, cachedRow, cacheEmpty,
                 scanEnd, scanFails, Running
  <2>2. mainCore \/ mainEnd \/ singleCore \/ singleEnd => \E q : Step(q)
    BY DEF mainCore, mainEnd, singleCore, singleEnd
  <2>3. fetchRow \/ cachedRow \/ cacheEmpty => \E q : Step(q)
    BY DEF fetchRow, cachedRow, cacheEmpty
  <2>4. scanEnd \/ scanFails => \E q : Step(q)
    BY DEF scanEnd, scanFails
  <2> QED
    BY <1>9, <1>11, <2>1, <2>2, <2>3, <2>4
<1>12. CASE sendPage \/ UNCHANGED vars
  BY <1>12, ConfigSame DEF sendPage, vars
<1> QED
  BY <1>2, <1>3, <1>4, <1>5, <1>6, <1>7, <1>8, <1>10, <1>11, <1>12 DEF Next

-----------------------------------------------------------------------------
(* What httpd.conf says is kept                                              *)

LEMMA ConfigAlways == Spec => []ConfigOK
<1>1. Init => ConfigOK
  BY ConfigInit
<1>2. ConfigOK /\ [Next]_vars => ConfigOK'
  BY ConfigNext
<1> QED
  BY <1>1, <1>2, PTL DEF Spec

\* The name of a format always means the last one registered under it
\* (register_format(), get_format_by_name()).
THEOREM NamesAreResolved == Spec => []NamesResolve
<1>1. ConfigOK => NamesResolve
  BY DEF ConfigOK, TableOK, Resolves, NamesResolve, get_format_by_name
<1> QED
  BY <1>1, ConfigAlways, PTL

\* A format that can be served was compiled from a complete container
\* (output_format::compile(), MainLoop::compile(), Loop::compile()).
THEOREM ServedFormatsAreClosed == Spec => []FormatsAreClosed
<1>1. ConfigOK => FormatsAreClosed
  <2> SUFFICES ASSUME ConfigOK, NEW f \in Range(formats) \union ({endpoint} \ {NoFormat})
               PROVE  /\ ~f.raw => f.top # "null" /\ "_main" \in DOMAIN f.nodes
                      /\ \A n \in DOMAIN f.nodes :
                            f.nodes[n].core \in {None} \union DOMAIN f.nodes
                      /\ \A n \in DOMAIN f.nodes :
                            f.nodes[n].type = "Format" /\ f.nodes[n].core # None
                              => f.nodes[f.nodes[n].core].type \in {"Scan", "Row"}
    BY DEF FormatsAreClosed
  <2>1. FormatOK(f)
    BY DEF ConfigOK, TableOK, EndpointOK, Range
  <2> QED
    BY <2>1 DEF FormatOK, NodeOK
<1> QED
  BY <1>1, ConfigAlways, PTL

\* Nothing that is written in a text of the language gets lost in the parser
\* (Parser::get_cell_chain(), the compile() of each class).
THEOREM ParserKeepsTexts == Spec => []TextsAreKept
<1>1. ConfigOK => TextsAreKept
  <2> SUFFICES ASSUME ConfigOK, NEW f \in Range(formats), NEW n \in DOMAIN f.nodes
               PROVE  Kept(f.nodes[n])
    BY DEF TextsAreKept, Kept
  <2>1. FormatOK(f)
    BY DEF ConfigOK, TableOK, Range
  <2> QED
    BY <2>1 DEF FormatOK, NodeOK
<1> QED
  BY <1>1, ConfigAlways, PTL

-----------------------------------------------------------------------------
(* The operation whose page is being built                                   *)

ReqFields == {"state", "scan", "rows", "left", "cached", "row", "failed",
              "stack", "page", "result"}

\* the loops that may be on the stack, of a table of nodes
Frames(nodes) == [node : DOMAIN nodes, nrows : Nat, begun : BOOLEAN, more : BOOLEAN]

\* the counters of an operation, on which the loops must agree
Counted(q) ==
    /\ DOMAIN q = ReqFields
    /\ q.rows \in Nat /\ q.left \in Nat /\ q.cached \in 0..q.left /\ q.row \in Nat
    /\ q.row + q.left <= q.rows
    /\ q.result \in {200, 404, 500}

RunOK(q, nodes) == Counted(q) /\ q.stack \in Seq(Frames(nodes))

ReqOK ==
    \/ req = NoRequest
    \/ /\ phase \in {"serving", "died"}
       /\ RunOK(req, endpoint.nodes)
       /\ req.state \in {"run", "done"}
       /\ req.state = "run" => req.stack # << >>

LEMMA WriteIs ==
    ASSUME NEW q, DOMAIN q = ReqFields, NEW pieces
    PROVE  LET w == Write(q, pieces)
           IN /\ DOMAIN w = ReqFields /\ w.page = q.page \o pieces
              /\ w.state = q.state /\ w.scan = q.scan /\ w.rows = q.rows /\ w.left = q.left
              /\ w.cached = q.cached /\ w.row = q.row /\ w.failed = q.failed
              /\ w.stack = q.stack /\ w.result = q.result
  BY DEF Write, ReqFields

LEMMA SetTopIs ==
    ASSUME NEW q, DOMAIN q = ReqFields, NEW frame
    PROVE  LET w == SetTop(q, frame)
           IN /\ DOMAIN w = ReqFields
              /\ w.stack = [q.stack EXCEPT ![Len(q.stack)] = frame]
              /\ w.state = q.state /\ w.scan = q.scan /\ w.rows = q.rows /\ w.left = q.left
              /\ w.cached = q.cached /\ w.row = q.row /\ w.failed = q.failed
              /\ w.page = q.page /\ w.result = q.result
  BY DEF SetTop, ReqFields

LEMMA ReturnIs ==
    ASSUME NEW q, DOMAIN q = ReqFields
    PROVE  LET w == Return(q)
           IN /\ DOMAIN w = ReqFields /\ w.stack = Front(q.stack)
              /\ w.state = q.state /\ w.scan = q.scan /\ w.rows = q.rows /\ w.left = q.left
              /\ w.cached = q.cached /\ w.row = q.row /\ w.failed = q.failed
              /\ w.page = q.page /\ w.result = q.result
  BY DEF Return, ReqFields

\* the state of the operation is the step's, and the rest of it is kept
LEMMA StepIs ==
    ASSUME NEW q, DOMAIN q = ReqFields, Step(q)
    PROVE  LET dead == \/ Trap \in Range(q.page)
                       \/ Len(q.stack) > Cardinality(DOMAIN endpoint.nodes) + MaxRows
           IN /\ DOMAIN req' = ReqFields /\ req'.stack = q.stack /\ req'.page = q.page
              /\ req'.scan = q.scan /\ req'.rows = q.rows /\ req'.left = q.left
              /\ req'.cached = q.cached /\ req'.row = q.row /\ req'.failed = q.failed
              /\ req'.result = q.result
              /\ req'.state = IF dead \/ q.stack = << >> THEN "done" ELSE "run"
              /\ phase' = IF dead THEN "died" ELSE phase
              /\ UNCHANGED config
  BY DEF Step, ReqFields

\* What running a node as the core of another does to the operation.
LEMMA CallIs ==
    ASSUME NEW q, DOMAIN q = ReqFields, FormatOK(endpoint),
           NEW n \in DOMAIN endpoint.nodes, n # None
    PROVE  LET node == endpoint.nodes[n]
               c == Call(q, n)
           IN /\ DOMAIN c = ReqFields
              /\ c.state = q.state /\ c.scan = q.scan /\ c.rows = q.rows /\ c.left = q.left
              /\ c.cached = q.cached /\ c.row = q.row /\ c.failed = q.failed
              /\ c.result = IF node.type = "Row" THEN 200 ELSE q.result
              /\ c.stack = IF node.type \in {"Scan", "Format"} THEN Append(q.stack, Frame(n))
                                                               ELSE q.stack
              /\ node.type = "Row" => c.page = q.page \o RowLoopRun(endpoint, node, q.row)
              /\ node.type = "Scan" => c.page = q.page
              /\ node.type = "Format" => c.page = q.page \o Each(Literal, node.begin.cells)
<1> DEFINE node == endpoint.nodes[n]
           rowPage == RowLoopRun(endpoint, node, q.row)
           beginPage == Each(Literal, node.begin.cells)
<1>1. node.type \in Classes
  BY DEF FormatOK, NodeOK
<1>2. Call(q, n) =
         CASE node.type = "Row" -> [Write(q, rowPage) EXCEPT !.result = 200]
           [] node.type = "Record" -> Write(q, <<Trap>>)
           [] node.type = "Format" -> [Write(q, beginPage) EXCEPT !.stack = Append(@, Frame(n))]
           [] node.type = "Scan" -> [q EXCEPT !.stack = Append(@, Frame(n))]
  BY DEF Call
<1> HIDE DEF rowPage, beginPage
<1>3. CASE node.type = "Row"
  <2> DEFINE w == Write(q, rowPage)
  <2>1. Call(q, n) = [w EXCEPT !.result = 200]
    BY <1>2, <1>3
  <2>2. /\ DOMAIN w = ReqFields /\ w.page = q.page \o rowPage
        /\ w.state = q.state /\ w.scan = q.scan /\ w.rows = q.rows /\ w.left = q.left
        /\ w.cached = q.cached /\ w.row = q.row /\ w.failed = q.failed
        /\ w.stack = q.stack /\ w.result = q.result
    BY WriteIs
  <2> HIDE DEF w
  <2> QED
    BY <1>3, <2>1, <2>2 DEF ReqFields, rowPage
<1>4. CASE node.type = "Record"
  <2> DEFINE w == Write(q, <<Trap>>)
  <2>1. Call(q, n) = w
    BY <1>2, <1>4
  <2>2. /\ DOMAIN w = ReqFields /\ w.page = q.page \o <<Trap>>
        /\ w.state = q.state /\ w.scan = q.scan /\ w.rows = q.rows /\ w.left = q.left
        /\ w.cached = q.cached /\ w.row = q.row /\ w.failed = q.failed
        /\ w.stack = q.stack /\ w.result = q.result
    BY WriteIs
  <2> HIDE DEF w
  <2> QED
    BY <1>4, <2>1, <2>2
<1>5. CASE node.type = "Format"
  <2> DEFINE w == Write(q, beginPage)
  <2>1. Call(q, n) = [w EXCEPT !.stack = Append(w.stack, Frame(n))]
    BY <1>2, <1>5
  <2>2. /\ DOMAIN w = ReqFields /\ w.page = q.page \o beginPage
        /\ w.state = q.state /\ w.scan = q.scan /\ w.rows = q.rows /\ w.left = q.left
        /\ w.cached = q.cached /\ w.row = q.row /\ w.failed = q.failed
        /\ w.stack = q.stack /\ w.result = q.result
    BY WriteIs
  <2> HIDE DEF w
  <2> QED
    BY <1>5, <2>1, <2>2 DEF ReqFields, beginPage
<1>6. CASE node.type = "Scan"
  <2>1. Call(q, n) = [q EXCEPT !.stack = Append(q.stack, Frame(n))]
    BY <1>2, <1>6
  <2> QED
    BY <1>6, <2>1 DEF ReqFields
<1> QED
  BY <1>1, <1>3, <1>4, <1>5, <1>6 DEF Classes

LEMMA CallNone ==
    ASSUME NEW q PROVE Call(q, None) = q
  BY DEF Call

LEMMA FrontIs ==
    ASSUME NEW S, NEW s \in Seq(S), s # << >>
    PROVE  Front(s) \in Seq(S) /\ Front(s) = SubSeq(s, 1, Len(s) - 1) /\ Len(Front(s)) = Len(s) - 1
<1>1. Len(s) \in Nat \ {0}
  BY EmptySeq
<1>2. Front(s) = SubSeq(s, 1, Len(s) - 1)
  BY DEF Front
<1>3. SubSeq(s, 1, Len(s) - 1) \in Seq(S)
  BY <1>1, PartIsSeq
<1>4. \A i \in 1..(Len(s) - 1) : s[i] \in S
  BY <1>1, ElementOfSeq
<1>5. Len(SubSeq(s, 1, Len(s) - 1)) = IF 1 <= Len(s) - 1 THEN (Len(s) - 1) - 1 + 1 ELSE 0
  BY <1>1, <1>4, SubSeqProperties
<1>6. Len(SubSeq(s, 1, Len(s) - 1)) = Len(s) - 1
  <2>1. CASE Len(s) = 1
    BY <1>5, <2>1
  <2>2. CASE Len(s) # 1
    <3> DEFINE k == Len(s)
    <3>1. k \in Nat /\ k # 0 /\ k # 1
      BY <1>1, <2>2
    <3> HIDE DEF k
    <3>2. 1 <= k - 1 /\ (k - 1) - 1 + 1 = k - 1
      BY <3>1
    <3> USE DEF k
    <3> QED
      BY <1>5, <3>2
  <2> QED
    BY <2>1, <2>2
<1> QED
  BY <1>2, <1>3, <1>6

LEMMA CallOK ==
    ASSUME FormatOK(endpoint), NEW q, RunOK(q, endpoint.nodes),
           NEW n \in {None} \union DOMAIN endpoint.nodes
    PROVE  RunOK(Call(q, n), endpoint.nodes)
<1>1. CASE n = None
  BY <1>1, CallNone
<1>2. CASE n # None
  <2> DEFINE c == Call(q, n)
  <2>1. /\ DOMAIN c = ReqFields /\ c.rows = q.rows /\ c.left = q.left /\ c.cached = q.cached
        /\ c.row = q.row /\ c.result \in {200, q.result}
        /\ c.stack = q.stack \/ c.stack = Append(q.stack, Frame(n))
    <3>1. DOMAIN q = ReqFields /\ n \in DOMAIN endpoint.nodes
      BY <1>2 DEF RunOK, Counted
    <3>2. /\ DOMAIN c = ReqFields
          /\ c.state = q.state /\ c.scan = q.scan /\ c.rows = q.rows /\ c.left = q.left
          /\ c.cached = q.cached /\ c.row = q.row /\ c.failed = q.failed
          /\ c.result = IF endpoint.nodes[n].type = "Row" THEN 200 ELSE q.result
          /\ c.stack = IF endpoint.nodes[n].type \in {"Scan", "Format"}
                       THEN Append(q.stack, Frame(n)) ELSE q.stack
      BY <1>2, <3>1, CallIs
    <3> HIDE DEF c
    <3> QED
      BY <3>2
  <2>2. Frame(n) \in Frames(endpoint.nodes)
    BY <1>2 DEF Frame, Frames
  <2>3. c.stack \in Seq(Frames(endpoint.nodes))
    BY <2>1, <2>2, AppendProperties DEF RunOK
  <2> HIDE DEF c
  <2> QED
    BY <2>1, <2>3 DEF RunOK, Counted, c
<1> QED
  BY <1>1, <1>2

LEMMA WriteOK ==
    ASSUME NEW q, NEW nodes, RunOK(q, nodes), NEW pieces
    PROVE  RunOK(Write(q, pieces), nodes)
<1> DEFINE w == Write(q, pieces)
<1>0. DOMAIN q = ReqFields
  BY DEF RunOK, Counted
<1>1. /\ DOMAIN w = ReqFields /\ w.rows = q.rows /\ w.left = q.left /\ w.cached = q.cached
      /\ w.row = q.row /\ w.result = q.result /\ w.stack = q.stack
  BY <1>0, WriteIs
<1> HIDE DEF w
<1> QED
  BY <1>1 DEF RunOK, Counted, w

LEMMA SetTopOK ==
    ASSUME NEW q, NEW nodes, RunOK(q, nodes), q.stack # << >>, NEW frame \in Frames(nodes)
    PROVE  /\ RunOK(SetTop(q, frame), nodes)
           /\ Len(SetTop(q, frame).stack) = Len(q.stack)
           /\ SetTop(q, frame).stack # << >>
<1> DEFINE w == SetTop(q, frame)
<1>1. /\ DOMAIN w = ReqFields /\ w.rows = q.rows /\ w.left = q.left /\ w.cached = q.cached
      /\ w.row = q.row /\ w.result = q.result
      /\ w.stack = [q.stack EXCEPT ![Len(q.stack)] = frame]
  BY SetTopIs DEF RunOK, Counted
<1>2. q.stack \in Seq(Frames(nodes)) /\ Len(q.stack) \in Nat \ {0}
  BY EmptySeq DEF RunOK
<1>3. w.stack \in Seq(Frames(nodes)) /\ Len(w.stack) = Len(q.stack)
  BY <1>1, <1>2, ExceptSeq
<1>4. w.stack # << >>
  BY <1>2, <1>3, EmptySeq
<1> HIDE DEF w
<1> QED
  BY <1>1, <1>3, <1>4 DEF RunOK, Counted, w

LEMMA ReturnOK ==
    ASSUME NEW q, NEW nodes, RunOK(q, nodes), q.stack # << >>
    PROVE  RunOK(Return(q), nodes)
<1> DEFINE w == Return(q)
<1>1. /\ DOMAIN w = ReqFields /\ w.rows = q.rows /\ w.left = q.left /\ w.cached = q.cached
      /\ w.row = q.row /\ w.result = q.result /\ w.stack = Front(q.stack)
  BY ReturnIs DEF RunOK, Counted
<1>2. w.stack \in Seq(Frames(nodes))
  BY <1>1, FrontIs DEF RunOK
<1> HIDE DEF w
<1> QED
  BY <1>1, <1>2 DEF RunOK, Counted, w

LEMMA StepOK ==
    ASSUME phase = "serving", NEW q, RunOK(q, endpoint.nodes), Step(q)
    PROVE  ReqOK'
<1>1. DOMAIN q = ReqFields
  BY DEF RunOK, Counted
<1> DEFINE dead == \/ Trap \in Range(q.page)
                   \/ Len(q.stack) > Cardinality(DOMAIN endpoint.nodes) + MaxRows
<1>2. /\ DOMAIN req' = ReqFields /\ req'.stack = q.stack
      /\ req'.rows = q.rows /\ req'.left = q.left
      /\ req'.cached = q.cached /\ req'.row = q.row /\ req'.result = q.result
      /\ req'.state = IF dead \/ q.stack = << >> THEN "done" ELSE "run"
      /\ phase' = IF dead THEN "died" ELSE phase
      /\ endpoint' = endpoint
  BY <1>1, StepIs DEF config
<1> HIDE DEF dead
<1>3. RunOK(req', endpoint'.nodes)
  BY <1>2 DEF RunOK, Counted
<1> QED
  BY <1>2, <1>3 DEF ReqOK

\* the loop that runs
LEMMA TopIs ==
    ASSUME RunOK(req, endpoint.nodes), req.stack # << >>, FormatOK(endpoint)
    PROVE  /\ Top \in Frames(endpoint.nodes) /\ Top.node \in DOMAIN endpoint.nodes
           /\ TopNode = endpoint.nodes[Top.node]
           /\ TopNode.core \in {None} \union DOMAIN endpoint.nodes
           /\ Top = req.stack[Len(req.stack)] /\ Len(req.stack) \in Nat \ {0}
<1>1. Len(req.stack) \in Nat \ {0}
  BY EmptySeq DEF RunOK
<1>2. Top \in Frames(endpoint.nodes)
  BY <1>1, ElementOfSeq DEF RunOK, Top
<1>3. Top.node \in DOMAIN endpoint.nodes
  BY <1>2 DEF Frames
<1>4. TopNode.core \in {None} \union DOMAIN endpoint.nodes
  BY <1>3 DEF TopNode, FormatOK, NodeOK
<1> QED
  BY <1>1, <1>2, <1>3, <1>4 DEF Top, TopNode

\* The body of a scan's loops is run for a row that there is.
LEMMA BodyIs ==
    ASSUME NEW q, DOMAIN q = ReqFields
    PROVE  LET frame == [Top EXCEPT !.nrows = Top.nrows + 1, !.more = TRUE]
               text == IF Top.nrows # 0 THEN Each(Literal, TopNode.sep)
                                        ELSE Each(Literal, Chain(TopNode.begin))
           IN \E next : /\ DOMAIN next = ReqFields
                        /\ next.row = q.row + 1 /\ next.left = q.left - 1
                        /\ next.state = q.state /\ next.scan = q.scan /\ next.rows = q.rows
                        /\ next.cached = q.cached /\ next.failed = q.failed
                        /\ next.stack = q.stack /\ next.page = q.page
                        /\ next.result = q.result
                        /\ scanBody(q) = Call(Write(SetTop(next, frame), text), TopNode.core)
<1> DEFINE next == [q EXCEPT !.row = q.row + 1, !.left = q.left - 1]
           frame == [Top EXCEPT !.nrows = Top.nrows + 1, !.more = TRUE]
           text == IF Top.nrows # 0 THEN Each(Literal, TopNode.sep)
                                    ELSE Each(Literal, Chain(TopNode.begin))
<1>1. scanBody(q) = Call(Write(SetTop(next, frame), text), TopNode.core)
  BY DEF scanBody
<1>2. /\ DOMAIN next = ReqFields
      /\ next.row = q.row + 1 /\ next.left = q.left - 1
      /\ next.state = q.state /\ next.scan = q.scan /\ next.rows = q.rows
      /\ next.cached = q.cached /\ next.failed = q.failed
      /\ next.stack = q.stack /\ next.page = q.page /\ next.result = q.result
  BY DEF ReqFields
<1> HIDE DEF next, frame, text
<1>3. \E m : /\ DOMAIN m = ReqFields
             /\ m.row = q.row + 1 /\ m.left = q.left - 1
             /\ m.state = q.state /\ m.scan = q.scan /\ m.rows = q.rows
             /\ m.cached = q.cached /\ m.failed = q.failed
             /\ m.stack = q.stack /\ m.page = q.page /\ m.result = q.result
             /\ scanBody(q) = Call(Write(SetTop(m, frame), text), TopNode.core)
  BY <1>1, <1>2
<1> QED
  BY <1>3 DEF frame, text

LEMMA BodyOK ==
    ASSUME FormatOK(endpoint), NEW q, RunOK(q, endpoint.nodes), q.left > q.cached,
           RunOK(req, endpoint.nodes), req.stack = q.stack, q.stack # << >>
    PROVE  RunOK(scanBody(q), endpoint.nodes)
<1> DEFINE frame == [Top EXCEPT !.nrows = Top.nrows + 1, !.more = TRUE]
           text == IF Top.nrows # 0 THEN Each(Literal, TopNode.sep)
                                    ELSE Each(Literal, Chain(TopNode.begin))
<1>1. PICK next : /\ DOMAIN next = ReqFields
                  /\ next.row = q.row + 1 /\ next.left = q.left - 1
                  /\ next.state = q.state /\ next.scan = q.scan /\ next.rows = q.rows
                  /\ next.cached = q.cached /\ next.failed = q.failed
                  /\ next.stack = q.stack /\ next.page = q.page /\ next.result = q.result
                  /\ scanBody(q) = Call(Write(SetTop(next, frame), text), TopNode.core)
  <2>1. DOMAIN q = ReqFields
    BY DEF RunOK, Counted
  <2> QED
    BY <2>1, BodyIs
<1>2. Counted(q) /\ q.stack \in Seq(Frames(endpoint.nodes))
  BY DEF RunOK
<1>3. RunOK(next, endpoint.nodes)
  <2>1. /\ q.rows \in Nat /\ q.left \in Nat /\ q.cached \in 0..q.left /\ q.row \in Nat
        /\ q.row + q.left <= q.rows /\ q.left > q.cached /\ q.result \in {200, 404, 500}
    BY <1>2 DEF Counted
  <2>2. /\ q.left - 1 \in Nat /\ q.cached \in 0..(q.left - 1) /\ q.row + 1 \in Nat
        /\ (q.row + 1) + (q.left - 1) <= q.rows
    BY <2>1
  <2> QED
    BY <1>1, <1>2, <2>1, <2>2 DEF RunOK, Counted
<1>4. Top \in Frames(endpoint.nodes) /\ TopNode.core \in {None} \union DOMAIN endpoint.nodes
  BY TopIs
<1>5. frame \in Frames(endpoint.nodes)
  <2>1. Top \in [node : DOMAIN endpoint.nodes, nrows : Nat, begun : BOOLEAN, more : BOOLEAN]
    BY <1>4 DEF Frames
  <2>2. Top.nrows + 1 \in Nat
    BY <2>1
  <2> QED
    BY <2>1, <2>2 DEF Frames
<1> HIDE DEF frame, text
<1>6. RunOK(SetTop(next, frame), endpoint.nodes)
  BY <1>1, <1>3, <1>5, SetTopOK
<1>7. RunOK(Write(SetTop(next, frame), text), endpoint.nodes)
  BY <1>6, WriteOK
<1> QED
  BY <1>1, <1>4, <1>7, CallOK

LEMMA OperationOK ==
    ASSUME NEW nodes, NEW isScan \in BOOLEAN, NEW rows \in 0..MaxRows, ~isScan => rows = 1
    PROVE  LET q == Operation(isScan, rows)
           IN /\ RunOK(q, nodes) /\ q.stack = << >> /\ q.page = << >> /\ q.scan = isScan
              /\ q.rows = rows /\ q.left = (IF isScan THEN rows ELSE 0) /\ q.cached = 0
              /\ q.row = (IF isScan THEN 0 ELSE 1) /\ q.failed = FALSE /\ q.result = 200
<1> DEFINE q == Operation(isScan, rows)
<1>1. /\ DOMAIN q = ReqFields /\ q.stack = << >> /\ q.page = << >> /\ q.scan = isScan
      /\ q.rows = rows /\ q.left = (IF isScan THEN rows ELSE 0) /\ q.cached = 0
      /\ q.row = (IF isScan THEN 0 ELSE 1) /\ q.failed = FALSE /\ q.result = 200
  BY DEF Operation, ReqFields
<1> HIDE DEF q
<1>2. rows \in Nat
  BY FormatsAssumption
<1>3. << >> \in Seq(Frames(nodes))
  BY EmptySeq
<1>4. q.left \in Nat /\ q.cached \in 0..q.left /\ q.row \in Nat /\ q.row + q.left <= q.rows
  <2>1. CASE isScan
    <3>1. q.left = rows /\ q.row = 0 /\ q.rows = rows /\ q.cached = 0
      BY <1>1, <2>1
    <3> QED
      BY <3>1, <1>2
  <2>2. CASE ~isScan
    <3>1. q.left = 0 /\ q.row = 1 /\ q.rows = 1 /\ q.cached = 0
      BY <1>1, <2>2
    <3> QED
      BY <3>1
  <2> QED
    BY <2>1, <2>2
<1>5. q.rows \in Nat /\ q.result \in {200, 404, 500}
  BY <1>1, <1>2
<1>6. q.stack \in Seq(Frames(nodes))
  BY <1>1, <1>3
<1>7. RunOK(q, nodes)
  BY <1>1, <1>4, <1>5, <1>6 DEF RunOK, Counted
<1> QED
  BY <1>1, <1>7 DEF q

ServingOK == ConfigOK /\ ReqOK

\* Whatever runs is a loop that may be on the stack.
LEMMA RunningIs ==
    ASSUME ServingOK, phase = "serving", req.state = "run"
    PROVE  /\ FormatOK(endpoint) /\ RunOK(req, endpoint.nodes) /\ req.stack # << >>
           /\ Top \in Frames(endpoint.nodes)
           /\ TopNode.core \in {None} \union DOMAIN endpoint.nodes
           /\ DOMAIN req = ReqFields
           /\ \A frame \in Frames(endpoint.nodes) :
                 /\ RunOK(SetTop(req, frame), endpoint.nodes)
                 /\ SetTop(req, frame).stack # << >>
<1>1. FormatOK(endpoint)
  BY DEF ServingOK, ConfigOK, EndpointOK
<1>2. RunOK(req, endpoint.nodes) /\ req.stack # << >>
  BY DEF ServingOK, ReqOK, NoRequest
<1>3. DOMAIN req = ReqFields
  BY <1>2 DEF RunOK, Counted
<1> QED
  BY <1>1, <1>2, <1>3, TopIs, SetTopOK

LEMMA ReqNext == ServingOK /\ [Next]_vars => ReqOK'
<1> SUFFICES ASSUME ServingOK, [Next]_vars PROVE ReqOK'
  OBVIOUS
<1> USE DEF ServingOK
<1>1. CASE \/ init_srv \/ init_dir \/ result_format \/ openContainer \/ readLine
           \/ closeContainer \/ startServing
  <2>1. phase \notin {"serving", "died"}
    BY <1>1 DEF init_srv, init_dir, result_format, openContainer, readLine, closeContainer,
                startServing
  <2>2. req' = req
    BY <1>1 DEF init_srv, init_dir, result_format, openContainer, readLine, closeContainer,
                startServing
  <2> QED
    BY <2>1, <2>2 DEF ReqOK
<1>2. CASE build_results
  <2>1. PICK isScan \in BOOLEAN, rows \in 0..MaxRows :
           /\ phase = "serving" /\ (~isScan => rows = 1)
           /\ LET q == Operation(isScan, rows)
              IN \/ /\ endpoint.raw
                    /\ \E blob \in BOOLEAN :
                          Step(IF blob THEN Write(q, <<Piece("value", 1, 1)>>)
                                       ELSE [q EXCEPT !.result = 500])
                 \/ ~endpoint.raw /\ endpoint.top = "uncompiled" /\ Step(q)
                 \/ ~endpoint.raw /\ endpoint.top = "_main" /\ Step(Call(q, "_main"))
    BY <1>2 DEF build_results
  <2>2. FormatOK(endpoint)
    BY <2>1 DEF ConfigOK, EndpointOK
  <2> DEFINE q == Operation(isScan, rows)
  <2>3. RunOK(q, endpoint.nodes)
    BY <2>1, OperationOK
  <2> HIDE DEF q
  <2>4. ASSUME NEW blob \in BOOLEAN
        PROVE  RunOK(IF blob THEN Write(q, <<Piece("value", 1, 1)>>)
                             ELSE [q EXCEPT !.result = 500], endpoint.nodes)
    <3>1. RunOK(Write(q, <<Piece("value", 1, 1)>>), endpoint.nodes)
      BY <2>3, WriteOK
    <3>2. RunOK([q EXCEPT !.result = 500], endpoint.nodes)
      BY <2>3 DEF RunOK, Counted, ReqFields
    <3> QED
      BY <3>1, <3>2
  <2>5. ~endpoint.raw => RunOK(Call(q, "_main"), endpoint.nodes)
    BY <2>2, <2>3, CallOK DEF FormatOK
  <2> QED
    BY <2>1, <2>3, <2>4, <2>5, StepOK DEF q
<1>3. CASE mainCore \/ singleCore
  <2> DEFINE frame == [Top EXCEPT !.begun = TRUE]
  <2>1. phase = "serving" /\ req.state = "run" /\ Step(Call(SetTop(req, frame), TopNode.core))
    BY <1>3 DEF mainCore, singleCore, Running
  <2>2. frame \in Frames(endpoint.nodes)
    BY <2>1, RunningIs DEF Frames
  <2> HIDE DEF frame
  <2>3. RunOK(Call(SetTop(req, frame), TopNode.core), endpoint.nodes)
    BY <2>1, <2>2, RunningIs, CallOK
  <2> QED
    BY <2>1, <2>3, StepOK
<1>4. CASE mainEnd
  <2>1. phase = "serving" /\ req.state = "run"
        /\ Step(Write(Return(req), Each(Literal, TopNode.end.cells)))
    BY <1>4 DEF mainEnd, Running
  <2>2. RunOK(Write(Return(req), Each(Literal, TopNode.end.cells)), endpoint.nodes)
    BY <2>1, RunningIs, ReturnOK, WriteOK
  <2> QED
    BY <2>1, <2>2, StepOK
<1>5. CASE singleEnd
  <2>1. phase = "serving" /\ req.state = "run" /\ Step(Return(req))
    BY <1>5 DEF singleEnd, Running
  <2> QED
    BY <2>1, RunningIs, ReturnOK, StepOK
<1>6. ASSUME NEW b, phase = "serving", req.state = "run",
             b \in Nat, b < req.left, Step(scanBody([req EXCEPT !.cached = b]))
      PROVE  ReqOK'
  <2> DEFINE q == [req EXCEPT !.cached = b]
  <2>1. RunOK(req, endpoint.nodes) /\ FormatOK(endpoint) /\ req.stack # << >>
    BY <1>6, RunningIs
  <2>2. /\ DOMAIN q = ReqFields /\ q.rows = req.rows /\ q.left = req.left /\ q.cached = b
        /\ q.row = req.row /\ q.result = req.result /\ q.stack = req.stack
    BY <2>1 DEF RunOK, Counted, ReqFields
  <2> HIDE DEF q
  <2>3. RunOK(q, endpoint.nodes) /\ q.left > q.cached
    BY <1>6, <2>1, <2>2 DEF RunOK, Counted
  <2>4. RunOK(scanBody(q), endpoint.nodes)
    BY <2>1, <2>2, <2>3, BodyOK
  <2> QED
    BY <1>6, <2>4, StepOK DEF q
<1>7. CASE fetchRow
  <2>1. phase = "serving" /\ req.state = "run" /\ req.left > 0
        /\ IF req.cached > 0
           THEN Step(scanBody([req EXCEPT !.cached = req.cached - 1]))
           ELSE \E batch \in 1..req.left : Step(scanBody([req EXCEPT !.cached = batch - 1]))
    BY <1>7 DEF fetchRow, Running
  <2>2. req.left \in Nat /\ req.cached \in 0..req.left
    BY <2>1, RunningIs DEF RunOK, Counted
  <2>3. CASE req.cached > 0
    <3>1. req.cached - 1 \in Nat /\ req.cached - 1 < req.left
      BY <2>2, <2>3
    <3> QED
      BY <1>6, <2>1, <2>3, <3>1
  <2>4. CASE ~(req.cached > 0)
    <3>1. PICK batch \in 1..req.left : Step(scanBody([req EXCEPT !.cached = batch - 1]))
      BY <2>1, <2>4
    <3>2. batch - 1 \in Nat /\ batch - 1 < req.left
      BY <2>2
    <3> QED
      BY <1>6, <2>1, <3>1, <3>2
  <2> QED
    BY <2>3, <2>4
<1>8. CASE cachedRow
  <2>1. phase = "serving" /\ req.state = "run" /\ req.cached > 0
        /\ Step(scanBody([req EXCEPT !.cached = req.cached - 1]))
    BY <1>8 DEF cachedRow, Running
  <2>2. req.left \in Nat /\ req.cached \in 0..req.left
    BY <2>1, RunningIs DEF RunOK, Counted
  <2>3. req.cached - 1 \in Nat /\ req.cached - 1 < req.left
    BY <2>1, <2>2
  <2> QED
    BY <1>6, <2>1, <2>3
<1>9. CASE cacheEmpty
  <2> DEFINE frame == [Top EXCEPT !.more = FALSE]
  <2>1. phase = "serving" /\ req.state = "run" /\ Step(SetTop(req, frame))
    BY <1>9 DEF cacheEmpty, Running
  <2>2. frame \in Frames(endpoint.nodes)
    BY <2>1, RunningIs DEF Frames
  <2> HIDE DEF frame
  <2> QED
    BY <2>1, <2>2, RunningIs, StepOK
<1>10. ASSUME NEW q, phase = "serving", req.state = "run", RunOK(q, endpoint.nodes),
              q.stack = req.stack, Step(scanReturn(q))
       PROVE  ReqOK'
  <2> DEFINE text == IF Top.nrows = 0 THEN << >> ELSE Each(Literal, Chain(TopNode.end))
             result == IF Top.nrows = 0 THEN 404 ELSE 200
             w == Write(Return(q), text)
  <2>1. scanReturn(q) = [w EXCEPT !.result = result]
    BY DEF scanReturn
  <2>2. RunOK(w, endpoint.nodes)
    BY <1>10, RunningIs, ReturnOK, WriteOK
  <2>3. result \in {200, 404}
    OBVIOUS
  <2> HIDE DEF w, result
  <2>4. RunOK([w EXCEPT !.result = result], endpoint.nodes)
    BY <2>2, <2>3 DEF RunOK, Counted, ReqFields
  <2> QED
    BY <1>10, <2>1, <2>4, StepOK
<1>11. CASE scanEnd
  BY <1>10, <1>11, RunningIs DEF scanEnd, Running
<1>12. CASE scanFails
  <2> DEFINE q == [req EXCEPT !.left = 0, !.failed = TRUE]
  <2>1. phase = "serving" /\ req.state = "run" /\ req.cached = 0 /\ Step(scanReturn(q))
    BY <1>12 DEF scanFails, Running
  <2>2. RunOK(req, endpoint.nodes)
    BY <2>1, RunningIs
  <2>3. /\ DOMAIN q = ReqFields /\ q.rows = req.rows /\ q.left = 0 /\ q.cached = req.cached
        /\ q.row = req.row /\ q.result = req.result /\ q.stack = req.stack
    BY <2>2 DEF RunOK, Counted, ReqFields
  <2> HIDE DEF q
  <2>4. RunOK(q, endpoint.nodes)
    BY <2>1, <2>2, <2>3 DEF RunOK, Counted
  <2> QED
    BY <1>10, <2>1, <2>3, <2>4
<1>13. CASE sendPage
  BY <1>13 DEF sendPage, ReqOK
<1>14. CASE UNCHANGED vars
  BY <1>14 DEF vars, config, ReqOK
<1> QED
  BY <1>1, <1>2, <1>3, <1>4, <1>5, <1>7, <1>8, <1>9, <1>11, <1>12, <1>13, <1>14 DEF Next

LEMMA ServingAlways == Spec => []ServingOK
<1>1. Init => ServingOK
  BY ConfigInit DEF Init, ServingOK, ReqOK
<1>2. ServingOK /\ [Next]_vars => ServingOK'
  BY ConfigNext, ReqNext DEF ServingOK
<1> QED
  BY <1>1, <1>2, PTL DEF Spec

\* Indexes stay inside the list of formats, and a scan never counts more rows
\* than the operation has (ScanLoop::Run(), NdbScanOperation::nextResult()).
THEOREM FormatTypes == Spec => []TypeOK
<1>1. ServingOK => TypeOK
  <2> SUFFICES ASSUME ServingOK PROVE TypeOK
    OBVIOUS
  <2>1. TableOK(formats, names) /\ EndpointOK /\ ReadingOK /\ ReqOK
    BY DEF ServingOK, ConfigOK
  <2>2. ASSUME NEW f \in Range(formats) \union {fmt, endpoint}
        PROVE  /\ f.raw \in BOOLEAN /\ f.override \in BOOLEAN
               /\ f.top \in {"null", "_main", "uncompiled"}
               /\ \A n \in DOMAIN f.nodes : f.nodes[n].type \in Classes
    <3>1. RawOK(f) \/ FormatOK(f)
      BY <2>1, MkFormatOK DEF TableOK, EndpointOK, ReadingOK, Range, NoFormat
    <3> QED
      BY <3>1 DEF RawOK, FormatOK, NodeOK, RawNodes, Tops
  <2>3. \A n \in DOMAIN names : names[n] \in 0..Len(formats) - 1
    BY <2>1 DEF TableOK
  <2>4. lines \in 0..MaxLines /\ servers \in 1..MaxServers /\ phase \in Phases
    BY <2>1 DEF ReadingOK
  <2>5. /\ req.state \in {"none", "run", "done"}
        /\ req.state # "none" => /\ req.cached \in 0..req.left
                                 /\ req.row + req.left <= req.rows
                                 /\ req.result \in {200, 404, 500}
    BY <2>1 DEF ReqOK, NoRequest, RunOK, Counted
  <2> QED
    BY <2>2, <2>3, <2>4, <2>5 DEF TypeOK
<1> QED
  BY <1>1, ServingAlways, PTL

-----------------------------------------------------------------------------
(* What is written                                                           *)

\* the pieces of a page that no null pointer stands for
Pieces == [what : Words \union {"name", "value"}, row : Nat, col : Nat] \ {Trap}

LEMMA TextPiece ==
    ASSUME NEW w \in Words
    PROVE  Piece(w, 0, 0) \in Pieces
<1>1. Piece(w, 0, 0) \in [what : Words \union {"name", "value"}, row : Nat, col : Nat]
  BY DEF Piece
<1>2. Piece(w, 0, 0) # Trap
  BY DEF Piece, Trap
<1> QED
  BY <1>1, <1>2 DEF Pieces

LEMMA ColumnPiece ==
    ASSUME NEW row \in Nat, NEW col \in Nat
    PROVE  Piece("name", row, col) \in Pieces /\ Piece("value", row, col) \in Pieces
<1>1. \A w \in {"name", "value"} :
         Piece(w, row, col) \in [what : Words \union {"name", "value"}, row : Nat, col : Nat]
  BY DEF Piece
<1>2. \A w \in {"name", "value"} : Piece(w, row, col) # Trap
  BY DEF Piece, Trap
<1> QED
  BY <1>1, <1>2 DEF Pieces

LEMMA OneIsSeq ==
    ASSUME NEW S, NEW e \in S
    PROVE  <<e>> \in Seq(S)
  OBVIOUS

LEMMA LiteralOut ==
    ASSUME NEW cell \in Tokens
    PROVE  Literal(cell) \in Seq(Pieces)
<1>1. CASE cell.kind = "plaintext"
  <2>1. cell.v \in Words
    BY <1>1 DEF Tokens
  <2> QED
    BY <1>1, <2>1, TextPiece, OneIsSeq DEF Literal
<1>2. CASE cell.kind # "plaintext"
  BY <1>2, EmptySeq DEF Literal
<1> QED
  BY <1>1, <1>2

LEMMA ColumnOutIs ==
    ASSUME NEW cell \in Tokens, NEW row \in Nat, NEW col \in Nat
    PROVE  ColumnOut(cell, row, col) \in Seq(Pieces)
<1>1. Piece("name", 0, col) \in Pieces /\ Piece("value", row, col) \in Pieces
  BY ColumnPiece
<1>2. Literal(cell) \in Seq(Pieces)
  BY LiteralOut
<1>3. <<Piece("name", 0, col)>> \in Seq(Pieces) /\ <<Piece("value", row, col)>> \in Seq(Pieces)
  BY <1>1, OneIsSeq
<1>4. CASE cell.kind = "plaintext"
  BY <1>2, <1>4 DEF ColumnOut
<1>5. CASE cell.kind = "fieldname"
  BY <1>3, <1>5 DEF ColumnOut
<1>6. CASE cell.kind \notin {"plaintext", "fieldname"}
  BY <1>3, <1>6 DEF ColumnOut
<1> QED
  BY <1>4, <1>5, <1>6

\* $i$ with i > 0 is a column, or none.
LEMMA NumberedOutIs ==
    ASSUME NEW cell \in Tokens, cell.kind # "plaintext" => cell.i > 0, NEW row \in Nat
    PROVE  NumberedOut(cell, row) \in Seq(Pieces)
<1>1. cell.i \in Nat
  <2>1. \/ cell \in [kind : {"plaintext", "node"}, v : Words, i : {0}]
        \/ cell \in [kind : {"ellipses", "fieldname", "fieldval", "open"}, v : {""}, i : {0}]
        \/ cell \in [kind : {"fieldnum"}, v : {""}, i : Nat]
    BY DEF Tokens
  <2>2. \A K, V, I : cell \in [kind : K, v : V, i : I] => cell.i \in I
    OBVIOUS
  <2>3. cell.i \in {0} \/ cell.i \in Nat
    BY <2>1, <2>2
  <2> QED
    BY <2>3
<1>2. CASE cell.kind = "plaintext"
  BY <1>2, LiteralOut DEF NumberedOut
<1>3. CASE cell.kind # "plaintext" /\ cell.i > Columns
  BY <1>3, EmptySeq DEF NumberedOut
<1>4. CASE cell.kind # "plaintext" /\ ~(cell.i > Columns)
  <2>1. cell.i # 0
    BY <1>1, <1>4
  <2> QED
    BY <1>1, <1>4, <2>1, ColumnOutIs DEF NumberedOut
<1> QED
  BY <1>2, <1>3, <1>4

\* A sequence of outputs is one of sequences.
LEMMA SeqOfSeqs ==
    ASSUME NEW S, NEW n \in Nat, NEW f \in [1..n -> S]
    PROVE  f \in Seq(S) /\ Len(f) = n
<1>1. f \in Seq(S)
  BY SeqDef
<1> QED
  BY <1>1, LenProperties

LEMMA LiteralsOut ==
    ASSUME NEW cells \in Seq(Tokens)
    PROVE  Each(Literal, cells) \in Seq(Pieces)
<1> DEFINE out == [j \in DOMAIN cells |-> Literal(cells[j])]
<1>1. Len(cells) \in Nat /\ DOMAIN cells = 1..Len(cells)
  BY LenProperties
<1>2. \A j \in 1..Len(cells) : Literal(cells[j]) \in Seq(Pieces)
  BY ElementOfSeq, LiteralOut
<1>3. out \in [1..Len(cells) -> Seq(Pieces)]
  BY <1>1, <1>2
<1>4. out \in Seq(Seq(Pieces))
  BY <1>1, <1>3, SeqOfSeqs
<1>5. Each(Literal, cells) = FlattenSeq(out)
  BY DEF Each
<1> QED
  BY <1>4, <1>5, FlattenType

LEMMA NumberedCellsOut ==
    ASSUME NEW cells \in Seq(Tokens), NEW row \in Nat,
           \A cell \in Range(cells) : cell.kind # "plaintext" => cell.i > 0
    PROVE  Each(LAMBDA c : NumberedOut(c, row), cells) \in Seq(Pieces)
<1> DEFINE out == [j \in DOMAIN cells |-> NumberedOut(cells[j], row)]
<1>1. Len(cells) \in Nat /\ DOMAIN cells = 1..Len(cells)
  BY LenProperties
<1>2. \A j \in 1..Len(cells) : NumberedOut(cells[j], row) \in Seq(Pieces)
  <2> SUFFICES ASSUME NEW j \in 1..Len(cells) PROVE NumberedOut(cells[j], row) \in Seq(Pieces)
    OBVIOUS
  <2>1. cells[j] \in Tokens
    BY ElementOfSeq
  <2>2. cells[j] \in Range(cells)
    BY <1>1 DEF Range
  <2> QED
    BY <2>1, <2>2, NumberedOutIs
<1>3. out \in [1..Len(cells) -> Seq(Pieces)]
  BY <1>1, <1>2
<1>4. out \in Seq(Seq(Pieces))
  BY <1>1, <1>3, SeqOfSeqs
<1>5. Each(LAMBDA c : NumberedOut(c, row), cells) = FlattenSeq(out)
  BY DEF Each
<1> QED
  BY <1>4, <1>5, FlattenType

LEMMA ColumnCellsOut ==
    ASSUME NEW cells \in Seq(Tokens), NEW row \in Nat, NEW col \in Nat
    PROVE  Each(LAMBDA c : ColumnOut(c, row, col), cells) \in Seq(Pieces)
<1> DEFINE out == [j \in DOMAIN cells |-> ColumnOut(cells[j], row, col)]
<1>1. Len(cells) \in Nat /\ DOMAIN cells = 1..Len(cells)
  BY LenProperties
<1>2. \A j \in 1..Len(cells) : ColumnOut(cells[j], row, col) \in Seq(Pieces)
  BY ElementOfSeq, ColumnOutIs
<1>3. out \in [1..Len(cells) -> Seq(Pieces)]
  BY <1>1, <1>2
<1>4. out \in Seq(Seq(Pieces))
  BY <1>1, <1>3, SeqOfSeqs
<1>5. Each(LAMBDA c : ColumnOut(c, row, col), cells) = FlattenSeq(out)
  BY DEF Each
<1> QED
  BY <1>4, <1>5, FlattenType

LEMMA CoreOutIs ==
    ASSUME NEW f, FormatOK(f), NEW core \in {None} \union DOMAIN f.nodes,
           core = None \/ f.nodes[core].type = "Record",
           NEW row \in Nat, NEW col \in Nat
    PROVE  CoreOut(f, core, row, col) \in Seq(Pieces)
<1>1. CASE core = None
  BY <1>1, EmptySeq DEF CoreOut
<1>2. CASE core # None
  <2> DEFINE node == f.nodes[core]
             cell == IF <<row, col>> \in Nulls THEN node.end ELSE node.begin
             out == Each(LAMBDA c : ColumnOut(c, row, col), cell.cells)
  <2>1. NodeOK(node, f.nodes) /\ node.type = "Record"
    BY <1>2 DEF FormatOK
  <2>2. cell.cells \in Seq(Tokens)
    BY <2>1 DEF NodeOK, CellRecords
  <2>3. CoreOut(f, core, row, col) = out
    BY <1>2, <2>1 DEF CoreOut
  <2> HIDE DEF cell
  <2>4. out \in Seq(Pieces)
    BY <2>2, ColumnCellsOut
  <2> QED
    BY <2>3, <2>4
<1> QED
  BY <1>1, <1>2

-----------------------------------------------------------------------------
(* The page that a format means                                              *)

Separated(pages, sep) == [j \in DOMAIN pages |-> IF j = 1 THEN pages[j] ELSE Each(Literal, sep) \o pages[j]]

LEMMA SeparatedIs ==
    ASSUME NEW pages \in Seq(Seq(Pieces)), NEW sep \in Seq(Tokens)
    PROVE  /\ Separated(pages, sep) \in Seq(Seq(Pieces))
           /\ Len(Separated(pages, sep)) = Len(pages)
           /\ Join(pages, sep) = FlattenSeq(Separated(pages, sep))
           /\ Join(pages, sep) \in Seq(Pieces)
<1>1. Len(pages) \in Nat /\ DOMAIN pages = 1..Len(pages)
  BY LenProperties
<1>2. \A j \in 1..Len(pages) : pages[j] \in Seq(Pieces) /\ Each(Literal, sep) \o pages[j] \in Seq(Pieces)
  BY ElementOfSeq, LiteralsOut, ConcatProperties
<1>3. Separated(pages, sep) \in [1..Len(pages) -> Seq(Pieces)]
  BY <1>1, <1>2 DEF Separated
<1>4. Separated(pages, sep) \in Seq(Seq(Pieces)) /\ Len(Separated(pages, sep)) = Len(pages)
  BY <1>1, <1>3, SeqOfSeqs
<1>5. Join(pages, sep) = FlattenSeq(Separated(pages, sep))
  BY DEF Join, Separated
<1> QED
  BY <1>4, <1>5, FlattenType

\* One page more is joined at the end, after a separator.
LEMMA JoinMore ==
    ASSUME NEW sep \in Seq(Tokens), NEW n \in Nat, NEW p \in [Nat -> Seq(Pieces)]
    PROVE  Join([r \in 1..(n + 1) |-> p[r]], sep)
             = Join([r \in 1..n |-> p[r]], sep)
                 \o (IF n = 0 THEN p[n + 1] ELSE Each(Literal, sep) \o p[n + 1])
<1> DEFINE s == [r \in 1..n |-> p[r]]
           t == [r \in 1..(n + 1) |-> p[r]]
           m == n + 1
<1>1. /\ s \in Seq(Seq(Pieces)) /\ Len(s) = n /\ DOMAIN s = 1..n
      /\ t \in Seq(Seq(Pieces)) /\ Len(t) = m /\ DOMAIN t = 1..m
      /\ m \in Nat
  <2>1. s \in [1..n -> Seq(Pieces)] /\ t \in [1..m -> Seq(Pieces)] /\ m \in Nat
    OBVIOUS
  <2> HIDE DEF s, t, m
  <2> QED
    BY <2>1, SeqOfSeqs
<1>2. (\A i \in 1..n : t[i] = s[i]) /\ t[m] = p[m]
  OBVIOUS
<1> HIDE DEF s, t
<1>3. /\ Separated(s, sep) \in Seq(Seq(Pieces)) /\ Len(Separated(s, sep)) = n
      /\ Join(s, sep) = FlattenSeq(Separated(s, sep))
      /\ Separated(t, sep) \in Seq(Seq(Pieces)) /\ Len(Separated(t, sep)) = m
      /\ Join(t, sep) = FlattenSeq(Separated(t, sep))
  BY <1>1, SeparatedIs
<1>4. \A i \in 1..n : Separated(t, sep)[i] = Separated(s, sep)[i]
  <2>1. \A i \in 1..n : i \in 1..m
    OBVIOUS
  <2> HIDE DEF m
  <2> QED
    BY <1>1, <1>2, <2>1 DEF Separated
<1>5. Separated(t, sep)[m] = IF n = 0 THEN p[m] ELSE Each(Literal, sep) \o p[m]
  <2>1. m \in 1..m /\ (m = 1 <=> n = 0)
    OBVIOUS
  <2> HIDE DEF m
  <2> QED
    BY <1>1, <1>2, <2>1 DEF Separated
<1>6. FlattenSeq(Separated(t, sep)) = FlattenSeq(Separated(s, sep)) \o Separated(t, sep)[m]
  BY <1>3, <1>4, FlattenMore
<1> QED
  BY <1>3, <1>5, <1>6 DEF s, t

\* While nothing hangs on the null cell, a chain is the cells of its text.
LEMMA ChainIsCells ==
    ASSUME NEW cell \in CellRecords, spill = << >>
    PROVE  Chain(cell) = cell.cells
  BY DEF CellRecords, Chain

\* RowLoop::Run() writes what the text of the row means.
LEMMA RowRunIs ==
    ASSUME FormatOK(endpoint), WellTyped(endpoint), spill = << >>,
           NEW n \in DOMAIN endpoint.nodes, endpoint.nodes[n].type = "Row", NEW row \in Nat
    PROVE  LET node == endpoint.nodes[n]
           IN /\ RowLoopRun(endpoint, node, row) = RowPage(endpoint, node, row)
              /\ RowPage(endpoint, node, row) \in Seq(Pieces)
<1> DEFINE node == endpoint.nodes[n]
           column == [c \in 1..Columns |-> CoreOut(endpoint, node.core, row, c)]
           begin == Each(LAMBDA c : NumberedOut(c, row), node.begin.cells)
           end == Each(LAMBDA c : NumberedOut(c, row), node.end.cells)
<1>1. /\ node.begin \in CellRecords /\ node.end \in CellRecords /\ node.sep \in Seq(Tokens)
      /\ node.core \in {None} \union DOMAIN endpoint.nodes
  BY DEF FormatOK, NodeOK
<1>2. /\ node.core = None \/ endpoint.nodes[node.core].type = "Record"
      /\ \A cell \in Range(node.begin.cells \o node.end.cells) :
            cell.kind # "plaintext" => cell.i > 0
  BY DEF WellTyped
<1>3. node.begin.cells \in Seq(Tokens) /\ node.end.cells \in Seq(Tokens)
  BY <1>1 DEF CellRecords
<1>4. begin \in Seq(Pieces) /\ end \in Seq(Pieces)
  <2>1. Range(node.begin.cells \o node.end.cells) = Range(node.begin.cells) \union Range(node.end.cells)
    BY <1>3, RangeConcatenation
  <2>2. /\ \A cell \in Range(node.begin.cells) : cell.kind # "plaintext" => cell.i > 0
        /\ \A cell \in Range(node.end.cells) : cell.kind # "plaintext" => cell.i > 0
    BY <1>2, <2>1
  <2> QED
    BY <1>3, <2>2, NumberedCellsOut
<1>5. Columns \in Nat /\ \A c \in 1..Columns : column[c] \in Seq(Pieces)
  <2>1. Columns \in Nat
    BY FormatsAssumption
  <2>2. \A c \in 1..Columns : CoreOut(endpoint, node.core, row, c) \in Seq(Pieces)
    <3> SUFFICES ASSUME NEW c \in 1..Columns
                 PROVE  CoreOut(endpoint, node.core, row, c) \in Seq(Pieces)
      OBVIOUS
    <3>1. c \in Nat
      BY <2>1
    <3> QED
      BY <1>1, <1>2, <3>1, CoreOutIs
  <2> QED
    BY <2>1, <2>2
<1>6. column \in Seq(Seq(Pieces)) /\ DOMAIN column = 1..Columns
  <2>1. column \in [1..Columns -> Seq(Pieces)]
    BY <1>5
  <2> HIDE DEF column
  <2> QED
    BY <1>5, <2>1, SeqOfSeqs
<1>7. [c \in 1..Columns |-> (IF c = 1 THEN << >> ELSE Each(Literal, node.sep))
                              \o CoreOut(endpoint, node.core, row, c)]
        = Separated(column, node.sep)
  <2>1. \A c \in 1..Columns : << >> \o column[c] = column[c]
    BY <1>5, ConcatEmptySeq
  <2>2. \A c \in 1..Columns : column[c] = CoreOut(endpoint, node.core, row, c)
    OBVIOUS
  <2>3. \A c \in 1..Columns : (IF c = 1 THEN << >> ELSE Each(Literal, node.sep))
                                 \o CoreOut(endpoint, node.core, row, c)
                               = IF c = 1 THEN column[c] ELSE Each(Literal, node.sep) \o column[c]
    BY <2>1, <2>2
  <2> HIDE DEF column
  <2> QED
    BY <1>6, <2>3 DEF Separated
<1>8. /\ Join(column, node.sep) = FlattenSeq(Separated(column, node.sep))
      /\ Join(column, node.sep) \in Seq(Pieces)
  <2> HIDE DEF column
  <2> QED
    BY <1>1, <1>6, SeparatedIs
<1>9. RowLoopRun(endpoint, node, row) = begin \o Join(column, node.sep) \o end
  <2>1. Chain(node.begin) = node.begin.cells /\ Chain(node.end) = node.end.cells
    BY <1>1, ChainIsCells
  <2>2. RowLoopRun(endpoint, node, row)
          = Each(LAMBDA c : NumberedOut(c, row), Chain(node.begin))
            \o FlattenSeq([c \in 1..Columns |-> (IF c = 1 THEN << >> ELSE Each(Literal, node.sep))
                              \o CoreOut(endpoint, node.core, row, c)])
            \o Each(LAMBDA c : NumberedOut(c, row), Chain(node.end))
    BY DEF RowLoopRun
  <2> HIDE DEF column
  <2> QED
    BY <1>7, <1>8, <2>1, <2>2
<1>10. RowPage(endpoint, node, row) = begin \o Join(column, node.sep) \o end
  BY DEF RowPage
<1>11. begin \o Join(column, node.sep) \o end \in Seq(Pieces)
  <2> HIDE DEF begin, end, column
  <2> QED
    BY <1>4, <1>8, ConcatProperties
<1> QED
  BY <1>9, <1>10, <1>11

-----------------------------------------------------------------------------
(* While a page is built                                                     *)

MainOf(f) == f.nodes["_main"]
CoreOf(f) == f.nodes[MainOf(f).core]
Opening(f) == Each(Literal, MainOf(f).begin.cells)
MainFrame(begun) == IF begun THEN [Frame("_main") EXCEPT !.begun = TRUE] ELSE Frame("_main")

\* A scan is for a Format around a Scan.
Fits(f, isScan) == isScan => MainOf(f).core # None /\ CoreOf(f).type = "Scan"

CorePage(f, n, isScan) ==
    IF MainOf(f).core = None THEN << >> ELSE RowsPage(f, CoreOf(f), n, isScan)

\* what one row adds to a scan, and the first n rows
RowText(f, row) == IF CoreOf(f).core = None THEN << >>
                   ELSE RowPage(f, f.nodes[CoreOf(f).core], row)

RowsSoFar(f, n) ==
    IF n = 0 THEN << >>
    ELSE Each(Literal, CoreOf(f).begin.cells)
           \o Join([r \in 1..n |-> RowText(f, r)], CoreOf(f).sep)

\* the counters before the first row is read, and after the last
Begun(q) == /\ q.failed = FALSE /\ q.result = 200 /\ q.row + q.left = q.rows
            /\ IF q.scan THEN q.row = 0 ELSE q.row = 1 /\ q.rows = 1
Ended(q) == /\ q.failed \/ q.row = q.rows
            /\ q.result = IF q.row = 0 THEN 404 ELSE 200

\* where the loops are, and what they have written
AtOpening(f, q) ==
    q.stack = <<MainFrame(FALSE)>> /\ q.page = Opening(f) /\ Begun(q)

AtRow(f, q, frame) ==
    IF q.scan
    THEN /\ frame.nrows = q.row /\ q.failed = FALSE /\ q.row + q.left = q.rows
         /\ q.page = Opening(f) \o RowsSoFar(f, q.row)
    ELSE /\ Begun(q)
         /\ q.page = IF frame.begun THEN Opening(f) \o RowText(f, 1) ELSE Opening(f)

AtScan(f, q) ==
    /\ MainOf(f).core # None /\ CoreOf(f).type = "Scan"
    /\ \E frame \in Frames(f.nodes) :
          /\ q.stack = <<MainFrame(TRUE), frame>> /\ frame.node = MainOf(f).core
          /\ AtRow(f, q, frame)

AtClosing(f, q) ==
    /\ q.stack = <<MainFrame(TRUE)>> /\ q.page \in Seq(Pieces)
    /\ Fits(f, q.scan) => Ended(q) /\ q.page = Opening(f) \o CorePage(f, q.row, q.scan)

AtEnd(f, q) ==
    /\ q.stack = << >> /\ q.page \in Seq(Pieces)
    /\ Fits(f, q.scan) => Ended(q) /\ q.page = Page(f, q.row, q.scan)

OnThePage(f, q) == AtOpening(f, q) \/ AtScan(f, q) \/ AtClosing(f, q)

\* A well-typed format, nothing on the null cell: the page is always the one
\* that the text means for the rows so far.
PageOK ==
    phase \in {"serving", "died"} /\ WellTyped(endpoint) /\ spill = << >> =>
        /\ phase = "serving"
        /\ req.state # "none" => req.scan \in BOOLEAN
        /\ req.state = "run" => endpoint.top = "_main" /\ OnThePage(endpoint, req)
        /\ req.state = "done" /\ endpoint.top = "_main" => AtEnd(endpoint, req)

\* what the lemmas about the page assume
Typed == /\ FormatOK(endpoint) /\ WellTyped(endpoint) /\ endpoint.top = "_main"
         /\ spill = << >>

LEMMA SameFields ==
    ASSUME NEW f, NEW q, NEW w,
           w.stack = q.stack, w.page = q.page, w.scan = q.scan, w.rows = q.rows,
           w.left = q.left, w.row = q.row, w.failed = q.failed, w.result = q.result
    PROVE  /\ OnThePage(f, q) => OnThePage(f, w)
           /\ AtEnd(f, q) => AtEnd(f, w)
<1>1. (Begun(w) <=> Begun(q)) /\ (Ended(w) <=> Ended(q))
  BY DEF Begun, Ended
<1>2. AtOpening(f, q) => AtOpening(f, w)
  BY <1>1 DEF AtOpening
<1>3. AtClosing(f, q) => AtClosing(f, w)
  BY <1>1 DEF AtClosing
<1>4. AtScan(f, q) => AtScan(f, w)
  BY <1>1 DEF AtScan, AtRow
<1>5. AtEnd(f, q) => AtEnd(f, w)
  BY <1>1 DEF AtEnd
<1> QED
  BY <1>2, <1>3, <1>4, <1>5 DEF OnThePage

LEMMA MainFacts ==
    ASSUME Typed
    PROVE  LET main == MainOf(endpoint)
           IN /\ "_main" \in DOMAIN endpoint.nodes /\ main.type = "Format" /\ ~endpoint.raw
              /\ main.begin.cells \in Seq(Tokens) /\ main.end.cells \in Seq(Tokens)
              /\ main.core \in {None} \union DOMAIN endpoint.nodes
              /\ main.core # None => /\ main.core \in DOMAIN endpoint.nodes
                                     /\ CoreOf(endpoint).type \in {"Scan", "Row"}
              /\ Opening(endpoint) \in Seq(Pieces)
<1>1. /\ "_main" \in DOMAIN endpoint.nodes /\ ~endpoint.raw
      /\ endpoint.nodes["_main"].type = "Format"
      /\ NodeOK(endpoint.nodes["_main"], endpoint.nodes)
  BY DEF Typed, FormatOK
<1>2. /\ MainOf(endpoint).begin.cells \in Seq(Tokens) /\ MainOf(endpoint).end.cells \in Seq(Tokens)
  BY <1>1 DEF MainOf, NodeOK, CellRecords
<1>3. Opening(endpoint) \in Seq(Pieces)
  BY <1>2, LiteralsOut DEF Opening
<1> QED
  BY <1>1, <1>2, <1>3 DEF MainOf, CoreOf, NodeOK

LEMMA ScanFacts ==
    ASSUME Typed, MainOf(endpoint).core # None, CoreOf(endpoint).type = "Scan"
    PROVE  LET core == CoreOf(endpoint)
           IN /\ core.begin \in CellRecords /\ core.end \in CellRecords
              /\ core.begin.cells \in Seq(Tokens) /\ core.end.cells \in Seq(Tokens)
              /\ core.sep \in Seq(Tokens)
              /\ core.core \in {None} \union DOMAIN endpoint.nodes
              /\ core.core # None => /\ core.core \in DOMAIN endpoint.nodes
                                     /\ endpoint.nodes[core.core].type = "Row"
<1>1. MainOf(endpoint).core \in DOMAIN endpoint.nodes
  BY MainFacts
<1>2. NodeOK(CoreOf(endpoint), endpoint.nodes)
  BY <1>1 DEF Typed, FormatOK, CoreOf
<1>3. CoreOf(endpoint).core = None \/ endpoint.nodes[CoreOf(endpoint).core].type = "Row"
  BY <1>1 DEF Typed, WellTyped, CoreOf
<1> QED
  BY <1>2, <1>3 DEF NodeOK, CellRecords

\* No more than two loops are on the stack, and they are different nodes.
LEMMA StackIsShort ==
    ASSUME Typed, NEW q, OnThePage(endpoint, q) \/ AtEnd(endpoint, q)
    PROVE  ~(Len(q.stack) > Cardinality(DOMAIN endpoint.nodes) + MaxRows)
<1>1. Cardinality(DOMAIN endpoint.nodes) \in Nat /\ MaxRows \in Nat
  BY FS_CardinalityType, FormatsAssumption DEF Typed, FormatOK
<1>2. Cardinality(DOMAIN endpoint.nodes) >= 1
  <2>1. {"_main"} \in SUBSET DOMAIN endpoint.nodes
    BY MainFacts
  <2>2. Cardinality({"_main"}) = 1
    BY FS_Singleton
  <2> QED
    BY <1>1, <2>1, <2>2, FS_Subset DEF Typed, FormatOK
<1>3. CASE AtScan(endpoint, q)
  <2>1. MainOf(endpoint).core \in DOMAIN endpoint.nodes /\ MainOf(endpoint).core # "_main"
    BY <1>3, MainFacts DEF AtScan, CoreOf, MainOf
  <2>2. {"_main"} \union {MainOf(endpoint).core} \in SUBSET DOMAIN endpoint.nodes
    BY <2>1, MainFacts
  <2>3. Cardinality({"_main"} \union {MainOf(endpoint).core}) = 2
    <3>1. IsFiniteSet({"_main"}) /\ Cardinality({"_main"}) = 1
      BY FS_Singleton
    <3>2. MainOf(endpoint).core \notin {"_main"}
      BY <2>1
    <3> DEFINE S == {"_main"}
               x == MainOf(endpoint).core
    <3> HIDE DEF S, x
    <3>3. Cardinality(S \union {x}) = IF x \in S THEN Cardinality(S) ELSE Cardinality(S) + 1
      BY <3>1, FS_AddElement DEF S
    <3> QED
      BY <3>1, <3>2, <3>3 DEF S, x
  <2>4. Cardinality(DOMAIN endpoint.nodes) >= 2
    BY <1>1, <2>2, <2>3, FS_Subset DEF Typed, FormatOK
  <2>5. Len(q.stack) = 2
    BY <1>3 DEF AtScan, AtRow
  <2> QED
    BY <1>1, <2>4, <2>5
<1>4. CASE AtOpening(endpoint, q) \/ AtClosing(endpoint, q)
  <2>1. \E frame : q.stack = <<frame>>
    BY <1>4 DEF AtOpening, AtClosing
  <2>2. Len(q.stack) = 1
    BY <2>1
  <2> QED
    BY <1>1, <1>2, <2>2
<1>5. CASE AtEnd(endpoint, q)
  <2>1. Len(q.stack) = 0
    BY <1>5 DEF AtEnd
  <2> QED
    BY <1>1, <2>1
<1> QED
  BY <1>3, <1>4, <1>5 DEF OnThePage

LEMMA RowTextIs ==
    ASSUME Typed, MainOf(endpoint).core # None, CoreOf(endpoint).type = "Scan", NEW row \in Nat
    PROVE  /\ RowText(endpoint, row) \in Seq(Pieces)
           /\ CoreOf(endpoint).core # None
                => RowLoopRun(endpoint, endpoint.nodes[CoreOf(endpoint).core], row)
                     = RowText(endpoint, row)
<1>1. CASE CoreOf(endpoint).core = None
  BY <1>1, EmptySeq DEF RowText
<1>2. CASE CoreOf(endpoint).core # None
  BY <1>2, ScanFacts, RowRunIs DEF RowText, Typed
<1> QED
  BY <1>1, <1>2

LEMMA PiecesConcat ==
    ASSUME NEW s \in Seq(Pieces), NEW t \in Seq(Pieces)
    PROVE  s \o t \in Seq(Pieces) /\ s \o << >> = s /\ << >> \o s = s
  BY ConcatProperties, ConcatEmptySeq

LEMMA PiecesAssociative ==
    ASSUME NEW s \in Seq(Pieces), NEW t \in Seq(Pieces), NEW u \in Seq(Pieces)
    PROVE  (s \o t) \o u = s \o (t \o u)
  BY ConcatAssociative

\* A row more, after the opening text of the scan or a separator.
LEMMA RowsSoFarIs ==
    ASSUME Typed, MainOf(endpoint).core # None, CoreOf(endpoint).type = "Scan", NEW n \in Nat
    PROVE  LET text == IF n # 0 THEN Each(Literal, CoreOf(endpoint).sep)
                                ELSE Each(Literal, CoreOf(endpoint).begin.cells)
           IN /\ RowsSoFar(endpoint, n) \in Seq(Pieces) /\ text \in Seq(Pieces)
              /\ RowsSoFar(endpoint, n + 1)
                   = (RowsSoFar(endpoint, n) \o text) \o RowText(endpoint, n + 1)
<1> DEFINE begin == Each(Literal, CoreOf(endpoint).begin.cells)
           sep == CoreOf(endpoint).sep
           p == [r \in Nat |-> RowText(endpoint, r)]
           join(m) == Join([r \in 1..m |-> p[r]], sep)
<1>1. begin \in Seq(Pieces) /\ Each(Literal, sep) \in Seq(Pieces) /\ sep \in Seq(Tokens)
  BY ScanFacts, LiteralsOut
<1>2. p \in [Nat -> Seq(Pieces)]
  BY RowTextIs
<1>3. \A m \in Nat : [r \in 1..m |-> RowText(endpoint, r)] = [r \in 1..m |-> p[r]]
  OBVIOUS
<1>4. ASSUME NEW m \in Nat PROVE join(m) \in Seq(Pieces)
  <2>1. [r \in 1..m |-> p[r]] \in [1..m -> Seq(Pieces)]
    BY <1>2
  <2>2. [r \in 1..m |-> p[r]] \in Seq(Seq(Pieces))
    BY <2>1, SeqOfSeqs
  <2> HIDE DEF p
  <2> QED
    BY <1>1, <2>2, SeparatedIs
<1>5. \A m \in Nat : RowsSoFar(endpoint, m) = IF m = 0 THEN << >> ELSE begin \o join(m)
  BY <1>3 DEF RowsSoFar
<1>6. join(n + 1) = join(n) \o (IF n = 0 THEN p[n + 1] ELSE Each(Literal, sep) \o p[n + 1])
  <2> HIDE DEF p, sep
  <2> QED
    BY <1>1, <1>2, JoinMore
<1>7. p[n + 1] = RowText(endpoint, n + 1) /\ p[n + 1] \in Seq(Pieces) /\ n + 1 \in Nat /\ n + 1 # 0
  BY <1>2
<1>8. join(0) = << >>
  <2>1. [r \in 1..0 |-> p[r]] = << >>
    OBVIOUS
  <2>2. Separated(<< >>, sep) = << >>
    BY DEF Separated
  <2> QED
    BY <2>1, <2>2, <1>1 DEF Join, Separated, FlattenSeq
<1>9. join(n) \in Seq(Pieces) /\ join(n + 1) \in Seq(Pieces)
  BY <1>4, <1>7
<1>10. RowsSoFar(endpoint, n) = (IF n = 0 THEN << >> ELSE begin \o join(n))
       /\ RowsSoFar(endpoint, n + 1) = begin \o join(n + 1)
  BY <1>5, <1>7
<1> HIDE DEF p, join, begin, sep
<1>11. CASE n = 0
  <2>1. join(n + 1) = p[n + 1]
    BY <1>6, <1>7, <1>8, <1>11, ConcatEmptySeq
  <2>2. << >> \o begin = begin
    BY <1>1, ConcatEmptySeq
  <2> QED
    BY <1>1, <1>7, <1>10, <1>11, <2>1, <2>2, EmptySeq DEF begin, sep
<1>12. CASE n # 0
  <2> DEFINE a == begin
             b == join(n)
             c == Each(Literal, sep)
             d == p[n + 1]
  <2>1. a \in Seq(Pieces) /\ b \in Seq(Pieces) /\ c \in Seq(Pieces) /\ d \in Seq(Pieces)
    BY <1>1, <1>7, <1>9
  <2>2. /\ RowsSoFar(endpoint, n) = a \o b /\ RowsSoFar(endpoint, n + 1) = a \o (b \o (c \o d))
        /\ RowText(endpoint, n + 1) = d
    BY <1>6, <1>7, <1>10, <1>12
  <2> HIDE DEF a, b, c, d
  <2>3. a \o (b \o (c \o d)) = ((a \o b) \o c) \o d
    <3>1. c \o d \in Seq(Pieces) /\ a \o b \in Seq(Pieces)
      BY <2>1, PiecesConcat
    <3>2. \A e \in Seq(Pieces) : (a \o b) \o e = a \o (b \o e)
      BY <2>1, PiecesAssociative
    <3>3. \A e \in Seq(Pieces) : (e \o c) \o d = e \o (c \o d)
      BY <2>1, PiecesAssociative
    <3> QED
      BY <3>1, <3>2, <3>3
  <2>4. a \o b \in Seq(Pieces)
    BY <2>1, PiecesConcat
  <2> QED
    BY <1>1, <1>12, <2>1, <2>2, <2>3, <2>4 DEF c, sep
<1> QED
  BY <1>11, <1>12

\* Without a null pointer and with few loops on the stack a step does not kill.
LEMMA StepLives ==
    ASSUME NEW q, DOMAIN q = ReqFields, q.page \in Seq(Pieces),
           ~(Len(q.stack) > Cardinality(DOMAIN endpoint.nodes) + MaxRows), Step(q)
    PROVE  /\ req'.stack = q.stack /\ req'.page = q.page
           /\ req'.scan = q.scan /\ req'.rows = q.rows /\ req'.left = q.left
           /\ req'.row = q.row /\ req'.failed = q.failed /\ req'.result = q.result
           /\ req'.state = IF q.stack = << >> THEN "done" ELSE "run"
           /\ phase' = phase /\ endpoint' = endpoint /\ spill' = spill
<1>1. Trap \notin Range(q.page)
  BY RangeOfSeq DEF Pieces
<1> QED
  BY <1>1, StepIs DEF config

LEMMA PageIsSafe ==
    ASSUME Typed, NEW q, q.row \in Nat,
           OnThePage(endpoint, q) \/ AtEnd(endpoint, q)
    PROVE  q.page \in Seq(Pieces)
<1>1. Opening(endpoint) \in Seq(Pieces)
  BY MainFacts
<1>2. CASE AtScan(endpoint, q)
  <2>1. MainOf(endpoint).core # None /\ CoreOf(endpoint).type = "Scan"
    BY <1>2 DEF AtScan, AtRow
  <2>2. RowText(endpoint, 1) \in Seq(Pieces) /\ RowsSoFar(endpoint, q.row) \in Seq(Pieces)
    BY <2>1, RowTextIs, RowsSoFarIs
  <2>3. /\ Opening(endpoint) \o RowText(endpoint, 1) \in Seq(Pieces)
        /\ Opening(endpoint) \o RowsSoFar(endpoint, q.row) \in Seq(Pieces)
    BY <1>1, <2>2, PiecesConcat
  <2> QED
    BY <1>1, <1>2, <2>3 DEF AtScan, AtRow
<1> QED
  BY <1>1, <1>2 DEF OnThePage, AtOpening, AtClosing, AtEnd

LEMMA StepServes ==
    ASSUME Typed, phase = "serving", NEW q, DOMAIN q = ReqFields, q.scan \in BOOLEAN,
           q.row \in Nat, OnThePage(endpoint, q) \/ AtEnd(endpoint, q), Step(q)
    PROVE  PageOK'
<1>1. /\ req'.stack = q.stack /\ req'.page = q.page
      /\ req'.scan = q.scan /\ req'.rows = q.rows /\ req'.left = q.left
      /\ req'.row = q.row /\ req'.failed = q.failed /\ req'.result = q.result
      /\ req'.state = IF q.stack = << >> THEN "done" ELSE "run"
      /\ phase' = phase /\ endpoint' = endpoint /\ spill' = spill
  BY PageIsSafe, StackIsShort, StepLives
<1>2. /\ OnThePage(endpoint, q) => OnThePage(endpoint, req')
      /\ AtEnd(endpoint, q) => AtEnd(endpoint, req')
  BY <1>1, SameFields
<1>3. OnThePage(endpoint, q) => q.stack # << >>
  <2>1. (\A a : <<a>> # << >>) /\ (\A a, b : <<a, b>> # << >>)
    OBVIOUS
  <2> QED
    BY <2>1 DEF OnThePage, AtOpening, AtScan, AtClosing
<1>4. AtEnd(endpoint, q) => q.stack = << >>
  BY DEF AtEnd
<1>5. phase' = "serving" /\ req'.scan \in BOOLEAN /\ endpoint' = endpoint
  BY <1>1
<1>6. req'.state = "run" => OnThePage(endpoint', req')
  BY <1>1, <1>2, <1>4
<1>7. req'.state = "done" => AtEnd(endpoint', req')
  BY <1>1, <1>2, <1>3
<1> QED
  BY <1>5, <1>6, <1>7 DEF PageOK, Typed

LEMMA AppendToOne ==
    ASSUME NEW a, NEW b PROVE Append(<<a>>, b) = <<a, b>>
<1> DEFINE S == {a, b}
<1>1. <<a>> \in Seq(S) /\ b \in S /\ Len(<<a>>) = 1 /\ <<a>>[1] = a
  OBVIOUS
<1>2. /\ Append(<<a>>, b) \in Seq(S) /\ Len(Append(<<a>>, b)) = 2
      /\ Append(<<a>>, b)[1] = a /\ Append(<<a>>, b)[2] = b
  <2> DEFINE s == <<a>>
  <2>1. s \in Seq(S) /\ b \in S /\ Len(s) = 1 /\ s[1] = a
    BY <1>1
  <2> HIDE DEF s, S
  <2> QED
    BY <2>1, AppendProperties DEF s
<1>3. <<a, b>> \in Seq(S) /\ Len(<<a, b>>) = 2 /\ <<a, b>>[1] = a /\ <<a, b>>[2] = b
  OBVIOUS
<1> DEFINE s == Append(<<a>>, b)
           t == <<a, b>>
<1>4. /\ s \in Seq(S) /\ Len(s) = 2 /\ s[1] = a /\ s[2] = b
      /\ t \in Seq(S) /\ Len(t) = 2 /\ t[1] = a /\ t[2] = b
  BY <1>2, <1>3
<1> HIDE DEF s, t, S
<1>5. \A i \in 1..2 : s[i] = t[i]
  BY <1>4
<1>6. s = t
  BY <1>4, <1>5, SeqEqual
<1> QED
  BY <1>6 DEF s, t

\* What a Row adds, whoever calls it.
LEMMA RowNodeCalled ==
    ASSUME Typed, NEW q, DOMAIN q = ReqFields,
           NEW n \in DOMAIN endpoint.nodes, n # None, endpoint.nodes[n].type = "Row"
    PROVE  LET c == Call(q, n)
           IN /\ DOMAIN c = ReqFields
              /\ c.scan = q.scan /\ c.rows = q.rows /\ c.left = q.left
              /\ c.row = q.row /\ c.failed = q.failed /\ c.result = 200
              /\ c.stack = q.stack
              /\ c.page = q.page \o RowLoopRun(endpoint, endpoint.nodes[n], q.row)
<1>1. FormatOK(endpoint)
  BY DEF Typed
<1> DEFINE node == endpoint.nodes[n]
           c == Call(q, n)
           text == RowLoopRun(endpoint, node, q.row)
<1>2. /\ DOMAIN c = ReqFields
      /\ c.scan = q.scan /\ c.rows = q.rows /\ c.left = q.left
      /\ c.row = q.row /\ c.failed = q.failed
      /\ c.result = (IF node.type = "Row" THEN 200 ELSE q.result)
      /\ c.stack = (IF node.type \in {"Scan", "Format"} THEN Append(q.stack, Frame(n)) ELSE q.stack)
      /\ node.type = "Row" => c.page = q.page \o text
  <2>1. LET m == endpoint.nodes[n]
            d == Call(q, n)
        IN /\ DOMAIN d = ReqFields
           /\ d.state = q.state /\ d.scan = q.scan /\ d.rows = q.rows /\ d.left = q.left
           /\ d.cached = q.cached /\ d.row = q.row /\ d.failed = q.failed
           /\ d.result = IF m.type = "Row" THEN 200 ELSE q.result
           /\ d.stack = IF m.type \in {"Scan", "Format"} THEN Append(q.stack, Frame(n))
                                                         ELSE q.stack
           /\ m.type = "Row" => d.page = q.page \o RowLoopRun(endpoint, m, q.row)
           /\ m.type = "Scan" => d.page = q.page
           /\ m.type = "Format" => d.page = q.page \o Each(Literal, m.begin.cells)
    BY <1>1, CallIs
  <2> QED
    BY <2>1, Zenon
<1>3. node.type = "Row"
  OBVIOUS
<1> HIDE DEF c, node, text
<1>4. "Row" \notin {"Scan", "Format"}
  OBVIOUS
<1> QED
  BY <1>2, <1>3, <1>4 DEF c, text, node

\* the core of the Format, when its opening text has been written
LEMMA CoreIsCalled ==
    ASSUME Typed, NEW q, DOMAIN q = ReqFields, q.scan \in BOOLEAN, Begun(q), q.row \in Nat,
           q.stack = <<MainFrame(TRUE)>>, q.page = Opening(endpoint)
    PROVE  LET c == Call(q, MainOf(endpoint).core)
           IN DOMAIN c = ReqFields /\ c.scan = q.scan /\ c.row = q.row /\ OnThePage(endpoint, c)
<1> DEFINE n == MainOf(endpoint).core
           c == Call(q, n)
<1>1. Opening(endpoint) \in Seq(Pieces) /\ FormatOK(endpoint)
  BY MainFacts DEF Typed
<1>2. CASE n = None
  <2>1. c = q
    BY <1>2, CallNone
  <2>2. Fits(endpoint, q.scan) => ~q.scan /\ q.row = 1 /\ q.rows = 1 /\ q.result = 200
    BY <1>2 DEF Fits, Begun
  <2>3. Opening(endpoint) \o CorePage(endpoint, q.row, q.scan) = Opening(endpoint)
    BY <1>1, <1>2, PiecesConcat DEF CorePage
  <2>4. AtClosing(endpoint, q)
    BY <1>1, <2>2, <2>3 DEF AtClosing, Ended
  <2> QED
    BY <2>1, <2>4 DEF OnThePage
<1>3. CASE n # None /\ endpoint.nodes[n].type = "Row"
  <2>1. n \in DOMAIN endpoint.nodes /\ CoreOf(endpoint) = endpoint.nodes[n]
    BY <1>3, MainFacts DEF CoreOf
  <2> DEFINE text == RowPage(endpoint, endpoint.nodes[n], q.row)
  <2>2. text \in Seq(Pieces) /\ RowLoopRun(endpoint, endpoint.nodes[n], q.row) = text
    BY <1>3, <2>1, RowRunIs DEF Typed
  <2>3. /\ DOMAIN c = ReqFields
        /\ c.scan = q.scan /\ c.rows = q.rows /\ c.left = q.left
        /\ c.row = q.row /\ c.failed = q.failed /\ c.result = 200
        /\ c.stack = q.stack
        /\ c.page = q.page \o RowLoopRun(endpoint, endpoint.nodes[n], q.row)
    BY <1>3, <2>1, RowNodeCalled
  <2> HIDE DEF c, text
  <2>4. c.page = Opening(endpoint) \o text /\ c.page \in Seq(Pieces)
    BY <1>1, <2>2, <2>3, PiecesConcat
  <2>5. Fits(endpoint, c.scan) => ~c.scan /\ c.row = 1 /\ c.rows = 1
    BY <1>3, <2>1, <2>3 DEF Fits, Begun
  <2>6. ~c.scan /\ c.row = 1 => CorePage(endpoint, c.row, c.scan) = text
    BY <1>3, <2>1, <2>3 DEF CorePage, RowsPage, text
  <2>7. AtClosing(endpoint, c)
    BY <2>3, <2>4, <2>5, <2>6 DEF AtClosing, Ended
  <2> QED
    BY <2>3, <2>7 DEF OnThePage, c
<1>4. CASE n # None /\ endpoint.nodes[n].type = "Scan"
  <2>1. n \in DOMAIN endpoint.nodes /\ CoreOf(endpoint) = endpoint.nodes[n]
    BY <1>4, MainFacts DEF CoreOf
  <2>2. /\ DOMAIN c = ReqFields
        /\ c.scan = q.scan /\ c.rows = q.rows /\ c.left = q.left
        /\ c.row = q.row /\ c.failed = q.failed /\ c.result = q.result
        /\ c.stack = Append(q.stack, Frame(n)) /\ c.page = q.page
    BY <1>1, <1>4, <2>1, CallIs
  <2> HIDE DEF c
  <2>3. c.stack = <<MainFrame(TRUE), Frame(n)>>
    BY <2>2, AppendToOne
  <2>4. /\ Frame(n) \in Frames(endpoint.nodes) /\ Frame(n).node = n /\ Frame(n).nrows = 0
        /\ Frame(n).begun = FALSE
    BY <2>1 DEF Frame, Frames
  <2>5. Begun(c)
    BY <2>2 DEF Begun
  <2>6. c.scan => /\ c.row = 0 /\ c.failed = FALSE /\ c.row + c.left = c.rows
                  /\ Opening(endpoint) \o RowsSoFar(endpoint, c.row) = Opening(endpoint)
    <3>1. c.scan => c.row = 0 /\ c.failed = FALSE /\ c.row + c.left = c.rows
      BY <2>5 DEF Begun
    <3>2. RowsSoFar(endpoint, 0) = << >>
      BY DEF RowsSoFar
    <3> QED
      BY <1>1, <3>1, <3>2, PiecesConcat
  <2>7. AtScan(endpoint, c)
    BY <1>4, <2>1, <2>2, <2>3, <2>4, <2>5, <2>6 DEF AtScan, AtRow
  <2> QED
    BY <2>2, <2>7 DEF OnThePage, c
<1>5. n # None => endpoint.nodes[n].type \in {"Scan", "Row"}
  BY MainFacts DEF CoreOf
<1> QED
  BY <1>2, <1>3, <1>4, <1>5

\* the core of the scan, for one row
LEMMA RowIsCalled ==
    ASSUME Typed, MainOf(endpoint).core # None, CoreOf(endpoint).type = "Scan",
           NEW q, DOMAIN q = ReqFields, q.row \in Nat, q.page \in Seq(Pieces)
    PROVE  LET c == Call(q, CoreOf(endpoint).core)
           IN /\ DOMAIN c = ReqFields /\ c.stack = q.stack
              /\ c.scan = q.scan /\ c.rows = q.rows /\ c.left = q.left
              /\ c.row = q.row /\ c.failed = q.failed /\ c.result \in {200, q.result}
              /\ c.page = q.page \o RowText(endpoint, q.row)
<1>1. CASE CoreOf(endpoint).core = None
  <2>1. RowText(endpoint, q.row) = << >>
    BY <1>1 DEF RowText
  <2> QED
    BY <1>1, <2>1, CallNone, PiecesConcat
<1>2. CASE CoreOf(endpoint).core # None
  <2> DEFINE n == CoreOf(endpoint).core
             c == Call(q, n)
  <2>1. n \in DOMAIN endpoint.nodes /\ endpoint.nodes[n].type = "Row" /\ FormatOK(endpoint)
    BY <1>2, ScanFacts DEF Typed
  <2>2. RowLoopRun(endpoint, endpoint.nodes[n], q.row) = RowText(endpoint, q.row)
    BY <1>2, RowTextIs
  <2>3. /\ DOMAIN c = ReqFields
        /\ c.scan = q.scan /\ c.rows = q.rows /\ c.left = q.left
        /\ c.row = q.row /\ c.failed = q.failed /\ c.result = 200
        /\ c.stack = q.stack
        /\ c.page = q.page \o RowLoopRun(endpoint, endpoint.nodes[n], q.row)
    BY <1>2, <2>1, RowNodeCalled
  <2> QED
    BY <2>2, <2>3
<1> QED
  BY <1>1, <1>2

LEMMA ShortStacks ==
    ASSUME NEW a, NEW b
    PROVE  /\ Len(<<a>>) = 1 /\ <<a>>[1] = a
           /\ Len(<<a, b>>) = 2 /\ <<a, b>>[2] = b
           /\ Front(<<a>>) = << >> /\ Front(<<a, b>>) = <<a>>
<1>1. Len(<<a>>) = 1 /\ <<a>>[1] = a
  OBVIOUS
<1>2. Len(<<a, b>>) = 2 /\ <<a, b>>[2] = b
  OBVIOUS
<1>3. Front(<<a>>) = << >>
  <2>1. Front(<<a>>) = SubSeq(<<a>>, 1, 0)
    BY DEF Front
  <2> QED
    BY <2>1
<1>4. Front(<<a, b>>) = <<a>>
  <2>1. Front(<<a, b>>) = SubSeq(<<a, b>>, 1, 1)
    BY DEF Front
  <2> DEFINE S == {a, b}
             s == <<a, b>>
             t == <<a>>
  <2>2. s \in Seq(S) /\ Len(s) = 2 /\ s[1] = a /\ t \in Seq(S) /\ Len(t) = 1 /\ t[1] = a
    OBVIOUS
  <2> HIDE DEF s, t, S
  <2>3. /\ SubSeq(s, 1, 1) \in Seq(S) /\ Len(SubSeq(s, 1, 1)) = 1
        /\ SubSeq(s, 1, 1)[1] = a
    BY <2>2
  <2>4. \A i \in 1..1 : SubSeq(s, 1, 1)[i] = t[i]
    BY <2>2, <2>3
  <2>5. SubSeq(s, 1, 1) = t
    BY <2>2, <2>3, <2>4, SeqEqual
  <2> QED
    BY <2>1, <2>5 DEF s, t
<1> QED
  BY <1>1, <1>2, <1>3, <1>4

LEMMA TopIsSet ==
    ASSUME NEW a, NEW b, NEW c
    PROVE  [<<a>> EXCEPT ![1] = c] = <<c>> /\ [<<a, b>> EXCEPT ![2] = c] = <<a, c>>
  OBVIOUS

\* The loop that runs next is the one that the page says.
LEMMA MainRuns ==
    ASSUME NEW b \in BOOLEAN, req.stack = <<MainFrame(b)>>
    PROVE  /\ Top = MainFrame(b) /\ TopNode = MainOf(endpoint)
           /\ Len(req.stack) = 1 /\ Front(req.stack) = << >>
<1>1. Top = MainFrame(b) /\ Len(req.stack) = 1 /\ Front(req.stack) = << >>
  BY ShortStacks DEF Top
<1>2. Top.node = "_main"
  BY <1>1 DEF MainFrame, Frame
<1> QED
  BY <1>1, <1>2 DEF TopNode, MainOf

LEMMA ScanRuns ==
    ASSUME AtScan(endpoint, req)
    PROVE  /\ req.stack = <<MainFrame(TRUE), Top>> /\ TopNode = CoreOf(endpoint)
           /\ Top \in Frames(endpoint.nodes) /\ Top.node = MainOf(endpoint).core
           /\ Len(req.stack) = 2 /\ Front(req.stack) = <<MainFrame(TRUE)>>
           /\ AtRow(endpoint, req, Top)
<1>1. PICK frame \in Frames(endpoint.nodes) :
         /\ req.stack = <<MainFrame(TRUE), frame>> /\ frame.node = MainOf(endpoint).core
         /\ AtRow(endpoint, req, frame)
  BY DEF AtScan
<1>2. Top = frame /\ Len(req.stack) = 2 /\ Front(req.stack) = <<MainFrame(TRUE)>>
  <2> DEFINE main == MainFrame(TRUE)
  <2>1. req.stack = <<main, frame>>
    BY <1>1
  <2> HIDE DEF main
  <2>2. Len(req.stack) = 2 /\ req.stack[2] = frame /\ Front(req.stack) = <<main>>
    <3>1. /\ Len(<<main, frame>>) = 2 /\ <<main, frame>>[2] = frame
          /\ Front(<<main, frame>>) = <<main>>
      BY ShortStacks, Zenon
    <3> QED
      BY <2>1, <3>1, Zenon
  <2> QED
    BY <2>2 DEF Top, main
<1> QED
  BY <1>1, <1>2 DEF TopNode, CoreOf


\* MainLoop::Run() begins the core
LEMMA MainCoreOK ==
    ASSUME Typed, phase = "serving", req.state = "run", RunOK(req, endpoint.nodes),
           req.scan \in BOOLEAN, AtOpening(endpoint, req), mainCore
    PROVE  PageOK'
<1> DEFINE frame == [Top EXCEPT !.begun = TRUE]
           q == SetTop(req, frame)
           c == Call(q, MainOf(endpoint).core)
<1>1. req.stack = <<MainFrame(FALSE)>> /\ Begun(req) /\ req.page = Opening(endpoint)
  BY DEF AtOpening
<1>2. Top = MainFrame(FALSE) /\ TopNode = MainOf(endpoint) /\ Len(req.stack) = 1
  BY <1>1, MainRuns
<1>3. DOMAIN req = ReqFields /\ req.row \in Nat
  BY DEF RunOK, Counted
<1>4. frame = MainFrame(TRUE)
  <2>1. [MainFrame(FALSE) EXCEPT !.begun = TRUE] = MainFrame(TRUE)
    BY DEF MainFrame
  <2> QED
    BY <1>2, <2>1
<1>5. Step(c)
  BY <1>2 DEF mainCore
<1> HIDE DEF frame
<1>6. /\ DOMAIN q = ReqFields /\ q.stack = [req.stack EXCEPT ![1] = frame]
      /\ q.scan = req.scan /\ q.rows = req.rows /\ q.left = req.left /\ q.row = req.row
      /\ q.failed = req.failed /\ q.page = req.page /\ q.result = req.result
  <2>1. /\ DOMAIN q = ReqFields /\ q.stack = [req.stack EXCEPT ![Len(req.stack)] = frame]
        /\ q.scan = req.scan /\ q.rows = req.rows /\ q.left = req.left /\ q.row = req.row
        /\ q.failed = req.failed /\ q.page = req.page /\ q.result = req.result
    BY <1>3, SetTopIs
  <2> HIDE DEF q
  <2> QED
    BY <1>2, <2>1
<1>7. q.stack = <<MainFrame(TRUE)>>
  <2>1. [<<MainFrame(FALSE)>> EXCEPT ![1] = frame] = <<frame>>
    BY TopIsSet, Zenon
  <2> QED
    BY <1>1, <1>4, <1>6, <2>1
<1> HIDE DEF q
<1>8. Begun(q)
  BY <1>1, <1>6 DEF Begun
<1>9. DOMAIN c = ReqFields /\ c.scan = q.scan /\ c.row = q.row /\ OnThePage(endpoint, c)
  BY <1>1, <1>3, <1>6, <1>7, <1>8, CoreIsCalled
<1> HIDE DEF c
<1> QED
  BY <1>3, <1>5, <1>6, <1>9, StepServes

\* MainLoop::Run() writes its closing text
LEMMA MainEndOK ==
    ASSUME Typed, phase = "serving", req.state = "run", RunOK(req, endpoint.nodes),
           req.scan \in BOOLEAN, AtClosing(endpoint, req), mainEnd
    PROVE  PageOK'
<1> DEFINE end == Each(Literal, MainOf(endpoint).end.cells)
           r == Return(req)
           w == Write(r, end)
<1>1. /\ req.stack = <<MainFrame(TRUE)>> /\ req.page \in Seq(Pieces)
      /\ Fits(endpoint, req.scan)
           => Ended(req) /\ req.page = Opening(endpoint) \o CorePage(endpoint, req.row, req.scan)
  BY DEF AtClosing
<1>2. TopNode = MainOf(endpoint) /\ Front(req.stack) = << >>
  BY <1>1, MainRuns
<1>3. DOMAIN req = ReqFields /\ req.row \in Nat
  BY DEF RunOK, Counted
<1>4. Step(w)
  BY <1>2 DEF mainEnd
<1>5. end \in Seq(Pieces)
  BY MainFacts, LiteralsOut
<1> HIDE DEF end
<1>6. /\ DOMAIN r = ReqFields /\ r.stack = << >>
      /\ r.scan = req.scan /\ r.rows = req.rows /\ r.row = req.row
      /\ r.failed = req.failed /\ r.page = req.page /\ r.result = req.result
  BY <1>2, <1>3, ReturnIs
<1> HIDE DEF r
<1>7. /\ DOMAIN w = ReqFields /\ w.stack = << >>
      /\ w.scan = req.scan /\ w.rows = req.rows /\ w.row = req.row
      /\ w.failed = req.failed /\ w.page = req.page \o end /\ w.result = req.result
  <2>1. /\ DOMAIN w = ReqFields /\ w.stack = r.stack
        /\ w.scan = r.scan /\ w.rows = r.rows /\ w.row = r.row
        /\ w.failed = r.failed /\ w.page = r.page \o end /\ w.result = r.result
    BY <1>6, WriteIs
  <2> HIDE DEF w
  <2> QED
    BY <1>6, <2>1
<1> HIDE DEF w
<1>8. w.page \in Seq(Pieces)
  BY <1>1, <1>5, <1>7, PiecesConcat
<1>9. Page(endpoint, req.row, req.scan)
        = (Opening(endpoint) \o CorePage(endpoint, req.row, req.scan)) \o end
  BY DEF Page, Opening, CorePage, CoreOf, MainOf, end
<1>10. Fits(endpoint, w.scan) => Ended(w) /\ w.page = Page(endpoint, w.row, w.scan)
  <2>1. Ended(req) => Ended(w)
    BY <1>7 DEF Ended
  <2> QED
    BY <1>1, <1>7, <1>9, <2>1
<1>11. AtEnd(endpoint, w)
  BY <1>7, <1>8, <1>10 DEF AtEnd
<1> QED
  BY <1>3, <1>4, <1>7, <1>11, StepServes

LEMMA SetScanTop ==
    ASSUME RunOK(req, endpoint.nodes), NEW q, DOMAIN q = ReqFields, q.stack = req.stack,
           AtScan(endpoint, req), NEW frame
    PROVE  LET w == SetTop(q, frame)
           IN /\ DOMAIN w = ReqFields /\ w.stack = <<MainFrame(TRUE), frame>>
              /\ w.scan = q.scan /\ w.rows = q.rows /\ w.left = q.left /\ w.row = q.row
              /\ w.failed = q.failed /\ w.page = q.page /\ w.result = q.result
<1> DEFINE w == SetTop(q, frame)
           main == MainFrame(TRUE)
           top == Top
<1>1. /\ DOMAIN w = ReqFields /\ w.stack = [q.stack EXCEPT ![Len(q.stack)] = frame]
      /\ w.scan = q.scan /\ w.rows = q.rows /\ w.left = q.left /\ w.row = q.row
      /\ w.failed = q.failed /\ w.page = q.page /\ w.result = q.result
  BY SetTopIs
<1>2. req.stack = <<main, top>> /\ Len(req.stack) = 2
  BY ScanRuns
<1> HIDE DEF w, main, top
<1>3. w.stack = [<<main, top>> EXCEPT ![2] = frame]
  BY <1>1, <1>2
<1>4. [<<main, top>> EXCEPT ![2] = frame] = <<main, frame>>
  OBVIOUS
<1> QED
  BY <1>1, <1>3, <1>4 DEF w, main

\* the row of an operation that is no scan
LEMMA SingleCoreOK ==
    ASSUME Typed, phase = "serving", req.state = "run", RunOK(req, endpoint.nodes),
           req.scan \in BOOLEAN, AtScan(endpoint, req), singleCore
    PROVE  PageOK'
<1> DEFINE frame == [Top EXCEPT !.begun = TRUE]
           q == SetTop(req, frame)
           c == Call(q, CoreOf(endpoint).core)
<1>1. /\ TopNode = CoreOf(endpoint) /\ Top \in Frames(endpoint.nodes)
      /\ Top.node = MainOf(endpoint).core /\ AtRow(endpoint, req, Top)
  BY ScanRuns
<1>2. DOMAIN req = ReqFields /\ req.row \in Nat /\ req.scan = FALSE /\ Top.begun = FALSE
  BY <1>1 DEF RunOK, Counted, singleCore, Frames
<1>3. /\ Begun(req) /\ req.page = Opening(endpoint) /\ req.row = 1
      /\ MainOf(endpoint).core # None /\ CoreOf(endpoint).type = "Scan"
  BY <1>1, <1>2 DEF AtRow, AtScan, Begun
<1>4. /\ frame \in Frames(endpoint.nodes) /\ frame.node = MainOf(endpoint).core
      /\ frame.begun = TRUE
  BY <1>1 DEF Frames
<1>5. Step(c)
  BY <1>1 DEF singleCore
<1> HIDE DEF frame
<1>6. /\ DOMAIN q = ReqFields /\ q.stack = <<MainFrame(TRUE), frame>>
      /\ q.scan = req.scan /\ q.rows = req.rows /\ q.left = req.left /\ q.row = req.row
      /\ q.failed = req.failed /\ q.page = req.page /\ q.result = req.result
  BY <1>2, SetScanTop
<1> HIDE DEF q
<1>7. q.row \in Nat /\ q.page \in Seq(Pieces)
  BY <1>2, <1>3, <1>6, MainFacts
<1>8. /\ DOMAIN c = ReqFields /\ c.stack = q.stack
      /\ c.scan = q.scan /\ c.rows = q.rows /\ c.left = q.left
      /\ c.row = q.row /\ c.failed = q.failed /\ c.result \in {200, q.result}
      /\ c.page = q.page \o RowText(endpoint, q.row)
  BY <1>3, <1>6, <1>7, RowIsCalled
<1> HIDE DEF c
<1>9. Begun(c)
  BY <1>3, <1>6, <1>8 DEF Begun
<1>10. AtRow(endpoint, c, frame)
  BY <1>2, <1>3, <1>4, <1>6, <1>8, <1>9 DEF AtRow
<1>11. AtScan(endpoint, c)
  BY <1>3, <1>4, <1>6, <1>8, <1>10 DEF AtScan
<1> QED
  BY <1>2, <1>5, <1>6, <1>8, <1>11, StepServes DEF OnThePage

LEMMA SingleEndOK ==
    ASSUME Typed, phase = "serving", req.state = "run", RunOK(req, endpoint.nodes),
           req.scan \in BOOLEAN, AtScan(endpoint, req), singleEnd
    PROVE  PageOK'
<1> DEFINE w == Return(req)
<1>1. Front(req.stack) = <<MainFrame(TRUE)>> /\ AtRow(endpoint, req, Top)
  BY ScanRuns
<1>2. DOMAIN req = ReqFields /\ req.row \in Nat /\ req.scan = FALSE /\ Top.begun
      /\ MainOf(endpoint).core # None /\ CoreOf(endpoint).type = "Scan"
  BY DEF RunOK, Counted, singleEnd, AtScan
<1>3. Begun(req) /\ req.page = Opening(endpoint) \o RowText(endpoint, 1)
  BY <1>1, <1>2 DEF AtRow
<1>4. req.row = 1 /\ req.rows = 1 /\ req.result = 200
  BY <1>2, <1>3 DEF Begun
<1>5. /\ DOMAIN w = ReqFields /\ w.stack = <<MainFrame(TRUE)>>
      /\ w.scan = req.scan /\ w.rows = req.rows /\ w.row = req.row
      /\ w.failed = req.failed /\ w.page = req.page /\ w.result = req.result
  BY <1>1, <1>2, ReturnIs
<1>6. Step(w)
  BY DEF singleEnd
<1> HIDE DEF w
<1>7. Opening(endpoint) \in Seq(Pieces) /\ RowText(endpoint, 1) \in Seq(Pieces)
  BY <1>2, MainFacts, RowTextIs
<1>8. w.page \in Seq(Pieces)
  BY <1>3, <1>5, <1>7, PiecesConcat
<1>9. CorePage(endpoint, w.row, w.scan) = RowText(endpoint, 1)
  <2>1. CorePage(endpoint, w.row, w.scan) = RowsPage(endpoint, CoreOf(endpoint), 1, FALSE)
    BY <1>2, <1>4, <1>5 DEF CorePage
  <2> QED
    BY <1>2, <2>1 DEF RowsPage, RowText
<1>10. Ended(w)
  BY <1>4, <1>5 DEF Ended
<1>11. w.page = Opening(endpoint) \o CorePage(endpoint, w.row, w.scan)
  BY <1>3, <1>5, <1>9
<1>12. AtClosing(endpoint, w)
  BY <1>5, <1>8, <1>10, <1>11 DEF AtClosing
<1> QED
  BY <1>2, <1>5, <1>6, <1>12, StepServes DEF OnThePage

\* One more row of a scan, from the cache or from a new batch.
LEMMA RowOK ==
    ASSUME Typed, phase = "serving", req.state = "run", RunOK(req, endpoint.nodes),
           req.scan = TRUE, AtScan(endpoint, req), NEW b \in Nat, b < req.left,
           Step(scanBody([req EXCEPT !.cached = b]))
    PROVE  PageOK'
<1> DEFINE q == [req EXCEPT !.cached = b]
           core == CoreOf(endpoint)
           frame == [Top EXCEPT !.nrows = Top.nrows + 1, !.more = TRUE]
           text == IF Top.nrows # 0 THEN Each(Literal, TopNode.sep)
                                    ELSE Each(Literal, Chain(TopNode.begin))
           shown == IF req.row # 0 THEN Each(Literal, core.sep) ELSE Each(Literal, core.begin.cells)
<1>1. /\ TopNode = core /\ Top \in Frames(endpoint.nodes)
      /\ Top.node = MainOf(endpoint).core /\ AtRow(endpoint, req, Top)
      /\ MainOf(endpoint).core # None /\ core.type = "Scan"
  BY ScanRuns DEF AtScan
<1>2. DOMAIN req = ReqFields /\ req.row \in Nat /\ req.left \in Nat /\ req.rows \in Nat
  BY DEF RunOK, Counted
<1>3. /\ Top.nrows = req.row /\ req.failed = FALSE /\ req.row + req.left = req.rows
      /\ req.page = Opening(endpoint) \o RowsSoFar(endpoint, req.row)
  BY <1>1 DEF AtRow
<1>4. text = shown
  <2>1. Chain(core.begin) = core.begin.cells
    BY <1>1, ScanFacts, ChainIsCells DEF Typed
  <2> QED
    BY <1>1, <1>3, <2>1
<1>5. /\ DOMAIN q = ReqFields /\ q.row = req.row /\ q.left = req.left /\ q.stack = req.stack
      /\ q.scan = req.scan /\ q.rows = req.rows /\ q.failed = req.failed
      /\ q.page = req.page
  BY <1>2 DEF ReqFields
<1> HIDE DEF q
<1>6. PICK next : /\ DOMAIN next = ReqFields
                  /\ next.row = q.row + 1 /\ next.left = q.left - 1
                  /\ next.state = q.state /\ next.scan = q.scan /\ next.rows = q.rows
                  /\ next.cached = q.cached /\ next.failed = q.failed
                  /\ next.stack = q.stack /\ next.page = q.page /\ next.result = q.result
                  /\ scanBody(q) = Call(Write(SetTop(next, frame), text), TopNode.core)
  BY <1>5, BodyIs
<1>7. /\ frame \in Frames(endpoint.nodes) /\ frame.node = MainOf(endpoint).core
      /\ frame.nrows = req.row + 1
  <2>1. Top.nrows + 1 \in Nat
    BY <1>2, <1>3
  <2> QED
    BY <1>1, <1>3, <2>1 DEF Frames
<1> HIDE DEF frame, text, shown, core
<1> DEFINE s == SetTop(next, frame)
           w == Write(s, text)
           c == Call(w, CoreOf(endpoint).core)
<1>8. /\ DOMAIN s = ReqFields /\ s.stack = <<MainFrame(TRUE), frame>>
      /\ s.scan = next.scan /\ s.rows = next.rows /\ s.left = next.left /\ s.row = next.row
      /\ s.failed = next.failed /\ s.page = next.page
  BY <1>5, <1>6, SetScanTop
<1> HIDE DEF s
<1>9. /\ DOMAIN w = ReqFields /\ w.stack = s.stack
      /\ w.scan = s.scan /\ w.rows = s.rows /\ w.left = s.left /\ w.row = s.row
      /\ w.failed = s.failed /\ w.page = s.page \o text
  BY <1>8, WriteIs
<1> HIDE DEF w
<1>10. /\ w.stack = <<MainFrame(TRUE), frame>> /\ w.scan = TRUE /\ w.rows = req.rows
       /\ w.left = req.left - 1 /\ w.row = req.row + 1 /\ w.failed = FALSE
       /\ w.page = req.page \o shown
  BY <1>3, <1>4, <1>5, <1>6, <1>8, <1>9
<1>11. /\ RowsSoFar(endpoint, req.row) \in Seq(Pieces) /\ shown \in Seq(Pieces)
       /\ RowsSoFar(endpoint, req.row + 1)
            = (RowsSoFar(endpoint, req.row) \o shown) \o RowText(endpoint, req.row + 1)
  <2>1. MainOf(endpoint).core # None /\ CoreOf(endpoint).type = "Scan"
    BY <1>1 DEF core
  <2> QED
    BY <1>2, <2>1, RowsSoFarIs DEF shown, core
<1>12. RowText(endpoint, req.row + 1) \in Seq(Pieces) /\ Opening(endpoint) \in Seq(Pieces)
       /\ req.row + 1 \in Nat
  <2>1. req.row + 1 \in Nat
    BY <1>2
  <2>2. MainOf(endpoint).core # None /\ CoreOf(endpoint).type = "Scan"
    BY <1>1 DEF core
  <2>3. RowText(endpoint, req.row + 1) \in Seq(Pieces)
    BY <2>1, <2>2, RowTextIs
  <2> QED
    BY <2>1, <2>3, MainFacts
<1>13. w.page \in Seq(Pieces)
  <2>1. req.page \in Seq(Pieces)
    BY <1>3, <1>11, <1>12, PiecesConcat
  <2> QED
    BY <1>10, <1>11, <2>1, PiecesConcat
<1>14. /\ DOMAIN c = ReqFields /\ c.stack = w.stack
       /\ c.scan = w.scan /\ c.rows = w.rows /\ c.left = w.left
       /\ c.row = w.row /\ c.failed = w.failed
       /\ c.page = w.page \o RowText(endpoint, w.row)
  <2>1. MainOf(endpoint).core # None /\ CoreOf(endpoint).type = "Scan"
    BY <1>1 DEF core
  <2>2. w.row \in Nat /\ DOMAIN w = ReqFields
    BY <1>9, <1>10, <1>12
  <2> QED
    BY <1>13, <2>1, <2>2, RowIsCalled
<1>15. Step(c)
  <2>1. Step(scanBody(q))
    BY DEF q
  <2> QED
    BY <1>1, <1>6, <2>1 DEF s, w, core
<1> HIDE DEF c
<1>16. c.page = Opening(endpoint) \o RowsSoFar(endpoint, req.row + 1)
  <2> DEFINE x == Opening(endpoint)
             y == RowsSoFar(endpoint, req.row)
             z == RowText(endpoint, req.row + 1)
  <2>1. x \in Seq(Pieces) /\ y \in Seq(Pieces) /\ shown \in Seq(Pieces) /\ z \in Seq(Pieces)
    BY <1>11, <1>12
  <2>2. /\ c.page = ((x \o y) \o shown) \o z
        /\ x \o RowsSoFar(endpoint, req.row + 1) = x \o ((y \o shown) \o z)
    BY <1>3, <1>10, <1>11, <1>14
  <2> HIDE DEF x, y, z
  <2>3. y \o shown \in Seq(Pieces)
    BY <2>1, PiecesConcat
  <2>4. (x \o y) \o shown = x \o (y \o shown)
    BY <2>1, PiecesAssociative
  <2>5. (x \o (y \o shown)) \o z = x \o ((y \o shown) \o z)
    BY <2>1, <2>3, PiecesAssociative
  <2> QED
    BY <2>2, <2>4, <2>5 DEF x
<1>17. AtRow(endpoint, c, frame)
  <2>1. c.row + c.left = c.rows
    <3>1. c.row = req.row + 1 /\ c.left = req.left - 1 /\ c.rows = req.rows
      BY <1>10, <1>14
    <3>2. (req.row + 1) + (req.left - 1) = req.rows
      BY <1>2, <1>3
    <3> QED
      BY <3>1, <3>2
  <2> QED
    BY <1>7, <1>10, <1>14, <1>16, <2>1 DEF AtRow
<1>18. AtScan(endpoint, c)
  BY <1>1, <1>7, <1>10, <1>14, <1>17 DEF AtScan, core
<1>19. c.row \in Nat /\ c.scan \in BOOLEAN
  BY <1>10, <1>12, <1>14
<1> QED
  BY <1>14, <1>15, <1>18, <1>19, StepServes DEF OnThePage

LEMMA CacheEmptyOK ==
    ASSUME Typed, phase = "serving", req.state = "run", RunOK(req, endpoint.nodes),
           req.scan = TRUE, AtScan(endpoint, req), cacheEmpty
    PROVE  PageOK'
<1> DEFINE frame == [Top EXCEPT !.more = FALSE]
           w == SetTop(req, frame)
<1>1. /\ Top \in Frames(endpoint.nodes) /\ Top.node = MainOf(endpoint).core
      /\ AtRow(endpoint, req, Top)
      /\ MainOf(endpoint).core # None /\ CoreOf(endpoint).type = "Scan"
  BY ScanRuns DEF AtScan
<1>2. DOMAIN req = ReqFields /\ req.row \in Nat
  BY DEF RunOK, Counted
<1>3. /\ Top.nrows = req.row /\ req.failed = FALSE /\ req.row + req.left = req.rows
      /\ req.page = Opening(endpoint) \o RowsSoFar(endpoint, req.row)
  BY <1>1 DEF AtRow
<1>4. /\ frame \in Frames(endpoint.nodes) /\ frame.node = MainOf(endpoint).core
      /\ frame.nrows = req.row
  BY <1>1, <1>3 DEF Frames
<1>5. Step(w)
  BY DEF cacheEmpty
<1> HIDE DEF frame
<1>6. /\ DOMAIN w = ReqFields /\ w.stack = <<MainFrame(TRUE), frame>>
      /\ w.scan = req.scan /\ w.rows = req.rows /\ w.left = req.left /\ w.row = req.row
      /\ w.failed = req.failed /\ w.page = req.page
  BY <1>2, SetScanTop
<1> HIDE DEF w
<1>7. AtRow(endpoint, w, frame)
  BY <1>3, <1>4, <1>6 DEF AtRow
<1>8. AtScan(endpoint, w)
  BY <1>1, <1>4, <1>6, <1>7 DEF AtScan
<1> QED
  BY <1>2, <1>5, <1>6, <1>8, StepServes DEF OnThePage

\* what a scan of n rows has written when it returns
LEMMA CorePageIs ==
    ASSUME Typed, MainOf(endpoint).core # None, CoreOf(endpoint).type = "Scan", NEW n \in Nat
    PROVE  CorePage(endpoint, n, TRUE)
             = RowsSoFar(endpoint, n)
               \o (IF n = 0 THEN << >> ELSE Each(Literal, CoreOf(endpoint).end.cells))
<1> DEFINE core == CoreOf(endpoint)
           row(r) == IF core.core = None THEN << >>
                     ELSE RowPage(endpoint, endpoint.nodes[core.core], r)
<1>1. CorePage(endpoint, n, TRUE) = RowsPage(endpoint, core, n, TRUE)
  BY DEF CorePage
<1>2. CASE n = 0
  <2>1. RowsPage(endpoint, core, n, TRUE) = << >>
    BY <1>2 DEF RowsPage
  <2> QED
    BY <1>1, <1>2, <2>1, EmptySeq, PiecesConcat DEF RowsSoFar
<1>3. CASE n # 0
  <2>1. RowsPage(endpoint, core, n, TRUE)
          = Each(Literal, core.begin.cells) \o Join([r \in 1..n |-> row(r)], core.sep)
            \o Each(Literal, core.end.cells)
    BY <1>3 DEF RowsPage
  <2>2. [r \in 1..n |-> row(r)] = [r \in 1..n |-> RowText(endpoint, r)]
    BY DEF RowText
  <2>3. RowsSoFar(endpoint, n)
          = Each(Literal, core.begin.cells) \o Join([r \in 1..n |-> RowText(endpoint, r)], core.sep)
    BY <1>3 DEF RowsSoFar
  <2> QED
    BY <1>1, <1>3, <2>1, <2>2, <2>3
<1> QED
  BY <1>2, <1>3

\* ScanLoop::Run() returns, at the end of the rows or when fetching fails
LEMMA ScanReturnOK ==
    ASSUME Typed, phase = "serving", req.state = "run", RunOK(req, endpoint.nodes),
           req.scan = TRUE, AtScan(endpoint, req),
           NEW q, DOMAIN q = ReqFields, q.scan = TRUE, q.row = req.row, q.rows = req.rows,
           q.stack = req.stack, q.page = req.page, q.failed \/ q.row = q.rows,
           Step(scanReturn(q))
    PROVE  PageOK'
<1> DEFINE core == CoreOf(endpoint)
           text == IF Top.nrows = 0 THEN << >> ELSE Each(Literal, Chain(TopNode.end))
           shown == IF req.row = 0 THEN << >> ELSE Each(Literal, core.end.cells)
           result == IF Top.nrows = 0 THEN 404 ELSE 200
           r == Return(q)
           w == Write(r, text)
           c == [w EXCEPT !.result = result]
<1>1. /\ TopNode = core /\ AtRow(endpoint, req, Top)
      /\ MainOf(endpoint).core # None /\ CoreOf(endpoint).type = "Scan"
      /\ Front(req.stack) = <<MainFrame(TRUE)>>
  BY ScanRuns DEF AtScan
<1>2. req.row \in Nat
  BY DEF RunOK, Counted
<1>3. Top.nrows = req.row /\ req.page = Opening(endpoint) \o RowsSoFar(endpoint, req.row)
  BY <1>1 DEF AtRow
<1>4. text = shown /\ shown \in Seq(Pieces)
  <2>1. Chain(core.end) = core.end.cells /\ core.end.cells \in Seq(Tokens)
    BY <1>1, ScanFacts, ChainIsCells DEF Typed
  <2>2. Each(Literal, core.end.cells) \in Seq(Pieces)
    BY <2>1, LiteralsOut
  <2> QED
    BY <1>1, <1>3, <2>1, <2>2, EmptySeq
<1>5. result = IF req.row = 0 THEN 404 ELSE 200
  BY <1>3
<1>6. Step(c)
  <2>1. scanReturn(q) = c
    BY DEF scanReturn
  <2> QED
    BY <2>1
<1> HIDE DEF text, shown, core, result
<1>7. /\ DOMAIN r = ReqFields /\ r.stack = <<MainFrame(TRUE)>> /\ r.page = req.page
      /\ r.scan = TRUE /\ r.rows = q.rows /\ r.row = req.row /\ r.failed = q.failed
  BY <1>1, ReturnIs
<1> HIDE DEF r
<1>8. /\ DOMAIN w = ReqFields /\ w.stack = r.stack /\ w.page = r.page \o text
      /\ w.scan = r.scan /\ w.rows = r.rows /\ w.row = r.row /\ w.failed = r.failed
  BY <1>7, WriteIs
<1> HIDE DEF w
<1>9. /\ DOMAIN c = ReqFields /\ c.stack = w.stack /\ c.page = w.page /\ c.result = result
      /\ c.scan = w.scan /\ c.rows = w.rows /\ c.row = w.row /\ c.failed = w.failed
  BY <1>8 DEF ReqFields
<1> HIDE DEF c
<1>10. /\ c.stack = <<MainFrame(TRUE)>> /\ c.page = req.page \o shown /\ c.result = result
       /\ c.scan = TRUE /\ c.rows = q.rows /\ c.row = req.row /\ c.failed = q.failed
  BY <1>4, <1>7, <1>8, <1>9
<1>11. Ended(c)
  BY <1>5, <1>10 DEF Ended
<1> DEFINE x == Opening(endpoint)
           y == RowsSoFar(endpoint, req.row)
<1>12. x \in Seq(Pieces) /\ y \in Seq(Pieces)
  BY <1>1, <1>2, MainFacts, RowsSoFarIs
<1>13. CorePage(endpoint, c.row, c.scan) = y \o shown
  BY <1>1, <1>2, <1>10, CorePageIs DEF shown, core
<1>14. c.page = (x \o y) \o shown
  BY <1>3, <1>10
<1> HIDE DEF x, y
<1>15. (x \o y) \o shown = x \o (y \o shown) /\ (x \o y) \o shown \in Seq(Pieces)
  <2>1. x \o y \in Seq(Pieces)
    BY <1>12, PiecesConcat
  <2>2. (x \o y) \o shown = x \o (y \o shown)
    BY <1>4, <1>12, PiecesAssociative
  <2>3. (x \o y) \o shown \in Seq(Pieces)
    BY <1>4, <2>1, PiecesConcat
  <2> QED
    BY <2>2, <2>3
<1>16. c.page \in Seq(Pieces)
       /\ c.page = Opening(endpoint) \o CorePage(endpoint, c.row, c.scan)
  BY <1>13, <1>14, <1>15 DEF x
<1>17. AtClosing(endpoint, c)
  BY <1>10, <1>11, <1>16 DEF AtClosing
<1>18. DOMAIN c = ReqFields /\ c.scan \in BOOLEAN /\ c.row \in Nat
  BY <1>2, <1>8, <1>9, <1>10
<1> QED
  BY <1>6, <1>17, <1>18, StepServes DEF OnThePage

LEMMA WhichLoop ==
    ASSUME Typed, RunOK(req, endpoint.nodes), OnThePage(endpoint, req)
    PROVE  /\ TopNode.type = "Format" /\ ~Top.begun => AtOpening(endpoint, req)
           /\ TopNode.type = "Format" /\ Top.begun => AtClosing(endpoint, req)
           /\ TopNode.type = "Scan" => AtScan(endpoint, req)
<1>1. CASE AtOpening(endpoint, req)
  <2>1. Top = MainFrame(FALSE) /\ TopNode = MainOf(endpoint)
    BY <1>1, MainRuns DEF AtOpening
  <2>2. Top.begun = FALSE
    BY <2>1 DEF MainFrame, Frame
  <2> QED
    BY <1>1, <2>1, <2>2, MainFacts
<1>2. CASE AtClosing(endpoint, req)
  <2>1. Top = MainFrame(TRUE) /\ TopNode = MainOf(endpoint)
    BY <1>2, MainRuns DEF AtClosing
  <2>2. Top.begun = TRUE
    BY <2>1 DEF MainFrame, Frame
  <2> QED
    BY <1>2, <2>1, <2>2, MainFacts
<1>3. CASE AtScan(endpoint, req)
  BY <1>3, ScanRuns DEF AtScan
<1> QED
  BY <1>1, <1>2, <1>3 DEF OnThePage

\* build_results() opens the page
LEMMA BuildOK ==
    ASSUME FormatOK(endpoint), WellTyped(endpoint), spill = << >>, build_results
    PROVE  PageOK'
<1>1. PICK isScan \in BOOLEAN, rows \in 0..MaxRows :
         /\ phase = "serving" /\ (~isScan => rows = 1)
         /\ LET q == Operation(isScan, rows)
            IN \/ /\ endpoint.raw
                  /\ \E blob \in BOOLEAN :
                        Step(IF blob THEN Write(q, <<Piece("value", 1, 1)>>)
                                     ELSE [q EXCEPT !.result = 500])
               \/ ~endpoint.raw /\ endpoint.top = "uncompiled" /\ Step(q)
               \/ ~endpoint.raw /\ endpoint.top = "_main" /\ Step(Call(q, "_main"))
  BY DEF build_results
<1> DEFINE q == Operation(isScan, rows)
<1>2. /\ DOMAIN q = ReqFields /\ q.stack = << >> /\ q.page = << >> /\ q.scan = isScan
      /\ q.rows = rows /\ q.left = (IF isScan THEN rows ELSE 0)
      /\ q.row = (IF isScan THEN 0 ELSE 1) /\ q.failed = FALSE /\ q.result = 200
  BY DEF Operation, ReqFields
<1>3. /\ \/ endpoint.raw /\ \E blob \in BOOLEAN :
                               Step(IF blob THEN Write(q, <<Piece("value", 1, 1)>>)
                                            ELSE [q EXCEPT !.result = 500])
         \/ ~endpoint.raw /\ endpoint.top = "uncompiled" /\ Step(q)
         \/ ~endpoint.raw /\ endpoint.top = "_main" /\ Step(Call(q, "_main"))
      /\ rows \in Nat /\ (~isScan => rows = 1) /\ phase = "serving"
  BY <1>1, FormatsAssumption
<1> HIDE DEF q
<1>4. ASSUME NEW w, DOMAIN w = ReqFields, w.stack = << >>, w.page \in Seq(Pieces),
             w.scan = isScan, endpoint.top # "_main", Step(w)
      PROVE  PageOK'
  <2>1. Len(w.stack) = 0 /\ Cardinality(DOMAIN endpoint.nodes) \in Nat /\ MaxRows \in Nat
    BY <1>4, FS_CardinalityType, FormatsAssumption DEF FormatOK
  <2>2. ~(Len(w.stack) > Cardinality(DOMAIN endpoint.nodes) + MaxRows)
    BY <2>1
  <2>3. /\ req'.scan = w.scan /\ req'.state = "done" /\ phase' = phase /\ endpoint' = endpoint
    BY <1>4, <2>2, StepLives
  <2> QED
    BY <1>1, <1>3, <1>4, <2>3 DEF PageOK
<1>5. CASE endpoint.raw
  <2>1. endpoint.top # "_main"
    BY <1>5 DEF FormatOK
  <2>2. PICK blob \in BOOLEAN : Step(IF blob THEN Write(q, <<Piece("value", 1, 1)>>)
                                             ELSE [q EXCEPT !.result = 500])
    BY <1>3, <1>5
  <2>3. CASE blob
    <3> DEFINE text == <<Piece("value", 1, 1)>>
               w == Write(q, text)
    <3>1. text \in Seq(Pieces)
      BY ColumnPiece, OneIsSeq
    <3>2. Step(w)
      BY <2>2, <2>3
    <3> HIDE DEF text
    <3>3. DOMAIN w = ReqFields /\ w.stack = q.stack /\ w.scan = q.scan
          /\ w.page = q.page \o text
      <4>1. DOMAIN q = ReqFields
        BY <1>2
      <4> QED
        BY <4>1, WriteIs
    <3> HIDE DEF w
    <3>4. w.page \in Seq(Pieces) /\ w.stack = << >> /\ w.scan = isScan
      BY <1>2, <3>1, <3>3, PiecesConcat
    <3> QED
      BY <1>4, <2>1, <3>2, <3>3, <3>4
  <2>4. CASE ~blob
    <3> DEFINE w == [q EXCEPT !.result = 500]
    <3>1. DOMAIN w = ReqFields /\ w.stack = q.stack /\ w.scan = q.scan /\ w.page = q.page
      BY <1>2 DEF ReqFields
    <3>2. Step(w)
      BY <2>2, <2>4
    <3> HIDE DEF w
    <3>3. w.page \in Seq(Pieces) /\ w.stack = << >> /\ w.scan = isScan
      BY <1>2, <3>1, EmptySeq
    <3> QED
      BY <1>4, <2>1, <3>1, <3>2, <3>3
  <2> QED
    BY <2>3, <2>4
<1>6. CASE ~endpoint.raw /\ endpoint.top = "uncompiled" /\ Step(q)
  <2>1. q.page \in Seq(Pieces) /\ endpoint.top # "_main"
    BY <1>2, <1>6, EmptySeq
  <2> QED
    BY <1>2, <1>4, <1>6, <2>1
<1>7. CASE ~endpoint.raw /\ endpoint.top = "_main" /\ Step(Call(q, "_main"))
  <2> DEFINE c == Call(q, "_main")
  <2>1. Typed
    BY <1>7 DEF Typed
  <2>2. /\ "_main" \in DOMAIN endpoint.nodes /\ endpoint.nodes["_main"].type = "Format"
        /\ "_main" # None
    BY <1>7 DEF FormatOK
  <2>3. /\ DOMAIN c = ReqFields
        /\ c.scan = q.scan /\ c.rows = q.rows /\ c.left = q.left /\ c.row = q.row
        /\ c.failed = q.failed /\ c.result = q.result
        /\ c.stack = Append(q.stack, Frame("_main"))
        /\ c.page = q.page \o Each(Literal, endpoint.nodes["_main"].begin.cells)
    BY <1>2, <2>2, CallIs
  <2>4. Step(c)
    BY <1>7
  <2> HIDE DEF c
  <2>5. c.stack = <<MainFrame(FALSE)>>
    <3>1. \A a : Append(<< >>, a) = <<a>>
      OBVIOUS
    <3> QED
      BY <1>2, <2>3, <3>1 DEF MainFrame
  <2>6. c.page = Opening(endpoint)
    <3>1. Opening(endpoint) \in Seq(Pieces)
      BY <2>1, MainFacts
    <3>2. << >> \o Opening(endpoint) = Opening(endpoint)
      BY <3>1, PiecesConcat
    <3> QED
      BY <1>2, <2>3, <3>2 DEF Opening, MainOf
  <2>7. Begun(c)
    <3>1. CASE isScan
      BY <1>2, <1>3, <2>3, <3>1 DEF Begun
    <3>2. CASE ~isScan
      BY <1>2, <1>3, <2>3, <3>2 DEF Begun
    <3> QED
      BY <3>1, <3>2
  <2>8. c.scan \in BOOLEAN /\ c.row \in Nat
    BY <1>2, <2>3
  <2>9. AtOpening(endpoint, c)
    BY <2>5, <2>6, <2>7 DEF AtOpening
  <2> QED
    BY <1>3, <2>1, <2>3, <2>4, <2>8, <2>9, StepServes DEF OnThePage
<1> QED
  BY <1>3, <1>5, <1>6, <1>7

\* The step of a loop, while a page is built.
LEMMA LoopOK ==
    ASSUME ServingOK, PageOK, WellTyped(endpoint), spill = << >>,
           phase = "serving", req.state = "run",
           \/ mainCore \/ mainEnd \/ singleCore \/ singleEnd
           \/ fetchRow \/ cachedRow \/ cacheEmpty \/ scanEnd \/ scanFails
    PROVE  PageOK'
<1>1. FormatOK(endpoint) /\ RunOK(req, endpoint.nodes)
  BY RunningIs
<1>2. /\ endpoint.top = "_main" /\ OnThePage(endpoint, req)
      /\ req.scan \in BOOLEAN
  BY DEF PageOK
<1>3. Typed
  BY <1>1, <1>2 DEF Typed
<1>4. CASE mainCore
  <2>1. TopNode.type = "Format" /\ ~Top.begun
    BY <1>4 DEF mainCore, Running
  <2>2. AtOpening(endpoint, req)
    BY <1>1, <1>2, <1>3, <2>1, WhichLoop
  <2> QED
    BY <1>1, <1>2, <1>3, <1>4, <2>2, MainCoreOK
<1>5. CASE mainEnd
  <2>1. TopNode.type = "Format" /\ Top.begun
    BY <1>5 DEF mainEnd, Running
  <2>2. AtClosing(endpoint, req)
    BY <1>1, <1>2, <1>3, <2>1, WhichLoop
  <2> QED
    BY <1>1, <1>2, <1>3, <1>5, <2>2, MainEndOK
<1>6. CASE TopNode.type = "Scan"
  <2>1. AtScan(endpoint, req)
    BY <1>1, <1>2, <1>3, <1>6, WhichLoop
  <2>2. DOMAIN req = ReqFields /\ req.left \in Nat /\ req.cached \in 0..req.left
        /\ req.row \in Nat /\ req.rows \in Nat
    BY <1>1 DEF RunOK, Counted
  <2>3. CASE singleCore
    BY <1>1, <1>2, <1>3, <2>1, <2>3, SingleCoreOK
  <2>4. CASE singleEnd
    BY <1>1, <1>2, <1>3, <2>1, <2>4, SingleEndOK
  <2>5. ASSUME req.scan = TRUE, NEW b \in Nat, b < req.left,
               Step(scanBody([req EXCEPT !.cached = b]))
        PROVE  PageOK'
    BY <1>1, <1>3, <2>1, <2>5, RowOK
  <2>6. CASE fetchRow
    <3>1. req.scan = TRUE /\ req.left > 0
          /\ IF req.cached > 0
             THEN Step(scanBody([req EXCEPT !.cached = req.cached - 1]))
             ELSE \E batch \in 1..req.left : Step(scanBody([req EXCEPT !.cached = batch - 1]))
      BY <1>2, <2>6 DEF fetchRow
    <3>2. CASE req.cached > 0
      <4>1. req.cached - 1 \in Nat /\ req.cached - 1 < req.left
        BY <2>2, <3>2
      <4> QED
        BY <2>5, <3>1, <3>2, <4>1
    <3>3. CASE ~(req.cached > 0)
      <4>1. PICK batch \in 1..req.left : Step(scanBody([req EXCEPT !.cached = batch - 1]))
        BY <3>1, <3>3
      <4>2. batch - 1 \in Nat /\ batch - 1 < req.left
        BY <2>2
      <4> QED
        BY <2>5, <3>1, <4>1, <4>2
    <3> QED
      BY <3>2, <3>3
  <2>7. CASE cachedRow
    <3>1. req.scan = TRUE /\ req.cached > 0
          /\ Step(scanBody([req EXCEPT !.cached = req.cached - 1]))
      BY <1>2, <2>7 DEF cachedRow
    <3>2. req.cached - 1 \in Nat /\ req.cached - 1 < req.left
      BY <2>2, <3>1
    <3> QED
      BY <2>5, <3>1, <3>2
  <2>8. CASE cacheEmpty
    <3>1. req.scan = TRUE
      BY <1>2, <2>8 DEF cacheEmpty
    <3> QED
      BY <1>1, <1>3, <2>1, <2>8, <3>1, CacheEmptyOK
  <2>9. CASE scanEnd
    <3>1. req.scan = TRUE /\ req.left = 0 /\ Step(scanReturn(req))
      BY <1>2, <2>9 DEF scanEnd
    <3>2. req.row + req.left = req.rows
      BY <2>1, <3>1, ScanRuns DEF AtRow
    <3>3. req.row = req.rows
      BY <2>2, <3>1, <3>2
    <3> QED
      BY <1>1, <1>3, <2>1, <2>2, <3>1, <3>3, ScanReturnOK
  <2>10. CASE scanFails
    <3> DEFINE q == [req EXCEPT !.left = 0, !.failed = TRUE]
    <3>1. req.scan = TRUE /\ Step(scanReturn(q))
      BY <1>2, <2>10 DEF scanFails
    <3>2. /\ DOMAIN q = ReqFields /\ q.scan = req.scan /\ q.row = req.row /\ q.rows = req.rows
          /\ q.stack = req.stack /\ q.page = req.page /\ q.failed = TRUE
      BY <2>2 DEF ReqFields
    <3> HIDE DEF q
    <3> QED
      BY <1>1, <1>3, <2>1, <3>1, <3>2, ScanReturnOK
  <2>11. ~mainCore /\ ~mainEnd
    BY <1>6 DEF mainCore, mainEnd, Running
  <2> QED
    BY <2>3, <2>4, <2>6, <2>7, <2>8, <2>9, <2>10, <2>11
<1>7. \/ mainCore \/ mainEnd \/ TopNode.type = "Scan"
  BY DEF singleCore, singleEnd, fetchRow, cachedRow, cacheEmpty, scanEnd, scanFails, Running
<1> QED
  BY <1>4, <1>5, <1>6, <1>7

LEMMA PageNext == ServingOK /\ PageOK /\ [Next]_vars => PageOK'
<1> SUFFICES ASSUME ServingOK, PageOK, [Next]_vars PROVE PageOK'
  OBVIOUS
<1>1. CASE init_srv \/ init_dir \/ result_format \/ openContainer \/ readLine \/ closeContainer
  <2>1. phase' \notin {"serving", "died"}
    BY <1>1 DEF init_srv, init_dir, result_format, openContainer, readLine, closeContainer
  <2> QED
    BY <2>1 DEF PageOK
<1>2. CASE startServing
  <2>1. req = NoRequest /\ req' = req /\ phase' = "serving"
    BY <1>2 DEF startServing, ServingOK, ReqOK
  <2> QED
    BY <2>1 DEF PageOK, NoRequest
<1>3. CASE sendPage
  <2>1. req' = NoRequest /\ phase' = "serving"
    BY <1>3 DEF sendPage
  <2> QED
    BY <2>1 DEF PageOK, NoRequest
<1>4. CASE UNCHANGED vars
  BY <1>4 DEF vars, config, PageOK
<1>5. ASSUME phase = "serving", UNCHANGED config, ~(WellTyped(endpoint) /\ spill = << >>)
      PROVE  PageOK'
  BY <1>5 DEF config, PageOK
<1>6. CASE build_results
  <2>1. phase = "serving" /\ UNCHANGED config
    BY <1>6 DEF build_results, Step
  <2>2. FormatOK(endpoint)
    BY <2>1 DEF ServingOK, ConfigOK, EndpointOK
  <2> QED
    BY <1>5, <1>6, <2>1, <2>2, BuildOK
<1>7. CASE \/ mainCore \/ mainEnd \/ singleCore \/ singleEnd
           \/ fetchRow \/ cachedRow \/ cacheEmpty \/ scanEnd \/ scanFails
  <2>1. phase = "serving" /\ req.state = "run"
    BY <1>7 DEF mainCore, mainEnd, singleCore, singleEnd, fetchRow, cachedRow, cacheEmpty,
                scanEnd, scanFails, Running
  <2>2. UNCHANGED config
    BY <1>7 DEF mainCore, mainEnd, singleCore, singleEnd, fetchRow, cachedRow, cacheEmpty,
                scanEnd, scanFails, Step
  <2> QED
    BY <1>5, <1>7, <2>1, <2>2, LoopOK
<1> QED
  BY <1>1, <1>2, <1>3, <1>4, <1>6, <1>7 DEF Next

LEMMA PageAlways == Spec => [](ServingOK /\ PageOK)
<1>1. Init => PageOK
  BY DEF Init, PageOK
<1>2. ServingOK /\ PageOK /\ [Next]_vars => PageOK'
  BY PageNext
<1> QED
  BY <1>1, <1>2, ServingAlways, PTL DEF Spec

\* A section with a well-typed format never follows a null pointer or calls
\* without end, whatever the rows (the Run() methods of output_format.cc).
THEOREM TypedFormatsAreServed == Spec => []TypedFormatsServe
<1>1. PageOK => TypedFormatsServe
  BY DEF PageOK, TypedFormatsServe
<1> QED
  BY <1>1, PageAlways, PTL

\* A page has each row once and in order, with its texts, for any number of
\* rows in any batches (ScanLoop::Run(), RowLoop::Run(), build_results()).
THEOREM PagesAreRendered == Spec => []PageIsRendered
<1>1. ServingOK /\ PageOK => PageIsRendered
  <2> SUFFICES ASSUME ServingOK, PageOK, phase = "serving", req.state = "done", spill = << >>,
                      endpoint.top = "_main", WellTyped(endpoint),
                      LET core == endpoint.nodes["_main"].core
                      IN req.scan => core # None /\ endpoint.nodes[core].type = "Scan"
               PROVE  /\ req.page = Page(endpoint, req.row, req.scan)
                      /\ req.failed \/ req.row = req.rows
                      /\ req.result = IF req.row = 0 THEN 404 ELSE 200
    BY DEF PageIsRendered
  <2>1. AtEnd(endpoint, req)
    BY DEF PageOK
  <2>2. Fits(endpoint, req.scan)
    BY DEF Fits, MainOf, CoreOf
  <2> QED
    BY <2>1, <2>2 DEF AtEnd, Ended
<1> QED
  BY <1>1, PageAlways, PTL
=============================================================================
