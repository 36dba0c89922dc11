------------------------------- MODULE Format -------------------------------
(* The format language of mod_ndb and its parser (format_compiler.cc).  A    *)
(* text is the sequence of the tokens that Parser::scan() finds in it, and a *)
(* place in a text, Parser::token_next, a number from 1 to its length + 1.   *)
EXTENDS Naturals, Sequences

CONSTANT Words        \* plaintexts, and names of nodes

\* v is the text of a plaintext or the name of a node, i the number in $i$
Token(kind, v, i) == [kind |-> kind, v |-> v, i |-> i]
Text(v)  == Token("plaintext", v, 0)
Node(v)  == Token("node", v, 0)
Dots     == Token("ellipses", "", 0)
Name     == Token("fieldname", "", 0)
Value    == Token("fieldval", "", 0)
Num(i)   == Token("fieldnum", "", i)
Open     == Token("open", "", 0)          \* a $ that no other $ ends

Tokens == [kind : {"plaintext", "node"}, v : Words, i : {0}]
   \union [kind : {"ellipses", "fieldname", "fieldval", "open"}, v : {""}, i : {0}]
   \union [kind : {"fieldnum"}, v : {""}, i : Nat]

CellKinds == {"plaintext", "fieldname", "fieldval", "fieldnum"}
Classes == {"Format", "Scan", "Row", "Record"}

\* A pointer to the one null cell, which all formats share.
NullCell == [null |-> TRUE, cells |-> << >>]
None == "the_null_node"

-----------------------------------------------------------------------------
(* Parser                                                                    *)

\* scan(): the kind of the token at p
scan(text, p) == IF p > Len(text) THEN "no_more" ELSE text[p].kind

\* token_next once that token is read.  An open token throws; leaving it
\* unread makes the_end() fail, which is the same.
After(text, p) == IF scan(text, p) \in {"no_more", "open"} THEN p ELSE p + 1

the_end(text, p) == scan(text, p) = "no_more"

\* where the cells that follow one another from p end
CellsEnd(text, p) ==
    CHOOSE q \in p..(Len(text) + 1) :
        /\ scan(text, q) \notin CellKinds
        /\ \A j \in p..(q - 1) : scan(text, j) \in CellKinds

\* get_cell_chain(): a first token that is no cell is not put back, and the
\* cells after it are linked to the null cell itself.  spill is what hangs there.
get_cell_chain(text, p, spill) ==
    LET isNull == scan(text, p) \notin CellKinds
        from   == IF isNull THEN After(text, p) ELSE p
        to     == CellsEnd(text, from)
        run    == SubSeq(text, from, to - 1)
    IN [cell  |-> IF isNull THEN NullCell ELSE [null |-> FALSE, cells |-> run],
        next  |-> to,
        spill |-> IF isNull /\ run # << >> THEN run ELSE spill]

-----------------------------------------------------------------------------
(* compile(): types gives the type of every node in the symbol table.  The   *)
(* result is ok or not, the compiled parts and what hangs on the null cell.  *)

Failed == [ok |-> FALSE]

Compiled(begin, core, sep, end, spill) ==
    [ok |-> TRUE, spill |-> spill,
     parts |-> [begin |-> begin, core |-> core, sep |-> sep, end |-> end]]

\* Loop::compile(): begin $core$ sep ... end
LoopCompile(text, types, spill) ==
    LET begin == get_cell_chain(text, 1, spill)
        core  == begin.next
        hasSep == scan(text, core + 1) = "plaintext"
        dots  == IF hasSep THEN core + 2 ELSE core + 1
        end   == get_cell_chain(text, dots + 1, begin.spill)
    IN IF scan(text, core) # "node"
       THEN IF the_end(text, After(text, core))
            THEN Compiled(begin.cell, None, << >>, NullCell, begin.spill)
            ELSE Failed
       ELSE IF /\ text[core].v \in DOMAIN types
               /\ scan(text, dots) = "ellipses"
               /\ the_end(text, end.next)
            THEN Compiled(begin.cell, text[core].v,
                          IF hasSep THEN <<text[core + 1]>> ELSE << >>,
                          end.cell, end.spill)
            ELSE Failed

\* Mutant: any node may be the core.
MainCompile_AnyCore(text, types, spill) ==
    LET hasBegin == scan(text, 1) \in CellKinds
        core     == IF hasBegin THEN 2 ELSE 1
        hasCore  == scan(text, core) = "node"
        end      == After(text, core)
        hasEnd   == scan(text, end) \in CellKinds
    IN IF /\ hasCore => text[core].v \in DOMAIN types
          /\ the_end(text, After(text, end))
       THEN Compiled(IF hasBegin THEN [null |-> FALSE, cells |-> <<text[1]>>]
                                 ELSE NullCell,
                     IF hasCore THEN text[core].v ELSE None, << >>,
                     IF hasEnd THEN [null |-> FALSE, cells |-> <<text[end]>>]
                               ELSE NullCell, spill)
       ELSE Failed

\* Mutant: a first token that is no cell is not put back.
MainCompile_NoRollback(text, types, spill) ==
    LET hasBegin == scan(text, 1) \in CellKinds
        core     == After(text, 1)
        hasCore  == scan(text, core) = "node"
        end      == After(text, core)
        hasEnd   == scan(text, end) \in CellKinds
    IN IF /\ hasCore => /\ text[core].v \in DOMAIN types
                        /\ types[text[core].v] \in {"Scan", "Row"}
          /\ the_end(text, After(text, end))
       THEN Compiled(IF hasBegin THEN [null |-> FALSE, cells |-> <<text[1]>>]
                                 ELSE NullCell,
                     IF hasCore THEN text[core].v ELSE None, << >>,
                     IF hasEnd THEN [null |-> FALSE, cells |-> <<text[end]>>]
                               ELSE NullCell, spill)
       ELSE Failed

\* MainLoop::compile(): a cell, a node and a cell, each of which may be missing
MainCompile(text, types, spill) ==
    LET hasBegin == scan(text, 1) \in CellKinds
        core     == IF hasBegin THEN 2 ELSE 1
        hasCore  == scan(text, core) = "node"
        end      == After(text, core)
        hasEnd   == scan(text, end) \in CellKinds
    IN IF /\ hasCore => /\ text[core].v \in DOMAIN types
                        /\ types[text[core].v] \in {"Scan", "Row"}
          /\ the_end(text, After(text, end))
       THEN Compiled(IF hasBegin THEN [null |-> FALSE, cells |-> <<text[1]>>]
                                 ELSE NullCell,
                     IF hasCore THEN text[core].v ELSE None, << >>,
                     IF hasEnd THEN [null |-> FALSE, cells |-> <<text[end]>>]
                               ELSE NullCell, spill)
       ELSE Failed

\* RecAttr::compile(): begin is fmt, end is null_fmt.  What follows the cells
\* of either text is not looked at.
RecordCompile(text, text2, spill) ==
    LET fmt     == get_cell_chain(text, 1, spill)
        nullFmt == get_cell_chain(text2, 1, spill)
    IN IF \/ fmt.cell.null \/ nullFmt.cell.null
          \/ scan(text, fmt.next) = "open" \/ scan(text2, nullFmt.next) = "open"
       THEN Failed
       ELSE Compiled(fmt.cell, None, << >>, nullFmt.cell, spill)

\* Node::compile() of the class of a node
NodeCompile(node, types, spill) ==
    CASE node.type = "Format" -> MainCompile(node.text, types, spill)
      [] node.type \in {"Scan", "Row"} -> LoopCompile(node.text, types, spill)
      [] node.type = "Record" -> RecordCompile(node.text, node.text2, spill)
=============================================================================
