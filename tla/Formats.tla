------------------------------ MODULE Formats -------------------------------
(* Output formats from httpd.conf to the page: <ResultFormat> containers are *)
(* read, compiled and registered (config.cc, output_format.cc), a section    *)
(* takes one of them, and build_results() runs its nodes over the rows of an *)
(* operation.  What a column's value looks like is left to Values.           *)
EXTENDS Format, Integers, SequencesExt

CONSTANTS FormatNames,  \* names of <ResultFormat> containers
          Lines,        \* the lines that containers may have
          MaxLines,     \* most lines in all containers
          MaxFormats,   \* most containers
          MaxServers,   \* servers: 1 is the main one, others are virtual hosts
          Columns,      \* n_result_cols of the section
          MaxRows,      \* most rows of a scan
          Nulls         \* the <<row, column>> that are NULL

ASSUME FormatsAssumption ==
    /\ MaxLines \in Nat /\ MaxFormats \in Nat /\ MaxServers \in Nat \ {0}
    /\ Columns \in Nat \ {0} /\ MaxRows \in Nat
    /\ Lines \subseteq [type : Classes, name : Words,
                      text : Seq(Tokens), text2 : Seq(Tokens)]
    /\ None \notin Words
    /\ {"_main", "scan", "row", "item", "nl", "comma", "lbracket", "rbracket",
        "lbrace", "rbrace", "colon", "colon_null", "NDBScan", "end_NDBScan",
        "NDBTuple", "end_NDBTuple", "Attr_name", "value_is", "end_Attr",
        "isNull"} \subseteq Words      \* of the built-in formats

VARIABLES formats,   \* global_output_formats
          names,     \* global_format_names: an index into formats, from 0
          spill,     \* the_null_cell.next
          fmt,       \* the format whose container is being read
          lines,     \* lines read of all containers
          endpoint,  \* dir->fmt of the section
          phase,     \* what httpd is doing
          servers,   \* servers initialised
          req        \* the operation whose page is being built

config == <<formats, names, spill, fmt, lines, endpoint, servers>>
vars == <<config, phase, req>>

Phases == {"config", "container", "serving", "stopped", "died"}

-----------------------------------------------------------------------------
(* Formats                                                                   *)

MkFormat(name) == [name |-> name, raw |-> FALSE, override |-> FALSE,
                   top |-> "null", nodes |-> << >>]

\* output_format::symbol(): the first node of a name stays
symbol(f, name, node) ==
    [f EXCEPT !.nodes = [n \in DOMAIN f.nodes \union {name} |->
                            IF n \in DOMAIN f.nodes THEN f.nodes[n] ELSE node]]

\* One line of a container.  A second Format line makes a top node that is
\* not in the symbol table, and so is never compiled.
AddLine(f, line) ==
    LET node == [type |-> line.type, text |-> line.text, text2 |-> line.text2]
    IN IF line.type = "Format"
       THEN [symbol(f, "_main", node) EXCEPT
                !.top = IF "_main" \in DOMAIN f.nodes THEN "uncompiled"
                                                      ELSE "_main"]
       ELSE symbol(f, line.name, node)

Types(f) == [n \in DOMAIN f.nodes |-> f.nodes[n].type]

\* output_format::compile(): every symbol, in the order of a hash
Results(f, hung) ==
    [n \in DOMAIN f.nodes |-> NodeCompile(f.nodes[n], Types(f), hung)]

NodeWith(node, parts) ==
    [type |-> node.type, text |-> node.text, text2 |-> node.text2,
     begin |-> parts.begin, core |-> parts.core, sep |-> parts.sep, end |-> parts.end]

WithParts(f, results) ==
    [f EXCEPT !.nodes = [n \in DOMAIN f.nodes |->
                            NodeWith(f.nodes[n], results[n].parts)]]

\* the last node compiled that hung something on the null cell
Spills(results, hung) ==
    LET hanging == {results[n].spill : n \in DOMAIN results} \ {hung}
    IN IF hanging = {} THEN {hung} ELSE hanging

NameMeans(table, name, k) ==
    [n \in DOMAIN table \union {name} |-> IF n = name THEN k ELSE table[n]]

\* Mutant: the index stored is that of the format before.
register_format_OffByOne(list, table, f) ==
    LET existing == f.name \in DOMAIN table
    IN IF existing /\ ~list[table[f.name] + 1].override
       THEN <<FALSE, list, table>>
       ELSE <<TRUE, Append(list, f), NameMeans(table, f.name, Len(list) - 1)>>

\* register_format(): the name now means the new format
register_format(list, table, f) ==
    LET existing == f.name \in DOMAIN table
    IN IF existing /\ ~list[table[f.name] + 1].override
       THEN <<FALSE, list, table>>
       ELSE <<TRUE, Append(list, f), NameMeans(table, f.name, Len(list))>>

get_format_by_name(name) == formats[names[name] + 1]

Line(type, name, text) == [type |-> type, name |-> name, text |-> text, text2 |-> text]

\* register_built_in_formatters(): raw, JSON and XML.  Their texts are named
\* here, not spelt: lbracket for [, colon_null for :null.
BuiltIn(name, scan1, scan2, row1, row2, item1, item2) ==
    LET withMain == AddLine(MkFormat(name),
                        Line("Format", "_main", <<Node("scan"), Text("nl")>>))
        withScan == AddLine(withMain, Line("Scan", "scan",
                     <<Text(scan1), Node("row"), Text("comma"), Dots, Text(scan2)>>))
        withRow == AddLine(withScan, Line("Row", "row",
                     <<Text(row1), Node("item"), Text("comma"), Dots, Text(row2)>>))
        f == AddLine(withRow, [type |-> "Record", name |-> "item",
                           text |-> item1, text2 |-> item2])
    IN [WithParts(f, Results(f, << >>)) EXCEPT !.override = TRUE]

BuiltIns ==
    << [MkFormat("raw") EXCEPT !.raw = TRUE],
       BuiltIn("JSON", "lbracket", "rbracket", "lbrace", "rbrace",
               <<Name, Text("colon"), Value>>, <<Name, Text("colon_null")>>),
       BuiltIn("XML", "NDBScan", "end_NDBScan", "NDBTuple", "end_NDBTuple",
               <<Text("Attr_name"), Name, Text("value_is"), Value, Text("end_Attr")>>,
               <<Text("Attr_name"), Name, Text("isNull")>>) >>

BuiltInNames == [raw |-> 0, JSON |-> 1, XML |-> 2]

-----------------------------------------------------------------------------
(* Reading httpd.conf                                                        *)

NoFormat == MkFormat("")
NoRequest == [state |-> "none"]

Init == /\ formats = BuiltIns /\ names = BuiltInNames
        /\ spill = << >>
        /\ fmt = NoFormat /\ lines = 0
        /\ endpoint = NoFormat
        /\ phase = "config"
        /\ servers = 1
        /\ req = NoRequest

\* init_srv() of a virtual host: initialize_output_formats() begins anew
init_srv == /\ phase = "config" /\ servers < MaxServers
            /\ servers' = servers + 1
            /\ formats' = BuiltIns /\ names' = BuiltInNames
            /\ UNCHANGED <<spill, fmt, lines, endpoint, phase, req>>

\* init_dir() of the section
init_dir == /\ phase = "config" /\ endpoint = NoFormat
            /\ endpoint' = get_format_by_name("JSON")
            /\ UNCHANGED <<formats, names, spill, fmt, lines, phase, servers, req>>

\* result_format(): the directive Format
result_format == \E name \in FormatNames \union {"raw", "XML"} :
    /\ phase = "config" /\ endpoint # NoFormat
    /\ IF name \in DOMAIN names
       THEN endpoint' = get_format_by_name(name) /\ phase' = phase
       ELSE endpoint' = NoFormat /\ phase' = "stopped"
    /\ UNCHANGED <<formats, names, spill, fmt, lines, servers, req>>

\* result_fmt_container(): <ResultFormat name>
openContainer == \E name \in FormatNames :
    /\ phase = "config" /\ Len(formats) < MaxFormats + Len(BuiltIns)
    /\ fmt' = MkFormat(name)
    /\ phase' = "container"
    /\ UNCHANGED <<lines, formats, names, spill, endpoint, servers, req>>

readLine == \E line \in Lines :
    /\ phase = "container" /\ lines < MaxLines
    /\ lines' = lines + 1
    /\ fmt' = AddLine(fmt, line)
    /\ UNCHANGED <<formats, names, spill, endpoint, phase, servers, req>>

\* </ResultFormat>: compile and register, or refuse to start
closeContainer ==
    /\ phase = "container"
    /\ LET results == Results(fmt, spill)
           compiled == /\ fmt.top # "null"
                       /\ \A n \in DOMAIN results : results[n].ok
           outcome == register_format(formats, names, WithParts(fmt, results))
       IN IF compiled /\ outcome[1]
          THEN /\ formats' = outcome[2] /\ names' = outcome[3]
               /\ spill' \in Spills(results, spill)
               /\ phase' = "config"
          ELSE phase' = "stopped" /\ UNCHANGED <<formats, names, spill>>
    /\ fmt' = NoFormat
    /\ UNCHANGED <<lines, endpoint, servers, req>>

\* the end of httpd.conf
startServing == /\ phase = "config" /\ endpoint # NoFormat
                /\ phase' = "serving"
                /\ UNCHANGED <<config, req>>
-----------------------------------------------------------------------------
(* Building a page: what the nodes write.  A page is a sequence of pieces: a *)
(* text, or the name or value of a column.  Row 0 is the one never fetched.  *)

Piece(what, row, col) == [what |-> what, row |-> row, col |-> col]
Trap == Piece("null_pointer", 0, 1)       \* no text is like it

Literal(cell) == IF cell.kind = "plaintext" THEN <<Piece(cell.v, 0, 0)>> ELSE << >>

\* Cell::out(data, n, res)
ColumnOut(cell, row, col) ==
    CASE cell.kind = "plaintext" -> Literal(cell)
      [] cell.kind = "fieldname" -> <<Piece("name", 0, col)>>
      [] OTHER -> <<Piece("value", row, col)>>

\* Mutant: $i$ is not compared with the number of columns.
NumberedOut_NoBound(cell, row) ==
    CASE cell.kind = "plaintext" -> Literal(cell)
      [] cell.kind # "plaintext" /\ cell.i \notin 1..Columns -> <<Trap>>
      [] OTHER -> ColumnOut(cell, row, cell.i)

\* Cell::out(data, res): $i$ is column i; $name$ and $value$ have i = 0
NumberedOut(cell, row) ==
    CASE cell.kind = "plaintext" -> Literal(cell)
      [] cell.kind # "plaintext" /\ cell.i > Columns -> << >>
      [] cell.kind # "plaintext" /\ cell.i = 0 -> <<Trap>>
      [] OTHER -> ColumnOut(cell, row, cell.i)

Chain(cell) == IF cell.null THEN spill ELSE cell.cells

Each(Out(_), cells) == FlattenSeq([j \in DOMAIN cells |-> Out(cells[j])])

\* RecAttr::out(); the other classes have no cell, and Node::out() follows it
CoreOut(f, core, row, col) ==
    IF core = None THEN << >>
    ELSE LET node == f.nodes[core]
             cell == IF <<row, col>> \in Nulls THEN node.end ELSE node.begin
         IN IF node.type = "Record"
            THEN Each(LAMBDA c : ColumnOut(c, row, col), cell.cells)
            ELSE <<Trap>>

\* RowLoop::Run()
RowLoopRun(f, node, row) ==
    LET column(c) == (IF c = 1 THEN << >> ELSE Each(Literal, node.sep))
                     \o CoreOut(f, node.core, row, c)
    IN Each(LAMBDA c : NumberedOut(c, row), Chain(node.begin))
       \o FlattenSeq([c \in 1..Columns |-> column(c)])
       \o Each(LAMBDA c : NumberedOut(c, row), Chain(node.end))

-----------------------------------------------------------------------------
(* Building a page: the calls of Run(), on a stack of loops                  *)

\* begun: the core has been run; more: in the inner loop of ScanLoop::Run()
Frame(n) == [node |-> n, nrows |-> 0, begun |-> FALSE, more |-> FALSE]

Write(q, pieces) == [q EXCEPT !.page = @ \o pieces]

\* core->Run(), as far as it writes before it calls another core
Call(q, n) ==
    IF n = None THEN q
    ELSE LET node == endpoint.nodes[n]
         IN CASE node.type = "Row" -> [Write(q, RowLoopRun(endpoint, node, q.row))
                                          EXCEPT !.result = 200]
              [] node.type = "Record" -> Write(q, <<Trap>>)
              [] node.type = "Format" -> [Write(q, Each(Literal, node.begin.cells))
                                             EXCEPT !.stack = Append(@, Frame(n))]
              [] node.type = "Scan" -> [q EXCEPT !.stack = Append(@, Frame(n))]

\* A dereferenced null pointer, or calls without end, kill the child.
Step(q) == LET dead == \/ Trap \in Range(q.page)
                       \/ Len(q.stack) > Cardinality(DOMAIN endpoint.nodes) + MaxRows
           IN /\ phase' = IF dead THEN "died" ELSE phase
              /\ req' = [q EXCEPT !.state = IF dead \/ q.stack = << >>
                                            THEN "done" ELSE "run"]
              /\ UNCHANGED config

Top == req.stack[Len(req.stack)]
TopNode == endpoint.nodes[Top.node]
SetTop(q, frame) == [q EXCEPT !.stack[Len(q.stack)] = frame]
Return(q) == [q EXCEPT !.stack = Front(@)]

Running(type) == /\ phase = "serving" /\ req.state = "run"
                 /\ TopNode.type = type

\* An operation with "rows" rows, a scan or a single row that has been read.
Operation(isScan, rows) ==
    [state |-> "run", scan |-> isScan, rows |-> rows,
     left |-> IF isScan THEN rows ELSE 0, cached |-> 0,
     row |-> IF isScan THEN 0 ELSE 1, failed |-> FALSE,
     stack |-> << >>, page |-> << >>, result |-> 200]

\* build_results()
build_results == \E isScan \in BOOLEAN, rows \in 0..MaxRows :
    /\ phase = "serving" /\ req.state = "none"
    /\ ~isScan => rows = 1
    /\ LET q == Operation(isScan, rows)
       IN \/ /\ endpoint.raw
             /\ \E blob \in BOOLEAN :
                   Step(IF blob THEN Write(q, <<Piece("value", 1, 1)>>)
                                ELSE [q EXCEPT !.result = 500])
          \/ ~endpoint.raw /\ endpoint.top = "uncompiled" /\ Step(q)
          \/ ~endpoint.raw /\ endpoint.top = "_main" /\ Step(Call(q, "_main"))

\* MainLoop::Run(): the core between begin and end
mainCore == /\ Running("Format") /\ ~Top.begun
            /\ Step(Call(SetTop(req, [Top EXCEPT !.begun = TRUE]), TopNode.core))

mainEnd == /\ Running("Format") /\ Top.begun
           /\ Step(Write(Return(req), Each(Literal, TopNode.end.cells)))

\* ScanLoop::Run() for a single result row
singleCore == /\ Running("Scan") /\ ~req.scan /\ ~Top.begun
              /\ Step(Call(SetTop(req, [Top EXCEPT !.begun = TRUE]), TopNode.core))

singleEnd == /\ Running("Scan") /\ ~req.scan /\ Top.begun
             /\ Step(Return(req))

\* Mutant: nrows is counted before it is tested.
scanBody_CountFirst(q) ==
    LET text == IF Top.nrows + 1 # 0 THEN Each(Literal, TopNode.sep)
                                     ELSE Each(Literal, Chain(TopNode.begin))
        frame == [Top EXCEPT !.nrows = @ + 1, !.more = TRUE]
        next  == [q EXCEPT !.row = @ + 1, !.left = @ - 1]
    IN Call(Write(SetTop(next, frame), text), TopNode.core)

\* ScanLoop::Run(): the body of its loops, for one more row
scanBody(q) ==
    LET text == IF Top.nrows # 0 THEN Each(Literal, TopNode.sep)
                                 ELSE Each(Literal, Chain(TopNode.begin))
        frame == [Top EXCEPT !.nrows = @ + 1, !.more = TRUE]
        next  == [q EXCEPT !.row = @ + 1, !.left = @ - 1]
    IN Call(Write(SetTop(next, frame), text), TopNode.core)

\* Mutant: the row fetched stays in the cache.
fetchRow_Keep == /\ Running("Scan") /\ req.scan /\ ~Top.more /\ req.left > 0
                 /\ IF req.cached > 0
                    THEN Step(scanBody([req EXCEPT !.cached = @ - 1]))
                    ELSE \E batch \in 1..req.left :
                            Step(scanBody([req EXCEPT !.cached = batch]))

\* nextResult(true) has a row, from the cache or from the next batch
fetchRow == /\ Running("Scan") /\ req.scan /\ ~Top.more /\ req.left > 0
            /\ IF req.cached > 0
               THEN Step(scanBody([req EXCEPT !.cached = @ - 1]))
               ELSE \E batch \in 1..req.left :
                       Step(scanBody([req EXCEPT !.cached = batch - 1]))

\* nextResult(false) has a row
cachedRow == /\ Running("Scan") /\ req.scan /\ Top.more /\ req.cached > 0
             /\ Step(scanBody([req EXCEPT !.cached = @ - 1]))

\* nextResult(false) has none
cacheEmpty == /\ Running("Scan") /\ req.scan /\ Top.more /\ req.cached = 0
              /\ Step(SetTop(req, [Top EXCEPT !.more = FALSE]))

\* ScanLoop::Run() returns
scanReturn(q) ==
    [Write(Return(q), IF Top.nrows = 0 THEN << >>
                      ELSE Each(Literal, Chain(TopNode.end)))
        EXCEPT !.result = IF Top.nrows = 0 THEN 404 ELSE 200]

\* nextResult(true) finds the scan finished
scanEnd == /\ Running("Scan") /\ req.scan /\ ~Top.more /\ req.left = 0
           /\ Step(scanReturn(req))

\* nextResult(true) fails, which the loop takes for the end of the scan
scanFails == /\ Running("Scan") /\ req.scan /\ ~Top.more
             /\ req.left > 0 /\ req.cached = 0
             /\ Step(scanReturn([req EXCEPT !.left = 0, !.failed = TRUE]))

\* the page is sent, and another request comes
sendPage == /\ phase = "serving" /\ req.state = "done"
            /\ req' = NoRequest
            /\ UNCHANGED <<config, phase>>

Next == \/ init_srv \/ init_dir \/ result_format
        \/ openContainer \/ readLine \/ closeContainer \/ startServing
        \/ build_results \/ mainCore \/ mainEnd \/ singleCore \/ singleEnd
        \/ fetchRow \/ cachedRow \/ cacheEmpty \/ scanEnd \/ scanFails
        \/ sendPage

Spec == Init /\ [][Next]_vars
-----------------------------------------------------------------------------
(* Properties                                                                *)

\* Every variable keeps its type, and indexes stay inside formats.
TypeOK ==
    /\ \A f \in Range(formats) \union {fmt, endpoint} :
          /\ f.raw \in BOOLEAN /\ f.override \in BOOLEAN
          /\ f.top \in {"null", "_main", "uncompiled"}
          /\ \A n \in DOMAIN f.nodes :
                f.nodes[n].type \in Classes
    /\ \A n \in DOMAIN names : names[n] \in 0..Len(formats) - 1
    /\ lines \in 0..MaxLines /\ servers \in 1..MaxServers
    /\ phase \in Phases
    /\ req.state \in {"none", "run", "done"}
    /\ req.state # "none" => /\ req.cached \in 0..req.left
                             /\ req.row + req.left <= req.rows
                             /\ req.result \in {200, 404, 500}

\* The name of a format always means the last one registered under it
\* (get_format_by_name() through the index that register_format() stored).
NamesResolve ==
    \A n \in DOMAIN names :
        /\ get_format_by_name(n).name = n
        /\ \A j \in names[n] + 2..Len(formats) : formats[j].name # n

\* What a section can be given to serve is complete: a container without a
\* Format line, with a node whose core is not in the same container or with a
\* Format around anything but a Row or a Scan is refused when httpd starts.
FormatsAreClosed ==
    \A f \in Range(formats) \union ({endpoint} \ {NoFormat}) :
        /\ ~f.raw => f.top # "null" /\ "_main" \in DOMAIN f.nodes
        /\ \A n \in DOMAIN f.nodes :
              f.nodes[n].core \in {None} \union DOMAIN f.nodes
        /\ \A n \in DOMAIN f.nodes :
              f.nodes[n].type = "Format" /\ f.nodes[n].core # None
                => f.nodes[f.nodes[n].core].type \in {"Scan", "Row"}

\* The language as the comments of format_compiler.cc give it.  An opening
\* text is not optional here, although Loop::compile() asks for an optional
\* one: a text that begins with its $node$ loses it.
AllCells(text) == \A j \in DOMAIN text : text[j].kind \in CellKinds

ProperLoop(text) ==
    \/ AllCells(text)
    \/ \E c \in 2..Len(text), d \in 3..Len(text) :
          /\ AllCells(SubSeq(text, 1, c - 1)) /\ text[c].kind = "node"
          /\ text[d] = Dots /\ AllCells(SubSeq(text, d + 1, Len(text)))
          /\ d = c + 1 \/ (d = c + 2 /\ text[c + 1].kind = "plaintext")

ProperMain(text) ==
    \/ Len(text) = 1 /\ AllCells(text)
    \/ \E c \in 1..Len(text) : /\ text[c].kind = "node"
                               /\ c <= 2 /\ Len(text) <= c + 1
                               /\ \A j \in DOMAIN text \ {c} :
                                     text[j].kind \in CellKinds

Proper(node) == CASE node.type = "Format" -> ProperMain(node.text)
                  [] node.type = "Record" -> AllCells(node.text) /\ AllCells(node.text2)
                  [] OTHER -> ProperLoop(node.text)

\* the text that the compiled parts of a node stand for
Written(node) ==
    LET core == IF node.core = None THEN << >> ELSE <<Node(node.core)>>
    IN CASE node.type = "Record" -> node.begin.cells
         [] node.type = "Format" -> node.begin.cells \o core \o node.end.cells
         [] OTHER -> node.begin.cells \o core \o node.sep
                     \o (IF core = << >> THEN << >> ELSE <<Dots>>) \o node.end.cells

\* Nothing that is written in a text of the language gets lost between the
\* tokens read, put back and read again by the parser.
TextsAreKept ==
    \A f \in Range(formats) : \A n \in DOMAIN f.nodes :
        LET node == f.nodes[n]
        IN Proper(node) => /\ Written(node) = node.text
                           /\ node.type = "Record" => node.end.cells = node.text2

\* What the compiler does not check: the core of a Scan is a Row, that of a
\* Row a Record, and a Row has no $name$ or $value$ of its own.
WellTyped(f) ==
    \A n \in DOMAIN f.nodes :
        LET node == f.nodes[n]
            coreIs(type) == node.core = None \/ f.nodes[node.core].type = type
        IN /\ node.type = "Scan" => coreIs("Row")
           /\ node.type = "Row" => /\ coreIs("Record")
                                   /\ \A cell \in Range(node.begin.cells \o node.end.cells) :
                                         cell.kind # "plaintext" => cell.i > 0

\* A section with a well-typed format never runs into a null pointer or calls
\* without end, as long as no other format has hung cells on the null cell.
TypedFormatsServe ==
    phase = "died" => ~WellTyped(endpoint) \/ spill # << >>

\* The page that a well-typed format means for n rows, the opening and closing
\* texts once and the separators between.
Join(pages, sep) == FlattenSeq([j \in DOMAIN pages |->
                        IF j = 1 THEN pages[j] ELSE Each(Literal, sep) \o pages[j]])

RowPage(f, node, row) ==
    Each(LAMBDA c : NumberedOut(c, row), node.begin.cells)
    \o Join([col \in 1..Columns |-> CoreOut(f, node.core, row, col)], node.sep)
    \o Each(LAMBDA c : NumberedOut(c, row), node.end.cells)

RowsPage(f, node, n, isScan) ==
    LET row(r) == IF node.core = None THEN << >>
                  ELSE RowPage(f, f.nodes[node.core], r)
    IN CASE node.type = "Row" -> RowPage(f, node, 1)
         [] node.type = "Scan" /\ ~isScan -> row(1)
         [] node.type = "Scan" /\ isScan /\ n = 0 -> << >>
         [] OTHER -> Each(Literal, node.begin.cells)
                     \o Join([r \in 1..n |-> row(r)], node.sep)
                     \o Each(Literal, node.end.cells)

Page(f, n, isScan) ==
    LET main == f.nodes["_main"]
    IN Each(Literal, main.begin.cells)
       \o (IF main.core = None THEN << >>
           ELSE RowsPage(f, f.nodes[main.core], n, isScan))
       \o Each(Literal, main.end.cells)

\* However the rows come in batches, the page has each of them once and in
\* order, and 404 says that there are none.  Of a scan that fails half-way the
\* page has the rows before, and says nothing about it.  (A Format directly
\* around a Row is for single rows.)
PageIsRendered ==
    /\ phase = "serving" /\ req.state = "done" /\ spill = << >>
    /\ endpoint.top = "_main" /\ WellTyped(endpoint)
    /\ LET core == endpoint.nodes["_main"].core
       IN req.scan => core # None /\ endpoint.nodes[core].type = "Scan"
    => /\ req.page = Page(endpoint, req.row, req.scan)
       /\ req.failed \/ req.row = req.rows
       /\ req.result = IF req.row = 0 THEN 404 ELSE 200
=============================================================================
