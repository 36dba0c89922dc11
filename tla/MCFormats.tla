----------------------------- MODULE MCFormats ------------------------------
(* The lines that containers are made of: texts as in Tests/httpd.conf and   *)
(* demo.conf, texts that leave out each optional part, and texts that are    *)
(* not of the language.                                                      *)
EXTENDS Formats

Item(text, or) == [type |-> "Record", name |-> "item", text |-> text, text2 |-> or]

MCLines == {
    Line("Format", "_main", <<Node("scan"), Text("nl")>>),
    Line("Format", "_main", <<Text("<"), Node("row")>>),
    Line("Format", "_main", <<Node("item")>>),
    Line("Scan", "scan", <<Text("["), Node("row"), Text(","), Dots, Text("]")>>),
    Line("Scan", "scan", <<Text("["), Node("row"), Dots>>),
    Line("Scan", "scan", <<Node("row"), Value, Dots>>),
    Line("Scan", "scan", <<Text("["), Node("scan"), Text(","), Dots>>),
    Line("Row", "row", <<Text("{"), Node("item"), Text(";"), Dots, Text("}")>>),
    Line("Row", "row", <<Num(1), Text(":"), Num(9)>>),
    Line("Row", "row", <<Text("{"), Node("scan"), Dots>>),
    Line("Row", "row", <<Text("{"), Node("item"), Text(";")>>),
    Line("Row", "row", <<Text("("), Open>>),
    Item(<<Name, Text("="), Value>>, <<Text("null")>>),
    Item(<<Node("row")>>, <<Node("row")>>) }

MCWords == {
    "_main", "scan", "row", "item", "nl", "comma", "lbracket", "rbracket",
    "lbrace", "rbrace", "colon", "colon_null", "NDBScan", "end_NDBScan",
    "NDBTuple", "end_NDBTuple", "Attr_name", "value_is", "end_Attr", "isNull",
    "<", "[", ",", "]", "{", ";", "}", ":", "(", "=", "null" }

MCNulls == {<<2, 1>>}
=============================================================================
