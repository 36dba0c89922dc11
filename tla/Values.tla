------------------------------- MODULE Values -------------------------------
(* The values of one column on their way through mod_ndb: from the text of a *)
(* request body to what NDB stores (JSON_encoding.cc, MySQL_value.cc and     *)
(* Plan::Write), and back from there into a page (MySQL_result.cc), with the *)
(* two buffers that ExecuteAll() uses for it.  Integers have CharBits,       *)
(* ShortBits, MediumBits and IntBits where the code has 8, 16, 24 and 32.    *)
EXTENDS ResultBuffer, Integers, SequencesExt

CONSTANTS CharBits, ShortBits, MediumBits, IntBits,
          YearBase,    \* 1900
          InitSize,    \* 8192, the first size of a buffer
          Archs,       \* "i386", or "lp64": a long is twice an int
          Columns,     \* columns: [type, len]
          Texts,       \* for each type, texts that are sent to a column of it
          Now, NextId, \* what time() and get_auto_inc_value() give
          MaxRows      \* rows in the table of a Text or Blob

ASSUME ValuesAssumption ==
    /\ {CharBits, ShortBits, MediumBits, IntBits} \subseteq Nat
    /\ 1 < CharBits /\ CharBits < ShortBits /\ ShortBits < MediumBits
    /\ MediumBits < IntBits
    /\ YearBase \in Nat /\ YearBase + 2^CharBits <= 2^(IntBits - 1)
    /\ {Now, NextId} \subseteq 0..2^(2 * IntBits) - 1
    /\ {"page", "contents"} \subseteq Buffers
    /\ InitSize \in Nat \ {0} /\ MaxRows \in Nat \ {0}
    /\ Archs \subseteq {"i386", "lp64"}

VARIABLES arch, column,
          table,   \* rows: [null, v], v a sequence of integers
          said,    \* for each row, the text its value comes from
          req,     \* the operation that is being executed
          blob,    \* the text in the buffer "contents"
          shown    \* what the page shows so far

rest == <<arch, column, table, said>>
vars == <<bvars, rest, req, blob, shown>>

-----------------------------------------------------------------------------
(* Types                                                                     *)

Narrow == {"Tinyint", "Tinyunsigned", "Smallint", "Smallunsigned",
           "Mediumint", "Mediumunsigned"}
Signed == {"Tinyint", "Smallint", "Mediumint", "Int", "Bigint"}
Integral == Narrow \union {"Int", "Unsigned", "Timestamp", "Bigint", "Bigunsigned"}
Numeric == Integral \union {"Year", "Bit"}
Chars == {"Char", "Varchar", "Longvarchar"}
Dates == {"Date", "Time", "Datetime"}
Binaries == {"Binary", "Varbinary", "Longvarbinary"}
Blobs == {"Text", "Blob"}
Types == Numeric \union Chars \union Dates \union Binaries \union Blobs

\* A Bit has one word of 32 bits or two.
ASSUME ColumnsAssumption ==
    /\ Columns \subseteq [type : Types, len : Nat]
    /\ \A col \in Columns : col.type = "Bit" => col.len \in {1, 2}

Bits(type) ==
    CASE type \in {"Tinyint", "Tinyunsigned", "Year"} -> CharBits
      [] type \in {"Smallint", "Smallunsigned"}       -> ShortBits
      [] type \in {"Mediumint", "Mediumunsigned"}     -> MediumBits
      [] type \in {"Int", "Unsigned", "Timestamp"}    -> IntBits
      [] type \in {"Bigint", "Bigunsigned", "Bit"}    -> 2 * IntBits

Low(type)  == IF type \in Signed THEN -(2^(Bits(type) - 1)) ELSE 0
High(type) == IF type \in Signed THEN 2^(Bits(type) - 1) - 1 ELSE 2^Bits(type) - 1

Clamp(n, lo, hi) == IF n < lo THEN lo ELSE IF n > hi THEN hi ELSE n

\* n as a type of fewer bits
Wrap(n, type) == Low(type) + ((n - Low(type)) % 2^Bits(type))

long == IF arch = "i386" THEN "Int" ELSE "Bigint"
ulong == IF arch = "i386" THEN "Unsigned" ELSE "Bigunsigned"

-----------------------------------------------------------------------------
(* Texts of a request.  A number is read in base 10 (dec) or in the base its *)
(* prefix shows (any); other texts are characters, each alone or, in JSON,   *)
(* after a backslash (esc) or as \uXXXX (u).                                 *)

\* Mutant: an escaped character always stands for itself.
JSON_unescape_table_Printable == [c \in {34, 47, 92, 98, 102, 110, 114, 116} |-> c]

JSON_unescape_table ==
    [c \in {34, 47, 92, 98, 102, 110, 114, 116} |->
        CASE c = 98 -> 8 [] c = 102 -> 12 [] c = 110 -> 10 [] c = 114 -> 13
          [] c = 116 -> 9 [] OTHER -> c]

\* The UTF-8 of a character of more than 7 bits, in two to four bytes
UTF8Length(c) == IF c < 2048 THEN 2 ELSE IF c < 65536 THEN 3 ELSE 4
UTF8Bytes(c, n) ==
    [k \in 1..n |-> ((c \div <<1, 64, 4096, 262144>>[n - k + 1]) % 64)
                      + IF k > 1 THEN 128 ELSE <<0, 192, 224, 240>>[n]]
UTF8(c) == IF c < 128 THEN <<c>> ELSE UTF8Bytes(c, UTF8Length(c))

\* The first half of a surrogate pair waits for the second.
Unescape(s, x) ==
    IF x.esc = "u" /\ x.c \in 55296..57343
    THEN IF s.pair1 = 0 THEN [s EXCEPT !.pair1 = x.c]
         ELSE [pair1 |-> 0,
               text  |-> s.text \o UTF8(65536 + (s.pair1 % 1024) * 1024 + (x.c % 1024))]
    ELSE [s EXCEPT !.text = @ \o IF x.esc = "u" THEN UTF8(x.c)
                                 ELSE IF x.esc = "esc" THEN <<JSON_unescape_table[x.c]>>
                                 ELSE <<x.c>>]

JSON_unescape(s) == FoldLeft(Unescape, [pair1 |-> 0, text |-> << >>], s).text

\* strlen() characters of a text
CString(s) == SelectInSeq(s, LAMBDA c : c = 0)
AsString(s) == IF CString(s) = 0 THEN s ELSE SubSeq(s, 1, CString(s) - 1)

\* The len_string of an item: a form is cut at a zero byte, JSON is not.
Item(text) == IF text.json THEN JSON_unescape(text.chars)
              ELSE AsString([n \in 1..Len(text.chars) |-> text.chars[n].c])

-----------------------------------------------------------------------------
(* MySQL::value() and MySQL::binary_value(): what is stored for a text       *)

\* strtol() and strtoll(), strtoul() and strtoull(): a number too large gives
\* the largest, and "-" negates what is unsigned.
strtol(n, type)  == Clamp(n, Low(type), High(type))
strtoul(n, type) == IF n \in -High(type)..High(type) THEN Wrap(n, type) ELSE High(type)

\* the two words of a 64-bit integer, low word first
flip64(w) == IF arch = "i386" THEN w ELSE <<w[2], w[1]>>
Words(n) == <<n % 2^IntBits, n \div 2^IntBits>>

\* Mutant: values that are too low are left to the assignment.
NarrowValue_High(type, aux_int) == IF aux_int > High(type) THEN High(type)
                                   ELSE Wrap(aux_int, type)

\* "be like mysql: on overflow, put in the highest allowed value"
NarrowValue(type, aux_int) == Clamp(aux_int, Low(type), High(type))

number_value(col, text) ==
    LET aux_int == Wrap(strtol(text.any, long), "Int")
        big     == strtoul(text.any, "Bigunsigned")
    IN CASE col.type = "Int"         -> <<Wrap(strtol(text.dec, long), "Int")>>
         [] col.type \in {"Unsigned", "Timestamp"}
                                     -> <<Wrap(strtoul(text.any, ulong), "Unsigned")>>
         [] col.type = "Bigint"      -> <<strtol(text.any, "Bigint")>>
         [] col.type = "Bigunsigned" -> <<big>>
         [] col.type = "Bit"         -> SubSeq(flip64(Words(big)), 1, col.len)
         [] col.type = "Year"        -> <<Wrap(aux_int - YearBase, "Year")>>
         [] col.type \in Narrow      -> <<NarrowValue(col.type, aux_int)>>

\* What the database has for a number of 32 bits that is set as it is.
Direct(col, n) == IF col.type = "Bit" THEN SubSeq(Words(n), 1, col.len)
                  ELSE <<Wrap(n, col.type)>>

\* the bits that a or b has, of 30 in two's complement
BitOf(n, k) == (n \div 2^k) % 2
Or(a, b) == FoldLeft(LAMBDA n, k : IF BitOf(a, k) + BitOf(b, k) > 0 THEN n + 2^k ELSE n,
                     0, [j \in 1..30 |-> j - 1])

Pad(s, len, c) == s \o [n \in 1..(len - Len(s)) |-> c]
Cut(s, len) == SubSeq(s, 1, IF Len(s) < len THEN Len(s) ELSE len)

DateChars == 62     \* the characters of a date that are looked at, its sign apart

\* The first character is the sign; all else that is no digit separates.
Signs == {43, 45}
IsNegative(text) == LET s == AsString(Item(text)) IN s # << >> /\ Head(s) = 45
DigitsIn(s) == FlattenSeq([n \in 1..Len(s) |-> IF s[n] \in 48..57 THEN <<s[n]>> ELSE << >>])
DigitsOf(text) ==
    LET s == AsString(Item(text))
    IN DigitsIn(Cut(s, DateChars + IF s # << >> /\ Head(s) \in Signs THEN 1 ELSE 0))
Decimal(digits) == FoldLeft(LAMBDA n, c : 10 * n + (c - 48), 0, digits)

\* Mutant: the day has four bits.
PackDate_Four(year, month, day) == Or(Or(year * 256, month * 16), day)

PackDate(year, month, day) == Or(Or(year * 512, month * 32), day)

\* The year, month and day of a number, each with its sign
factor_YYYYMMDD(n) ==
    LET sign == IF n < 0 THEN -1 ELSE 1
        m    == sign * n
    IN <<sign * ((m \div 10000) % 10000), sign * ((m \div 100) % 100), sign * (m % 100)>>

\* date * 10^6 + time as an unsigned number of 64 bits, given as the quotient
\* by 10^6, which the code that reads it assigns to an int, and the rest: of
\* 2^64 these are -140462611 and 551616.
Datetime(date, time, negative) ==
    IF negative /\ (date > 0 \/ time > 0)
    THEN <<-140462611 - date - IF time > 551616 THEN 1 ELSE 0, (551616 - time) % 1000000>>
    ELSE <<date, time>>

date_value(col, text) ==
    LET digits == DigitsOf(text)
        n      == Decimal(digits)
        signed == IF IsNegative(text) THEN -n ELSE n
        cut    == IF Len(digits) > 6 THEN Len(digits) - 6 ELSE 0
    IN CASE col.type = "Date" ->
                LET tm == factor_YYYYMMDD(signed) IN <<PackDate(tm[1], tm[2], tm[3]) % 2^24>>
         [] col.type = "Time" -> <<((signed + 2^23) % 2^24) - 2^23>>
         [] col.type = "Datetime" ->
                Datetime(Decimal(SubSeq(digits, 1, cut)),
                         Decimal(SubSeq(digits, cut + 1, Len(digits))), IsNegative(text))

\* Mutant: the column is not taken into account.
Varchar_Uncut(s, len) == Cut(s, Len(s) % 2^CharBits)

\* The length has to fit one byte before it is compared with the column's.
Varchar(s, len)     == Cut(Cut(s, Len(s) % 2^CharBits), len)
Longvarchar(s, len) == Cut(Cut(s, Len(s) % 2^ShortBits), len)
Char(s, len)        == Pad(s, len, 32)

char_value(col, text) ==
    LET s == AsString(Item(text))
    IN CASE col.type = "Varchar"     -> Varchar(s, col.len)
         [] col.type = "Longvarchar" -> Longvarchar(s, col.len)
         [] col.type = "Char"        -> Char(s, col.len)

\* A byte of memory that nothing was written to
Junk == -1

binary_value(col, text) ==
    LET s == Cut(Item(text), col.len)
    IN CASE col.type = "Binary"        -> Pad(s, col.len, 0)
         [] col.type = "Varbinary"     -> s
         [] col.type = "Longvarbinary" ->     \* by ap_cpystrn()
                IF AsString(s) = s THEN s
                ELSE Pad(Append(AsString(s), 0), Len(s), Junk)
         [] col.type \in Blobs         -> Item(text)

value(col, text) == CASE col.type \in Numeric          -> number_value(col, text)
                      [] col.type \in Dates            -> date_value(col, text)
                      [] col.type \in Chars            -> char_value(col, text)
                      [] col.type \in Binaries \union Blobs -> binary_value(col, text)

-----------------------------------------------------------------------------
(* The texts that are sent to a column                                       *)

Characters == {x \in [esc : {"no", "esc", "u"}, c : Nat] :
                  x.esc = "esc" => x.c \in DOMAIN JSON_unescape_table}

Two(n) == <<48 + n \div 10, 48 + (n % 10)>>

\* The digits that say a date, and a time
DateDigits(year, month, day) ==
    Two(year \div 100) \o Two(year % 100) \o Two(month) \o Two(day)
TimeDigits(hours, minutes, seconds) ==
    (IF hours > 99 THEN <<48 + hours \div 100>> ELSE << >>)
    \o Two(hours % 100) \o Two(minutes) \o Two(seconds)

\* What dates, times (their sign first) and datetimes say
DatesSaid     == (0..9999) \X (0..12) \X (0..31)
TimesSaid     == {0, 1} \X (0..838) \X (0..59) \X (0..59)
DatetimesSaid == (0..9999) \X (0..12) \X (0..31) \X (0..23) \X (0..59) \X (0..59)

\* digits are all the digits of what says says, and only a time is negative.
SaysDate(says, digits, negative) ==
    /\ says \in DatesSaid /\ ~negative
    /\ digits = DateDigits(says[1], says[2], says[3])
SaysTime(says, digits, negative) ==
    /\ says \in TimesSaid
    /\ digits = TimeDigits(says[2], says[3], says[4])
    /\ negative <=> says[1] = 1
    /\ says # <<1, 0, 0, 0>>
SaysDatetime(says, digits, negative) ==
    /\ says \in DatetimesSaid /\ ~negative
    /\ digits = DateDigits(says[1], says[2], says[3])
                 \o TimeDigits(says[4], says[5], says[6])

\* text, of at most DateChars characters, is a date of its type that says what
\* it says; a text of type "none" is any.
IsDate(text) ==
    LET s == AsString(Item(text))
    IN /\ text.type \in Dates => Len(s) <= DateChars
       /\ CASE text.type = "Date"     -> SaysDate(text.says, DigitsIn(s), IsNegative(text))
            [] text.type = "Time"     -> SaysTime(text.says, DigitsIn(s), IsNegative(text))
            [] text.type = "Datetime" -> SaysDatetime(text.says, DigitsIn(s), IsNegative(text))
            [] OTHER                  -> TRUE

\* The digits that an int has room for, or of a datetime an int and six more
MostDigits(type) == IF type = "Datetime" THEN 15 ELSE 9

\* @++, @--, @null, @time and @autoinc: a value of its own for each type that
\* value() comes to after those of characters and dates
DynamicTexts == {<<64, 43, 43>>, <<64, 45, 45>>, <<64, 110, 117, 108, 108>>,
                 <<64, 116, 105, 109, 101>>, <<64, 97, 117, 116, 111, 105, 110, 99>>}

\* strcpy() of a text longer than a Char has no bound: none is sent; nor is
\* @time or @autoinc to a column of bytes.
ASSUME TextsAssumption ==
    \A col \in Columns : \A text \in Texts[col.type] :
        /\ text.kind \in {"@++", "@--", "@null", "@time", "@autoinc",
                         "number", "date", "string"}
        /\ text.kind \in {"@time", "@autoinc", "number"} => col.type \in Numeric
        /\ text.kind \in {"@++", "@--", "@null"} => col.type \in Numeric \union Binaries \union Blobs
        /\ text.kind = "number" => {text.dec, text.any} \subseteq Int
        /\ text.kind \in {"date", "string"} => text.json \in BOOLEAN /\ text.chars \in Seq(Characters)
        /\ text.kind = "date" => /\ col.type \in Dates /\ IsDate(text)
                                 /\ Len(DigitsOf(text)) <= MostDigits(col.type)
        /\ text.kind = "string" => /\ col.type \in Types \ (Numeric \union Dates)
                                   /\ col.type = "Char" => Len(AsString(Item(text))) <= col.len
                                   /\ col.type \in Binaries \union Blobs =>
                                          AsString(Item(text)) \notin DynamicTexts

-----------------------------------------------------------------------------
(* Writing.  Every request begins without buffers, so that nothing is lost   *)
(* by ending a behaviour with the first request that lacked memory (~oom).   *)

Row(v) == [null |-> FALSE, v |-> v]
NullRow == [null |-> TRUE, v |-> << >>]
Operand == [kind |-> "operand"]     \* a value that no text shows

\* incValue() and subValue() of the database, for unsigned columns: it refuses
\* them for others.
Interpreted(row, by) ==
    IF column.type \in {"Unsigned", "Bigunsigned"} /\ ~row.null
    THEN {[row |-> Row(<<Wrap(row.v[1] + by, column.type)>>), said |-> Operand]}
    ELSE {}

\* Plan::Write() of a text to no row or to an old one: the rows there may be
\* then.  Where there are none, the request is refused and nothing changes.
write(text, old) ==
    CASE text.kind = "@++"     -> UNION {Interpreted(row, 1) : row \in old}
      [] text.kind = "@--"     -> UNION {Interpreted(row, -1) : row \in old}
      [] text.kind = "@null"   -> {[row |-> NullRow, said |-> Operand]}
      [] text.kind = "@time"   -> {[row |-> Row(Direct(column, Now)), said |-> Operand]}
      [] text.kind = "@autoinc" ->
             {[row |-> Row(Direct(column, NextId)), said |-> Operand]}
      [] OTHER -> {[row |-> Row(value(column, text)), said |-> text]}

Rows == IF column.type \in Blobs THEN MaxRows ELSE 1

NoRequest == [pc |-> "idle"]

\* Only numbers depend on arch.
Init == /\ BufferInit
        /\ arch \in Archs /\ column \in Columns
        /\ column.type \notin Numeric => arch = CHOOSE a \in Archs : TRUE
        /\ table = << >> /\ said = << >>
        /\ req = NoRequest /\ blob = << >> /\ shown = << >>

\* Row k becomes the row of w; k may be that of a new row.
Put(k, w) == /\ table' = [n \in 1..Len(table) \union {k} |->
                            IF n = k THEN w.row ELSE table[n]]
             /\ said' = [n \in 1..Len(table) \union {k} |->
                           IF n = k THEN w.said ELSE said[n]]
             /\ UNCHANGED <<bvars, arch, column, req, blob, shown>>

Post(text, k) ==
    /\ req.pc = "idle" /\ ~oom /\ k <= Rows
    /\ \E w \in write(text, IF k \in DOMAIN table THEN {table[k]} ELSE {}) : Put(k, w)

\* A row that another client of the database puts there
OtherClient(k) == /\ req.pc = "idle" /\ ~oom /\ k <= Rows
                  /\ Put(k, [row |-> NullRow, said |-> Operand])

-----------------------------------------------------------------------------
(* What a value looks like (MySQL::result::out)                              *)

\* A backslash and a letter, or a backslash, u00 and two hexadecimal digits
leaning_toothpicks(c) ==
    CASE c \in {34, 92} -> <<92, c>>
      [] c = 8  -> <<92, 98>>   [] c = 12 -> <<92, 102>>  [] c = 10 -> <<92, 110>>
      [] c = 13 -> <<92, 114>>  [] c = 9  -> <<92, 116>>
      [] c \in 0..31 \ {8, 9, 10, 12, 13} ->
             LET hex == c % 16 IN <<92, 117, 48, 48, 48 + c \div 16,
                                    IF hex < 10 THEN 48 + hex ELSE 87 + hex>>
      [] OTHER -> <<c>>

xml_entities(c) == CASE c = 60 -> <<38, 108, 116, 59>>
                     [] c = 62 -> <<38, 103, 116, 59>>
                     [] c = 38 -> <<38, 97, 109, 112, 59>>
                     [] c = 34 -> <<38, 113, 117, 111, 116, 59>>
                     [] OTHER  -> <<c>>

Escape(esc, c) == CASE esc = "none" -> <<c>>
                    [] esc = "json" -> leaning_toothpicks(c)
                    [] esc = "xml"  -> xml_entities(c)
                    [] esc = "xmljson" -> IF xml_entities(c) # <<c>> THEN xml_entities(c)
                                          ELSE leaning_toothpicks(c)

escape_string(esc, s) == FlattenSeq([n \in 1..Len(s) |-> Escape(esc, s[n])])

\* Mutant: at most one zero byte at the end does not count.
Stripped_One(s) == IF s # << >> /\ Last(s) = 0 THEN Front(s) ELSE s

\* String(): zero bytes at the end do not count.
Stripped(s) == SubSeq(s, 1, SelectLastInSeq(s, LAMBDA c : c # 0))

factor_HHMMSS(n) == LET m == IF n < 0 THEN -n ELSE n
                    IN <<m \div 10000, (m \div 100) % 100, m % 100>>

\* A time that is -99 is taken for none.
field_to_tm(type, v) ==
    CASE type = "Date" -> <<v[1] \div 512, (v[1] \div 32) % 16, v[1] % 32>>
      [] type = "Time" -> IF v[1] = -99 THEN <<0, 0, 0, 0>>
                          ELSE <<IF v[1] < 0 THEN 1 ELSE 0>> \o factor_HHMMSS(v[1])
      [] type = "Datetime" -> factor_YYYYMMDD(v[1]) \o factor_HHMMSS(v[2])

\* The numbers that a number, a date or a time is printed as.
Printed(v) ==
    CASE column.type \in Integral -> v
      [] column.type = "Year" -> <<YearBase + v[1]>>
      [] column.type = "Bit"  -> LET w == flip64(Pad(v, 2, 0))
                                 IN <<w[1] + w[2] * 2^IntBits>>
      [] column.type \in Dates -> field_to_tm(column.type, v)

Figures[n \in Nat] == IF n < 10 THEN 1 ELSE Figures[n \div 10] + 1

\* the characters of "%d", and of "%0<least>d"
Decimals(n) == IF n < 0 THEN 1 + Figures[-n] ELSE Figures[n]
ZeroPadded(n, least) == IF Decimals(n) < least THEN least ELSE Decimals(n)

\* How many characters that takes
Width(v) ==
    CASE column.type \in Integral \union {"Bit"} -> Decimals(Printed(v)[1])
      [] column.type = "Year" -> 4
      [] column.type = "Date" -> IF Printed(v)[1] < 10000 THEN 10 ELSE 11
      [] column.type = "Time" -> LET hours == Figures[Printed(v)[2]]
                                 IN Printed(v)[1] + 6 + IF hours < 2 THEN 2 ELSE hours
      [] column.type = "Datetime" -> LET tm == Printed(v)
                                     IN ZeroPadded(tm[1], 4) + ZeroPadded(tm[2], 2)
                                          + ZeroPadded(tm[3], 2) + 11

-----------------------------------------------------------------------------
(* Reading: Plan::Read(), ExecuteAll() and build_results().  Every step has  *)
(* at most one operation of a buffer.                                        *)

IsBlob == column.type \in Blobs
Same == UNCHANGED bvars
At(pc) == req.pc = pc /\ Idle
GoTo(pc) == req' = [req EXCEPT !.pc = pc]
Keep == UNCHANGED <<rest, blob, shown>>

\* The row that is read now
Current == table[req.rows[req.at]]

\* A request for row k, or a scan, in some format.  Escapes are for strings,
\* and a byte of 128 or more would be a negative index of them.
Get(k, scan, raw, esc) ==
    /\ At("idle") /\ ~oom /\ k \in DOMAIN table
    /\ scan => k = 1
    /\ raw => esc = "none"
    /\ esc # "none" => /\ column.type \notin Numeric \union Dates
                       /\ \A row \in Range(table) : \A c \in Range(row.v) : c < 128
    /\ req' = [pc   |-> IF IsBlob THEN "result" ELSE "construct",
               rows |-> IF scan THEN [n \in 1..Len(table) |-> n] ELSE <<k>>,
               at |-> 1, scan |-> scan, raw |-> raw, esc |-> esc]
    /\ Same /\ Keep

\* MySQL::result::result() of a Text or Blob
NewContents  == /\ At("result") /\ construct("contents") /\ GoTo("init") /\ Keep
InitContents == /\ At("init") /\ init("contents", InitSize) /\ GoTo("construct") /\ Keep

\* my_results of ExecuteAll(); the BLOB of a single row is active once the
\* transaction is executed.
NewPage == /\ At("construct") /\ construct("page") /\ Keep
           /\ GoTo(IF IsBlob /\ ~req.scan THEN "hook" ELSE "build")

\* activateBlob(), which BlobHook() calls
activateBlob(next) ==
    /\ GoTo(next) /\ UNCHANGED <<rest, shown>>
    /\ IF Current.null \/ Current.v = << >>
       THEN Same /\ UNCHANGED blob
       ELSE /\ read_blob("contents", Len(Current.v))
            /\ blob' = blob \o Current.v

Execute == At("hook") /\ activateBlob("build")

\* the transaction fails
Fail == At("build") /\ GoTo("delete") /\ Same /\ Keep

\* build_results() of the raw format, which only a BLOB can have
Results_raw ==
    /\ At("build") /\ req.raw
    /\ IF IsBlob THEN /\ overlay("page", "contents")
                      /\ shown' = Append(shown, [k |-> req.rows[1], v |-> blob, len |-> Len(blob)])
                      /\ GoTo("send")
                 ELSE /\ Same /\ UNCHANGED shown /\ GoTo("delete")
    /\ UNCHANGED <<rest, blob>>

build_results == /\ At("build") /\ ~req.raw /\ init("page", InitSize)
                 /\ GoTo("row") /\ Keep

\* nextResult() of a scan makes the BLOB of the next row active.
nextResult == /\ At("row") /\ req.at <= Len(req.rows)
              /\ IF req.scan /\ IsBlob THEN activateBlob("out")
                 ELSE Same /\ Keep /\ GoTo("out")

Done == req' = [req EXCEPT !.pc = "row", !.at = @ + 1]

\* The page shows v of the current row.
Show(v, len) == /\ shown' = Append(shown, [k |-> req.rows[req.at], v |-> v, len |-> len])
                /\ UNCHANGED <<rest, blob>> /\ Done

\* the text of a string, which is what escapes and out() are for
Shown == IF IsBlob THEN blob ELSE Stripped(Current.v)

\* Mutant: room is made for the text as it is.
Escaped_Unescaped == LET s == escape_string(req.esc, Shown)
                     IN fill("page", Len(Shown), Len(s), TRUE)

\* escape_string(): the escaped length first, then the characters
Escaped == LET s == escape_string(req.esc, Shown)
           IN fill("page", Len(s), Len(s), TRUE)

CannotEscape == 24      \* strlen("++ CANNOT ESCAPE BLOB ++")

\* MySQL::result::out(), and what the format has for a NULL
OutNull == At("out") /\ Current.null /\ Done /\ Same /\ Keep

OutNumber == /\ At("out") /\ ~Current.null /\ column.type \in Numeric \union Dates
             /\ outf("page", Width(Current.v))
             /\ Show(Printed(Current.v), Width(Current.v))

OutString == /\ At("out") /\ ~Current.null
             /\ \/ column.type \in Chars \union Binaries \union {"Text"}
                \/ column.type = "Blob" /\ req.esc = "none"
             /\ IF Shown = << >> THEN Same
                ELSE IF req.esc = "none" THEN out("page", Len(Shown)) ELSE Escaped
             /\ Show(Shown, Len(escape_string(req.esc, Shown)))

OutBlob == /\ At("out") /\ ~Current.null
           /\ column.type = "Blob" /\ req.esc # "none"
           /\ outf("page", CannotEscape)
           /\ Show(<< >>, CannotEscape)

\* another pass of the loop of out(fmt, ...)
Again == retry("page") /\ UNCHANGED <<rest, req, blob, shown>>

Send == At("row") /\ req.at > Len(req.rows) /\ GoTo("send") /\ Same /\ Keep

\* The page is sent; cleanup() deletes the results, and my_results ends with
\* ExecuteAll().
Sent == /\ At("send") /\ GoTo("delete") /\ Same /\ Keep

\* Mutant: the results of a request that failed are not deleted.
Cleanup_IfShown == /\ At("delete") /\ GoTo("return") /\ Keep
                   /\ IF IsBlob /\ shown # << >> THEN destroy("contents") ELSE Same

Cleanup == /\ At("delete") /\ GoTo("return") /\ Keep
           /\ IF IsBlob THEN destroy("contents") ELSE Same

Return == /\ At("return") /\ destroy("page") /\ req' = NoRequest
          /\ blob' = << >> /\ shown' = << >> /\ UNCHANGED rest

Read == \/ NewContents \/ InitContents \/ NewPage \/ Execute \/ Results_raw
        \/ build_results \/ nextResult \/ OutNull \/ OutNumber \/ OutString
        \/ OutBlob \/ Again \/ Send \/ Sent \/ Cleanup \/ Return

Next == \/ \E text \in Texts[column.type], k \in 1..Len(table) + 1 : Post(text, k)
        \/ OtherClient(Len(table) + 1)
        \/ \E k \in DOMAIN table, scan, raw \in BOOLEAN,
              esc \in {"none", "json", "xml", "xmljson"} : Get(k, scan, raw, esc)
        \/ Fail
        \/ Read

\* A thread that has begun a request goes on with it.
Spec == Init /\ [][Next]_vars /\ WF_vars(Read)

-----------------------------------------------------------------------------
(* Properties                                                                *)

\* What a column of the type can hold
Holds(v) ==
    CASE column.type \in Integral -> v[1] \in Low(column.type)..High(column.type)
      [] column.type = "Bit"  -> \A n \in DOMAIN v : v[n] \in 0..2^IntBits - 1
      [] column.type = "Year" -> v[1] \in 0..2^CharBits - 1
      [] column.type = "Date" -> v[1] \in 0..2^24 - 1
      [] column.type = "Time" -> v[1] \in -(2^23)..2^23 - 1
      [] column.type \in {"Char", "Binary"} -> Len(v) = column.len
      [] column.type \in (Chars \union Binaries) \ {"Char", "Binary"} -> Len(v) <= column.len
      [] OTHER -> TRUE

\* The variables have their types, those of the buffers included, and a row
\* holds no more than its column can.
TypeOK ==
    /\ BufferTypeOK
    /\ arch \in Archs /\ column \in Columns
    /\ Len(said) = Len(table) /\ Len(table) <= Rows
    /\ \A row \in Range(table) : IF row.null THEN row.v = << >> ELSE Holds(row.v)
    /\ req.pc # "idle" => Range(req.rows) \subseteq DOMAIN table
    /\ \A e \in Range(shown) : e.k \in DOMAIN table

\* The numbers that get through strtol(), strtoul() and the int they are
\* assigned to; a negative number for an unsigned column of 32 bits or more
\* does not, nor does one for a Bit of one word where the words are exchanged.
Fits(n) ==
    CASE column.type \in Narrow \union {"Int"} ->
             arch = "i386" \/ n \in Low("Int")..High("Int")
      [] column.type \in {"Unsigned", "Timestamp"} ->
             n >= 0 /\ (arch = "i386" \/ n <= High("Unsigned"))
      [] column.type = "Bigint" -> TRUE
      [] column.type = "Bigunsigned" -> n >= 0
      [] column.type = "Bit" ->
             n >= 0 /\ (column.len = 2 \/ (arch = "i386" /\ n <= High("Unsigned")))
      [] column.type = "Year" -> n \in YearBase..YearBase + 2^CharBits - 1

\* A number that was written is shown as it was, or as the highest or lowest
\* that its column can have (MySQL_value.cc:279-335 and MySQL_result.cc:138-216).
NumbersAreClamped ==
    \A e \in Range(shown) :
        LET text == said[e.k]
            n    == IF column.type = "Int" THEN text.dec ELSE text.any
        IN text.kind = "number" /\ Fits(n) =>
               e.v = <<IF column.type = "Year" THEN n
                       ELSE Clamp(n, Low(column.type), High(column.type))>>

\* A date, time or datetime with all its digits is shown as it was written if
\* only a time has "-" before it, with any separators that keep it within
\* DateChars (date_value() and field_to_tm()).
DatesComeBack ==
    \A e \in Range(shown) :
        LET text == said[e.k]
        IN text.kind = "date" /\ text.type = column.type => e.v = text.says

\* A string is shown up to the length of its column, if one byte or two hold
\* its own length; a Longvarbinary is copied as if it were a string; of a scan,
\* the first Text, and none in the raw format, which fetches no row
\* (char_value(), binary_value() and String()).
StringsComeBack ==
    \A i \in DOMAIN shown :
        LET text == said[shown[i].k]
            s    == IF column.type \in Chars THEN AsString(Item(text)) ELSE Item(text)
            cut  == Cut(s, column.len)
        IN text.kind = "string" =>
             CASE column.type = "Char" -> shown[i].v = Pad(s, column.len, 32)
               [] column.type \in Blobs ->
                    \/ i > 1 \/ (req.raw /\ req.scan)
                    \/ column.type = "Blob" /\ req.esc # "none"
                    \/ shown[i].v = s
               [] OTHER ->
                    \/ column.type = "Varchar" /\ Len(s) >= 2^CharBits
                    \/ column.type = "Longvarchar" /\ Len(s) >= 2^ShortBits
                    \/ column.type = "Longvarbinary" /\ AsString(cut) # cut
                    \/ shown[i].v = Stripped(cut)

\* A string as the JSON format shows it
AsJSON(s) ==
    LET digit(c) == IF c < 58 THEN c - 48 ELSE c - 87
        Char1(e) == IF Len(e) = 6 THEN [esc |-> "u", c |-> 16 * digit(e[5]) + digit(e[6])]
                    ELSE IF Len(e) = 2 THEN [esc |-> "esc", c |-> e[2]]
                    ELSE [esc |-> "no", c |-> e[1]]
    IN [n \in 1..Len(s) |-> Char1(Escape("json", s[n]))]

\* A string that the JSON format shows is the same string when it is sent back
\* as JSON (escape_leaning_toothpicks against JSON_unescape_table).
JSONComesBack ==
    \A e \in Range(shown) :
        req.esc = "json" => JSON_unescape(AsJSON(e.v)) = e.v

\* Without a failed allocation, a page that is sent has the length of all that
\* it shows, however often its buffer grew or a formatted write began again.
PageIsWhole ==
    req.pc = "send" /\ ~oom =>
        buf["page"].sz = FoldLeft(LAMBDA n, e : n + e.len, 0, shown)

\* When a request has ended, however it did, the buffers and all their blocks
\* are gone: that of a raw page too, which two buffers had.
NothingIsKept ==
    req.pc = "idle" => /\ \A b \in Buffers : buf[b] = NoBuffer
                       /\ \A k \in Blocks : heap[k] = 0

\* Every request ends: the passes of a formatted write do not go on for ever,
\* and every row of a scan is left.
RequestsEnd == (req.pc # "idle") ~> (req.pc = "idle" \/ fault)
=============================================================================
