------------------------------ MODULE MCValues ------------------------------
(* One column of every type, and texts around the limits of each: integers   *)
(* have 2, 3, 4 and 5 bits for the 8, 16, 24 and 32 of the code.             *)
EXTENDS Values

Column(type, len) == [type |-> type, len |-> len]

MCColumns ==
    {Column(type, 0) : type \in Integral \union {"Year"} \union Dates \union Blobs}
    \union {Column("Bit", 1), Column("Bit", 2), Column("Char", 3),
            Column("Varchar", 2), Column("Varchar", 3), Column("Longvarchar", 5),
            Column("Binary", 3), Column("Varbinary", 3), Column("Longvarbinary", 5)}

Number(dec, any) == [kind |-> "number", dec |-> dec, any |-> any]
Special(kind) == [kind |-> kind]

Plain(chars) == [n \in 1..Len(chars) |-> [esc |-> "no", c |-> chars[n]]]
String(chars) == [kind |-> "string", json |-> FALSE, chars |-> Plain(chars)]
JSONString(chars) == [kind |-> "string", json |-> TRUE, chars |-> chars]
Esc(c) == [esc |-> "esc", c |-> c]
U(c)   == [esc |-> "u", c |-> c]
C(c)   == [esc |-> "no", c |-> c]

\* digits and separators of a date; type is "none" if digits are missing, or if
\* there are too many, or for the sign of what is no time
Date(type, chars, says) == [kind |-> "date", json |-> FALSE, type |-> type,
                            chars |-> Plain(chars), says |-> says]
D(n) == 48 + n

Numbers ==
    {Number(n, n) : n \in {-513, -512, -33, -17, -16, -9, -8, -5, -4, -3, -2, -1,
                           0, 1, 3, 4, 7, 8, 10, 13, 14, 15, 16, 31, 32, 33,
                           511, 512, 1023, 1024}}
    \union {Number(10, 8), Number(0, 31)}      \* "010" and "0x1F"
    \union {Special(kind) : kind \in {"@null", "@++", "@--", "@time", "@autoinc"}}

DateTexts ==
    {Date("Date", <<D(2), D(0), D(0), D(9), 45, D(1), D(1), 45, D(3), D(1)>>, <<2009, 11, 31>>),
     Date("Date", <<D(0), D(0), D(0), D(0), D(0), D(0), D(0), D(1)>>, <<0, 0, 1>>),
     Date("none", <<D(2), D(0), D(0), D(9), 45, D(9), 45, D(3)>>, << >>),
     Date("none", << >>, << >>),
     Date("Time", <<45, D(0), D(0), 58, D(5), D(0), 58, D(0), D(1)>>, <<1, 0, 50, 1>>),
     Date("Time", <<D(8), D(3), D(8), 58, D(5), D(9), 58, D(5), D(9)>>, <<0, 838, 59, 59>>),
     Date("none", <<D(8), D(3), D(9), 58, D(0), D(0), 58, D(0), D(0)>>, << >>),
     Date("none", <<45, D(9), D(9)>>, << >>),
     Date("none", <<45, D(2), D(0), D(0), D(9), 45, D(1), D(1), 45, D(3), D(1)>>, << >>),
     Date("Date", <<43, D(2), D(0), D(0), D(9), 45, 45, D(1), D(1), 45, D(3), D(1)>>,
          <<2009, 11, 31>>),
     Date("none", <<43>> \o [n \in 1..61 |-> 32] \o <<D(7), D(8)>>, << >>)}

DatetimeTexts == DateTexts \union
    {Date("none", <<45, D(2), D(0), D(0), D(9), 45, D(1), D(1), 45, D(0), D(1), 32,
                    D(6), D(0), 58, D(0), D(0), 58, D(0), D(0)>>, << >>),
     Date("Datetime", <<D(2), D(0), D(0), D(9), D(1), D(1), D(0), D(1), 47,
                        D(1), D(3), 58, D(3), D(0), 58, D(5), D(9)>>,
          <<2009, 11, 1, 13, 30, 59>>)}

ShortStrings ==
    {String(s) : s \in {<< >>, <<97>>, <<97, 60>>, <<34, 92, 10>>}}
    \union {JSONString(s) : s \in {<<Esc(110)>>, <<Esc(34), C(97)>>, <<U(7), U(31)>>}}

Strings == ShortStrings
    \union {String(s) : s \in {<<97, 98, 99, 100>>, <<97, 98, 99, 100, 38>>,
                               <<97, 98, 99, 100, 101, 102, 103, 104, 105>>}}
    \union {JSONString(s) : s \in {<<C(97), U(0), C(98)>>, <<C(97), U(0)>>, <<U(233)>>,
                                   <<U(8364)>>, <<U(55357), U(56832)>>}}

BlobTexts ==
    {String(s) : s \in {<< >>, <<97, 60>>, <<97, 98, 99, 100, 38>>}}
    \union {JSONString(s) : s \in {<<Esc(110)>>, <<U(8364)>>}}

Dynamic == {Special(kind) : kind \in {"@null", "@++"}}

\* strcpy() of a text longer than a Char has no bound, and dates and times of
\* more digits than an int has overflow it: neither is among the texts, nor is
\* what would be read past a value of 32 bits that is set in a Bit of 64.
MCTexts == [type \in {col.type : col \in MCColumns} |->
    CASE type = "Bit" -> Numbers \ {Special("@autoinc")}
      [] type \in Numeric \ {"Bit"} -> Numbers
      [] type \in {"Date", "Time"} -> DateTexts
      [] type = "Datetime" -> DatetimeTexts
      [] type = "Char" -> ShortStrings
      [] type \in Blobs -> BlobTexts \union Dynamic
      [] type \in Binaries -> Strings \union Dynamic
      [] OTHER -> Strings]
=============================================================================
