\* A container of up to four lines, with the built-in formats, and every
\* request for a section that uses one of them.
SPECIFICATION Spec
CONSTANTS
    FormatNames = {"JSON", "mine"}
    Words <- MCWords
    Lines <- MCLines
    MaxLines = 4
    MaxFormats = 2
    MaxServers = 2
    Columns = 2
    MaxRows = 3
    Nulls <- MCNulls
INVARIANTS
    TypeOK
    NamesResolve
    FormatsAreClosed
    TextsAreKept
    TypedFormatsServe
    PageIsRendered
\* A server that refuses its configuration, or whose child died, stops.
CHECK_DEADLOCK FALSE
