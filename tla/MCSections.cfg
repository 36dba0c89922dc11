\* Every section of up to three columns, each in at most one of two indexes,
\* and for each of them every request of up to two arguments and a path of up
\* to two parts.
SPECIFICATION Spec
CONSTANTS
    Columns = {1, 2, 3}
    Indexes = {"P", "O"}
    IndexType <- MCIndexType
    MaxPath = 2
    MaxArgs = 2
    Reuse = FALSE
INVARIANTS
    SearchFindsColumns
    LinksAgree
    CompleteKeyIsBound
    BestIndexIsUsed
PROPERTIES
    ImplementsDeclarations
\* Reading httpd.conf ends.
CHECK_DEADLOCK FALSE
