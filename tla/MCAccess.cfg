\* Every section of up to three directives over three columns and an index of
\* each kind, and for each of them every request of up to two arguments and a
\* path of one part.
SPECIFICATION AccessSpec
CONSTANTS
    Columns = {1, 2, 3}
    Indexes = {"P", "U", "O"}
    IndexType <- MCIndexType
    MaxPath = 1
    MaxArgs = 2
    Reuse = FALSE
    MaxDirectives = 3
    MaxParts = 2
INVARIANTS
    AccessTypeOK
    PrefixIsBound
    DeathHasACause
\* A section serves one request.
CHECK_DEADLOCK FALSE
