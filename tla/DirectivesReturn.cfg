\* Sections in which an index may name its own column again, or another's.
SPECIFICATION Spec
CONSTANTS
    Columns = {1, 2, 3}
    Indexes = {"P", "O"}
    IndexType <- MCIndexType
    MaxPath = 1
    MaxArgs = 1
    Reuse = TRUE
INVARIANTS
    DirectivesReturn
CHECK_DEADLOCK FALSE
