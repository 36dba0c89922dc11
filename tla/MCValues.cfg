\* One column of each type, every text that suits it, and every request.
SPECIFICATION Spec
CONSTANTS
    Buffers = {"page", "contents"}
    Blocks = {"block1", "block2"}
    Null = "null"
    Garbage = {0, 3}
    CharBits = 2
    ShortBits = 3
    MediumBits = 4
    IntBits = 5
    YearBase = 10
    InitSize = 4
    Archs = {"i386", "lp64"}
    Columns <- MCColumns
    Texts <- MCTexts
    Now = 21
    NextId = 37
    MaxRows = 2
INVARIANTS
    TypeOK
    BlocksAreOwned
    FaultsFollowOom
    NumbersAreClamped
    DatesComeBack
    StringsComeBack
    JSONComesBack
    PageIsWhole
    NothingIsKept
PROPERTIES
    RequestsEnd
\* A child that writes to a block that is not there dies.
CHECK_DEADLOCK FALSE
