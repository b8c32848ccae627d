SPECIFICATION Spec
CONSTANTS
    LEN = 6
    MaxNum = 255
    MAX_STR_LEN = 4
    MaxKey = 16383
    NoResult = NoResult
    Moves <- CornerMoves
    MaxMs = 1
    MaxMoves = 3
INVARIANTS
    TypeOK
    RowReplays
    RowIsComplete
    ResultReadsBack
    UserListAgrees
CHECK_DEADLOCK FALSE
