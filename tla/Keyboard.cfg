CONSTANTS
    NrTasks = 3
    Length = 3
    MaxCount = 2
    Rows <- MCRows
    Plain <- MCPlain
    Shifted <- MCShifted
    TypingKeys = {"LETTER", "PAD_4"}
    Letters = {"LETTER"}
    ArrowKeys = {"PAD_4"}
    NoKey = "NoKey"
SPECIFICATION Spec
INVARIANTS
    ReadersSound
PROPERTIES
    TypedAsMeant
    LockSpec
    TypeAheadSpec
