SPECIFICATION Spec
CONSTANTS
    None = None
    Chats = {c1, c2}
    Others = {o1}
    Conversations = {first, new}
    Own = {first}
    Limit = 2
    MaxFetches = 3
INVARIANTS ConsoleInv TranscriptOfSelected OneQuestionPerClick
SYMMETRY Alike
CHECK_DEADLOCK FALSE
