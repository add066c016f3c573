\* A result that arrives after the text that follows another result is cut off from its call.
SPECIFICATION CoworkSpec
CONSTANTS
    None = None
    FileMark = FileMark
    NewId = NewId
    Quote = Quote
    NullMark = NullMark
    a = a
    val = val
    c1 = c1
    c2 = c2
    row = row
    Kind = {"text", "image", "file", "call", "result", "reasoning", "feedback", "citation", "dynamic", "unknown"}
    Id = {c1, c2, row, NewId}
    Token = {a, val, FileMark, Quote, NullMark}
    MaxParts = 5
    Given <- OneAssistant
    Turn <- NoTurns
INVARIANTS ResultsFollowTheirCall
CHECK_DEADLOCK FALSE
