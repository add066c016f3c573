\* Every assistant message of up to five parts, every thread of up to three messages,
\* every history of up to three LangChain messages, every turn of up to two blocks.
SPECIFICATION CoworkSpec
CONSTANTS
    None = None
    FileMark = FileMark
    NewId = NewId
    Quote = Quote
    NullMark = NullMark
    a = a
    val = val
    c1 = c1
    c2 = c2
    row = row
    Kind = {"text", "image", "file", "call", "result", "reasoning", "feedback", "citation", "dynamic", "unknown"}
    Id = {c1, c2, row, NewId}
    Token = {a, val, FileMark, Quote, NullMark}
    MaxParts = 5
    Given <- AllGiven
    Turn <- Turns
INVARIANTS ChronologyKept ComesBack RoundsStayPaired ComesBackInline ResumesTheSame SameForEveryProvider ProvidersAnswerInTurn FilesMentioned TurnComesThrough
CHECK_DEADLOCK FALSE
