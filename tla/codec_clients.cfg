\* Clients of all three languages in turn, on any message and any foreign row.
SPECIFICATION CodecSpec
CONSTANTS
    None = None
    Absent = Absent
    NotADict = NotADict
    w1 = w1
    w2 = w2
    th0 = th0
    th1 = th1
    time0 = time0
    time1 = time1
    val = val
    Workspace = {w1, w2}
    Client = {"python", "go", "typescript"}
    TagsAtRisk = FALSE
    NullsAtRisk = FALSE
    Key <- MCKey
    Value <- MCValue
    Row <- MCRow
    Composed <- AllMessages
    Foreign <- ForeignRows
INVARIANTS CodecTypeOK Lossless OnlyFilled ReadersAgree OriginStays
