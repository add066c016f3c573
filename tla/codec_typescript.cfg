\* A TypeScript client loses the producer keys under meta.scitrera.
SPECIFICATION CodecSpec
CONSTANTS
    None = None
    Absent = Absent
    NotADict = NotADict
    w1 = w1
    w2 = w2
    th0 = th0
    th1 = th1
    time0 = time0
    time1 = time1
    val = val
    Workspace = {w1, w2}
    Client = {"python", "go", "typescript"}
    TagsAtRisk = TRUE
    NullsAtRisk = FALSE
    Key <- MCKey
    Value <- MCValue
    Row <- MCRow
    Composed <- TaggedMessages
    Foreign <- NoRows
INVARIANTS Lossless
