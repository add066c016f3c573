\* A sink that raises inside add_tool_call or add_subagent.
SPECIFICATION BuilderSpec
CONSTANTS
    None = None
    Absent = Absent
    MessageId = {m1}
    Token = {t1}
    PartId = {c1, c2}
    MetaKey = {k1, k2}
    MetaVal = {v1}
    Namespace = {ns}
    Faults = {"sink"}
    MaxFaults = 1
    MaxLog = 3
    LateEdits = FALSE
    PartInputs <- TextAndFeedback
    Patches <- MorphOut
    StatusInputs <- GoodAndBadStatus
    MetaInputs <- OneKeyBuckets
    PartMeta <- OneKeyBuckets
CHECK_DEADLOCK FALSE
INVARIANTS NoDuplicateIds
