\* One message, every builder operation, no sink failure, edits of a finalized
\* message, and a restart under the same id: the id index, duplicates and status
\* updates.
SPECIFICATION BuilderSpec
CONSTANTS
    None = None
    Absent = Absent
    MessageId = {m1}
    Token = {t1}
    PartId = {c1, c2}
    MetaKey = {k1, k2}
    MetaVal = {v1}
    Namespace = {ns}
    Faults = {"restart"}
    MaxFaults = 1
    MaxLog = 4
    LateEdits = TRUE
    PartInputs <- TextAndFeedback
    Patches <- MorphOut
    StatusInputs <- GoodAndBadStatus
    MetaInputs <- OneKeyBuckets
    PartMeta <- OneKeyBuckets
INVARIANTS BuilderTypeOK IndexSound NoDuplicateIds
PROPERTIES StatusReachesItsPart
CHECK_DEADLOCK FALSE
