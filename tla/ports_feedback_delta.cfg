\* A part that has a text and is neither text nor reasoning (feedback, or a tool
\* call with an undeclared one) grows in Python only, with no fault at all.
SPECIFICATION PortsSpec
CONSTANTS
    None = None
    Absent = Absent
    MessageId = {m1}
    Token = {t1}
    PartId = {c1}
    MetaKey = {k1}
    MetaVal = {v1}
    Namespace = {ns}
    Faults = {}
    MaxFaults = 2
    MaxLog = 4
    LateEdits = FALSE
    PartInputs <- TextAndFeedback
    Patches <- GiveText
    StatusInputs <- OneStatus
    MetaInputs <- NoBuckets
    PartMeta <- NoBuckets
INVARIANTS PortsAgree
CHECK_DEADLOCK FALSE
