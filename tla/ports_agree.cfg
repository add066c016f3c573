\* The three reducers on lossy, repeated and restarted streams, where every
\* patch is one that any part can take and only text parts grow.
SPECIFICATION PortsSpec
CONSTANTS
    None = None
    Absent = Absent
    MessageId = {m1}
    Token = {t1}
    PartId = {c1}
    MetaKey = {k1}
    MetaVal = {v1}
    Namespace = {ns}
    Faults = {"sink", "restart", "lose", "redeliver", "rejoin"}
    MaxFaults = 2
    MaxLog = 4
    LateEdits = FALSE
    PartInputs <- TextOnly
    Patches <- MorphToReasoning
    StatusInputs <- OneStatus
    MetaInputs <- NoBuckets
    PartMeta <- NoBuckets
INVARIANTS PortsAgree
CHECK_DEADLOCK FALSE
