\* One lost event, and no other fault: a later part_updated may then not suit the
\* receiver's copy, and the ValidationError ends its loop before the final event.
SPECIFICATION StreamSpec
CONSTANTS
    None = None
    Absent = Absent
    MessageId = {m1}
    Token = {t1}
    PartId = {c1}
    MetaKey = {k1}
    MetaVal = {v1}
    Namespace = {ns}
    Receiver = {r1}
    Faults = {"lose"}
    MaxFaults = 1
    MaxLog = 4
    LateEdits = FALSE
    PartInputs <- TextOnly
    Patches <- MorphOrNullText
    StatusInputs <- OneStatus
    MetaInputs <- NoBuckets
    PartMeta <- NoBuckets
INVARIANTS FinalEventReaches
CHECK_DEADLOCK FALSE
