\* One message and one receiver, two faults per behaviour, and the final event
\* always arrives: safety, the refinement, and every message ends as its final
\* version everywhere.
SPECIFICATION FairStreamSpec
CONSTANTS
    None = None
    Absent = Absent
    MessageId = {m1}
    Token = {t1}
    PartId = {c1}
    MetaKey = {k1}
    MetaVal = {v1}
    Namespace = {ns}
    Receiver = {r1}
    Faults = {"sink", "restart", "lose", "redeliver", "rejoin"}
    MaxFaults = 2
    MaxLog = 3
    LateEdits = FALSE
    PartInputs <- BegunText
    Patches <- MorphOrNullText
    StatusInputs <- OneStatus
    MetaInputs <- OneKeyBuckets
    PartMeta <- OneKeyBuckets
INVARIANTS StreamTypeOK InSync NeverRaises FinalMatches
PROPERTIES ImplementsMirror Converges
CHECK_DEADLOCK FALSE
