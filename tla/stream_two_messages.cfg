\* Two messages streaming at once to one receiver, one fault of any kind per
\* behaviour, the loss of a final event included.
SPECIFICATION StreamSpec
CONSTANTS
    None = None
    Absent = Absent
    MessageId = {m1, m2}
    Token = {t1}
    PartId = {c1}
    MetaKey = {k1}
    MetaVal = {v1}
    Namespace = {ns}
    Receiver = {r1}
    Faults = {"sink", "restart", "lose", "lose_final", "redeliver", "rejoin"}
    MaxFaults = 1
    MaxLog = 4
    LateEdits = FALSE
    PartInputs <- TextOnly
    Patches <- MorphOrNullText
    StatusInputs <- OneStatus
    MetaInputs <- NoBuckets
    PartMeta <- NoBuckets
SYMMETRY MCSymmetry
INVARIANTS EventsTell InSync NeverRaises FinalMatches
PROPERTIES ImplementsMirror
CHECK_DEADLOCK FALSE
