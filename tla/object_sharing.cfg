\* Two builders, one receiver in their process, callers that share and edit
\* whatever they hold.
SPECIFICATION SharingSpec
CONSTANTS
    MessageId = {m1, m2}
    Namespace = {n1}
    Key = {k1}
    CallerDict = {d1}
    CallerPart = {p1}
    MaxLog = 4
    MaxBirths = 5
    MaxEdits = 1
SYMMETRY MCSymmetry
INVARIANTS SentStays NearIsFar HandIsOwn
CHECK_DEADLOCK FALSE
