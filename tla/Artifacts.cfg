SPECIFICATION Spec
CONSTANTS
    Request = {r1, r2}
    Classifier = {c1, c2}
    v1 = v1
    v2 = v2
    v3 = v3
    low = low
    high = high
    Version = {v1, v2}
    Threshold = {low, high}
    Upload <- OneFile
    MaxExamples = 1
    Kinds = {"import", "train", "export"}
    None = None
    persistent = r1
SYMMETRY Alike
INVARIANTS
    TypeOK
    RowsNameTheirObject
PROPERTIES
    StoredOnce
    TrainingKept
    ContentHolds
