SPECIFICATION Spec
CONSTANTS
    Request = {r1, r2, r3}
    Classifier = {c1, c2, c3}
    None = None
SYMMETRY Alike
INVARIANTS
    TypeOK
    OnePolicyRow
    NoWaitCycle
PROPERTIES
    SwitchedAtOnce
