SPECIFICATION Spec
CONSTANTS
    Operator = {o1, o2}
    Scanner = {}
    Record = {1}
    Repo = {p1}
    Artifact = {a1}
    Text = {spam, notice}
    Notice = {notice}
    Linked = {spam}
    Trainable = {spam, notice}
    RescanTerminal = FALSE
    Kinds = {"quarantine", "restore", "dismiss", "redact", "reopen", "classify", "flag"}
    Modes = {"empty"}
    None = None
SYMMETRY OperatorSymmetry
INVARIANTS
    NoticeTracked
    DecisionsRecorded
