SPECIFICATION RetrySpec
CONSTANTS
    Operator = {o1}
    Scanner = {s1}
    Record = {1}
    Repo = {p1}
    Artifact = {a1}
    Text = {spam, notice, notice2}
    Notice = {notice, notice2}
    Linked = {spam}
    Trainable = {spam, notice, notice2}
    RescanTerminal = FALSE
    Kinds = {"quarantine", "restore", "reopen", "dismiss", "redact", "classify", "flag"}
    Modes = {"empty", "tagged", "inactive", "gone"}
    None = None
INVARIANTS
    TypeOK
    DescriptionKept
    LabelFollowsDecision
PROPERTIES
    LifecycleHolds
    HistoryIsAPath
    RetryConverges
