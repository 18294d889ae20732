SPECIFICATION Spec
CONSTANTS
    Operator = {o1}
    Scanner = {s1}
    Record = {1, 2}
    Repo = {p1}
    Artifact = {a1}
    Text = {spam, notice}
    Notice = {notice}
    Linked = {spam}
    Trainable = {spam, notice}
    RescanTerminal = FALSE
    Kinds = {"quarantine", "restore", "dismiss"}
    Modes = {"empty"}
    None = None
INVARIANTS
    DescriptionKeptAtRest
