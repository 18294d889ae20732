SPECIFICATION Spec
CONSTANTS
    worker = worker
    cron = cron
    None = None
    Scanner <- MCScanner
    Run <- Two
    Repo <- One
    BatchSize = 1
    Budgets <- All
    DryRuns <- NotDry
    Kinds = {"out", "spam"}
    Sleep = 15
    Second = 2
    Timeout = 7
    StartDelay = 1
    Prompt = TRUE
    Slack = 1
INVARIANTS
    ProgressKeepsLease
    ProgressInv
CHECK_DEADLOCK FALSE
