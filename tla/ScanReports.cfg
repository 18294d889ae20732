SPECIFICATION Spec
CONSTANTS
    worker = worker
    cron = cron
    None = None
    Scanner = {worker}
    Run <- One
    Repo <- Four
    BatchSize = 2
    Budgets <- Bounded
    DryRuns <- NotDry
    Kinds = {"out", "spam"}
    Sleep = 0
    Second = 1
    Timeout = 3
    StartDelay = 1
    Prompt = TRUE
    Slack = 0
INVARIANTS
    ReportsAreTrue
    NothingMissed
    BudgetKept
CHECK_DEADLOCK FALSE
