SPECIFICATION CronSpec
CONSTANTS
    worker = worker
    cron = cron
    None = None
    Scanner <- MCScanner
    Run <- Two
    Repo <- One
    BatchSize = 1
    Budgets <- All
    DryRuns <- Dry
    Kinds = {"out", "spam"}
    Sleep = 0
    Second = 2
    Timeout = 2
    StartDelay = 1
    Prompt = FALSE
    Slack = 0
INVARIANTS
    TypeOK
    OneRunning
PROPERTIES
    EndedRunsKeep
    OnlyStaleAreRecovered
    EveryRunEnds
CHECK_DEADLOCK FALSE
