\* Two passes that may overlap or be cut off, jobs that may raise and be retried,
\* and a Sidekiq process that may die.
SPECIFICATION FairSpec
CONSTANTS
    Events = {e1}
    OddsThreads = {w1, w2}
    Jobs = {j1, j2}
    MaxWait = 1
    MaxRetry = 1
    MaxMishaps = 1
    MaxSlips = 2
    None = None
INVARIANTS
    MonitorsBounded
    NoSilentAbandon
    NothingLeftBehind
PROPERTIES
    EndedIsFinal
    EventuallyEnded
