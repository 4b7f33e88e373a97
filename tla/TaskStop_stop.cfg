SPECIFICATION FairSpec
CONSTANTS MayFail = TRUE  Loggers = {"victron", "metrics", "host"}
INVARIANTS TypeOK RelaySurvives OnlyHostRemains
PROPERTY ReachesOta
CHECK_DEADLOCK FALSE
