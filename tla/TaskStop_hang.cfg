SPECIFICATION FairSpec
CONSTANTS MayFail = FALSE  Loggers = {"victron", "metrics", "host"}
PROPERTY StopLetsOtaRun
CHECK_DEADLOCK FALSE
