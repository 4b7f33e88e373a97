SPECIFICATION Spec
CONSTANTS Frames = {"good"}  Interval = 1
INVARIANT ScanningIsTrue
CHECK_DEADLOCK FALSE
