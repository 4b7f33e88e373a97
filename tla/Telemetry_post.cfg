SPECIFICATION TelFairSpec
CONSTANTS Frames = {"good", "bad"}  Interval = 2  Senders = {"mppt", "system"}  MaxErrors = 2
INVARIANTS TelTypeOK FramesAreHandled NeverStartsTwice LossesAreCounted OnePostAtATime
PROPERTIES KeepsListening KeepsPosting KeepsReporting
CHECK_DEADLOCK FALSE
