SPECIFICATION WatchedSpec
CONSTANTS Images = {"good", "sick", "crashy"}  Sick = {"sick"}  Crashy = {"crashy"}
  FirstImage = "good"  MaxAttempts = 2  MaxFaults = 2  MaxReleases = 2
INVARIANTS TypeOK TrialHasFallback FailedCheckRollsBack
PROPERTIES NeverBootsRejected ImplementsSafeUpdate UpdateEnds
