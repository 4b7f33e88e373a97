SPECIFICATION LuckySpec
CONSTANTS Images = {"first", "good", "sick"}  Sick = {"sick"}  Crashy = {"first"}
  FirstImage = "first"  MaxAttempts = 1  MaxFaults = 0  MaxReleases = 2
PROPERTIES LatestRuns
