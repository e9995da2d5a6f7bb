\* A channel and an API key; the scheduled flush, and those of new days that meet it;
\* every edit of the panel, one restart.
SPECIFICATION FairStatsSpec
CONSTANTS
    Owner = {"channel"}
    ApiKey = {"key"}
    Task = {"task"}
    Rollover = {"rollover", "next rollover"}
    Starts <- AllStarts
    MaxTotal = 3
    MaxUse <- TwiceAndOnce
    MaxDay = 2
    MaxBoot = 1
INVARIANTS
    NothingForgotten
    
PROPERTIES
    
    CountersNeverGoBack
    DeletedStaysDeleted
    SavedInTheEnd
