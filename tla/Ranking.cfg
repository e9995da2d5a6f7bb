\* Three members; two requests pick from two keys in the allocate mode.
SPECIFICATION PicksSpec
CONSTANTS
    Item = {1, 2, 3}
    Priority <- InOrder
    Unknown = Unknown
    None = None
    SlowMs = 2
    Weight <- Weights
    ExcludeSpent = TRUE
    MinRequests = 1
    RpmLimit = 2
    TpmLimit = 2
    HealthWeight = 40
    LateMs = 2
    MaxWeight = 3
    Request = {"r1", "r2"}
    Views <- ViewsOf
    Learnable <- Learnt
    Coolable = {2}
INVARIANTS
    RankingsAreComplete
    RoundsFollowWeights
    TiersNeverStrand
    
    AccumulatorsBounded
PROPERTIES
    NobodyStarves
