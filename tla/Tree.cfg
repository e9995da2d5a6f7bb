\* A channel with two models, four groups, up to two items each; a chain of three groups
\* below another is too deep.
SPECIFICATION TreeSpec
CONSTANTS
    Group = {"auto x", "auto y", "group", "top"}
    Grant = {"x", "y"}
    Channel = {"channel"}
    ChannelOf <- OneChannel
    AutoGroup <- TwoAutoGroups
    ItemLists <- ShortLists
    MaxDepth = 2
    Operator = {"panel"}
INVARIANTS
    NoCycle
    FlattenIsTheTree
    CacheFollowsRows
