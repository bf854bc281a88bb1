SPECIFICATION FairSpec
CONSTANTS
    ByName <- Names4
    MarkOf <- Marks
    BucketMark <- Suffixed
    PolicyChoices <- PolicyRows
    Groups = {"g1", "g2", "g3"}
    GroupChoices <- GroupRows
    Profiles = {"s1", "s2"}
    ProfileChoices <- ProfileRows
    Wans = {1, 2}
    NamesOf <- Names
    NameOf <- OwnNames
    Cost <- Costs
    HopChoices <- Links
    Starts <- Begin
    Conditions <- Levels
    MaxEdits = 1
    MaxChanges = 3
    None = None
INVARIANTS
    SteeredByOwnStandard
    TrafficTakesBestPath
PROPERTIES
    Recovers
CHECK_DEADLOCK FALSE
