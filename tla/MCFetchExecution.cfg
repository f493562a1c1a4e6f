SPECIFICATION FairSpec
CONSTANTS
    Size = 4
    PlanSize = 5
    SmallSize = 3
    Outside = {2, 4}
    Plans <- AllPlans
    Schedules <- AllSchedules
    Moves = {"NothingToLoad", "PrepareFails", "LoadFails", "MergeFails"}
INVARIANTS
    DominanceIsExact
    ScheduleIsBest
    CallsMakeTheTree
    TreeIsSound
    WaitsForDependencies
    ErrorsSpreadDown
PROPERTIES
    WalkReturns
CHECK_DEADLOCK FALSE
