SPECIFICATION Spec
CONSTANTS
    Strategies = {"Leveled"}
    NumKeys = 3
    Batches <- MCBatches
    TargetSize = 1
    Trigger = 2
    MaxLevels = 3
    SizeRatioPercent = 200
    BaseLevelSize = 9
    Multiplier = 2
    NumTiers = 2
    MaxAmpPercent = 200
    SizeRatio = 1
    MinMergeWidth = 2
    MaxMergeWidth = 9
    MaxTs = 4
    MaxReopens = 0
INVARIANT SameReads
CHECK_DEADLOCK FALSE
