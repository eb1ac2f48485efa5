SPECIFICATION Spec
CONSTANTS
    Goals <- MCGoals
    MaxCrashes = 2
INVARIANTS ChainIsSound NothingIsRefused HeadIsTheModels
