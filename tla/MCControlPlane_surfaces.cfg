SPECIFICATION Spec
CONSTANTS
    Content <- MCContent
    Signatures <- MCSignatures
    Configurations <- MCConfigurations
    Seeds <- MCSeeds
    KeepLatest = 1
    MaxUploads = 3
    MaxPrunes = 1
INVARIANTS
    TypeOK
    AlwaysSomethingToDo
    SmokeVerdictsAgree
    LatestAnswers
    NoSelfPromotion
PROPERTY PruneKeepsVerdicts
CHECK_DEADLOCK FALSE
