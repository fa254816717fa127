SPECIFICATION Spec
CONSTANTS
    Evidence <- MCEvidence
    Initials <- MCInitials
    Bursts <- MCBursts
    MaxChanges = 2
INVARIANTS
    TypeOK
    AttentionIsExplained
    OneCandidateVerified
    ReadyBundleVerifies
    AlterationsNoticed
CHECK_DEADLOCK FALSE
