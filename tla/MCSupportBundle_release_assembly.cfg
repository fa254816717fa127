SPECIFICATION Spec
CONSTANTS
    Evidence <- MCEvidence
    Initials <- MCInitials
    Bursts <- MCBursts
    MaxChanges = 1
INVARIANT AssembledSameCandidate
CHECK_DEADLOCK FALSE
