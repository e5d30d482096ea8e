CONSTANTS
    r1 = r1
    r2 = r2
    r3 = r3
    Queued = Queued
    NoObject = NoObject
    Handles <- MCHandles
    Calls <- MCCalls
    GoesOn = FALSE
    MaxCommands = 3
    Lengths <- MCLengths
SPECIFICATION ResourceSpec
INVARIANTS
    ResourceTypeOK
    RightReply
    WholeEnumeration
    NeverStuck
    CommitsInStep
    OwnAnswer
SYMMETRY HandleSymmetry
CHECK_DEADLOCK FALSE
