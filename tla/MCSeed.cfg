CONSTANTS
    Seeds = {s1, s2}
    Written <- WrittenByApi
    MaxWrites = 2
SPECIFICATION Spec
SYMMETRY Symmetry
CHECK_DEADLOCK FALSE
INVARIANT TypeOK
INVARIANT ResetFailureIsExplained
INVARIANT ResetLeavesNothingOld
INVARIANT SecondSeedRefuses
INVARIANT PilotIsWhole
INVARIANT ReferencesHold
