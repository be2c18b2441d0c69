CONSTANTS
    Seeds = {s1}
    Written <- WrittenByAnyone
    MaxWrites = 2
SPECIFICATION Spec
CHECK_DEADLOCK FALSE
INVARIANT LoneResetSucceeds
