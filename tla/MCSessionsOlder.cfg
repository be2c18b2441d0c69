CONSTANTS
    Users = {u1}
    Roles = {admin}
    SessionIds = {s1}
    Handlers = {h1, h2}
    None = None
    SessionTTL = 2
    AccessTTL = 1
    MaxTime = 2
    MaxChanges = 1
    Tracked = {}
SPECIFICATION Spec
SYMMETRY Symmetry
INVARIANT ChangeEndsOlderSessions
