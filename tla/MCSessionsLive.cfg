CONSTANTS
    Users = {u1}
    Roles = {admin}
    SessionIds = {s1}
    Handlers = {h1, h2}
    None = None
    SessionTTL = 1
    AccessTTL = 1
    MaxTime = 2
    MaxChanges = 1
    Tracked = {"login", "logout"}
SPECIFICATION FairSpec
INVARIANT AuditIsTruthful
PROPERTY RevokedSessionDrains
PROPERTY DeactivatedUserDrains
