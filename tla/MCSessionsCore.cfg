CONSTANTS
    Users = {u1}
    Roles = {admin, tecnico}
    SessionIds = {s1}
    Handlers = {h1, h2}
    None = None
    SessionTTL = 2
    AccessTTL = 1
    MaxTime = 3
    MaxChanges = 2
    Tracked = {}
SPECIFICATION Spec
SYMMETRY Symmetry
INVARIANT TypeOK
INVARIANT NoServiceAfterRevocation
INVARIANT AuthorityIsCurrent
INVARIANT SurvivorsAreExplained
INVARIANT WindowsAreBounded
PROPERTY RevocationIsFinal
PROPERTY ImplementsLifecycle
