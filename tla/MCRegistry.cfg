CONSTANTS
    Companies = {k1, k2}
    Branches = {b1}
    Users = {u1}
    Technicians = {t1, t2}
    Customers = {c1}
    Addresses = {a1}
    Keys = {x}
    Handlers = {h1, h2}
    None = None
    Keep = Keep
    MaxRows = 3
    MaxEdits = 1
    MaxClosings = 1
SPECIFICATION Spec
SYMMETRY Symmetry
CHECK_DEADLOCK FALSE
INVARIANT TypeOK
INVARIANT ReferencesStayInCompany
INVARIANT OrphansAreExplained
PROPERTY DeletedIsFrozen
PROPERTY OnlyAdminsNameBranches
