CONSTANTS
    Customers = {c1, c2, c3}
    PageSize = 1
    MaxInFlight = 2
    MaxInitial = 2
    MaxChanges = 1
    None = None
SPECIFICATION Spec
SYMMETRY Symmetry
CHECK_DEADLOCK FALSE
INVARIANT TypeOK
INVARIANT StaleIsExplained
INVARIANT PagesTileTheList
