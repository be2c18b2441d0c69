CONSTANTS
    Tabs = {t1}
    Operations = {o1}
    MaxSaves = 1
    MaxLogins = 1
    None = None
SPECIFICATION Spec
SYMMETRY Symmetry
INVARIANT SavedAddressIsShown
