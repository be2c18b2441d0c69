CONSTANTS
    Tabs = {t1}
    Operations = {o1, o2}
    MaxSaves = 2
    MaxLogins = 2
    None = None
SPECIFICATION Spec
SYMMETRY Symmetry
INVARIANT TypeOK
INVARIANT RefusedOnlyWhenOvertaken
INVARIANT ServedUnderItsToken
INVARIANT OwnUpdateIsShown
