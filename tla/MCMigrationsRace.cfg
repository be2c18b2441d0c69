CONSTANTS
    Runners = {r1, r2}
    Journals <- SomeJournals
    Hashes <- AllHashes
    UpWorks <- ScriptWorks
    DownElsewhere <- DownOutcome
    MaxId = 6
SPECIFICATION Spec
INVARIANT TypeOK
PROPERTY RollbackDeletesItsOwnRow
