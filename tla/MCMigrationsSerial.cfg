CONSTANTS
    Runners = {r1, r2}
    Journals <- SomeJournals
    Hashes <- AllHashes
    UpWorks <- ScriptWorks
    DownElsewhere <- DownOutcome
    MaxId = 6
SPECIFICATION SerialSpec
INVARIANT TableTellsSchema
INVARIANT UpToDateIsTrue
PROPERTY ImplementsHistory
