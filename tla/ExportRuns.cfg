SPECIFICATION Spec

CONSTANTS
    Pages = {"a", "b"}
    LinksTo <- ExportLinks
    NoFile = NoFile
    Torn = Torn
    MaxVersion = 2
    MaxRemovals = 1
    MaxRuns = 3
    MaxFaults = 2

INVARIANTS
    TypeOK
    PagesRepaired
    MirrorsDatabase
    LogTellsLives

\* The runs and the changes of the database are bounded.
CHECK_DEADLOCK FALSE
