\* One invocation at a time, dying anywhere, over staging that changes.
SPECIFICATION FairSpec
CONSTANTS
    Procs = {p1}
    Locators <- MCLocators
    Texts <- MCTexts
    Overlong <- MCOverlong
    Editions <- AllEditions
    None = None
    MaxStagings = 3
    MaxRuns = 3
\* Invocations and acquisitions are bounded.
CHECK_DEADLOCK FALSE
INVARIANTS
    TypeOK
    VectorsAreFresh
    TextIsOneBlessedEdition
    CompletedRunConverges
PROPERTIES
    ResumeKeepsWork
    IngestEnds
    KeepsTables
