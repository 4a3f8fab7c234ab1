\* One call, from the gateway's load to its reply, with ingestion committing up
\* to two times underneath.  The call ends: deadlock is not an error.
SPECIFICATION FairSpec
CONSTANTS
    conf = conf
    study = study
    one = one
    two = two
    None = None
    Corpora <- MCCorpora
    Locators <- MCLocators
    LocusNames = {"days", "ages", "signs"}
    Texts <- MCTexts
    Size <- MCSize
    Score <- MCScore
    Requests <- MCRequests
    Editions <- MCEditions
    Stored <- MCStored
    Budget = 4
    DefaultTopK = 3
    MaxWrites = 2
INVARIANTS
    TypeOK
    RulingsReachTheModel
    BudgetHeld
    LeftOutForBetter
    EveryHitHasOneFate
    TraceIsRecordable
PROPERTY
    CallEnds
CHECK_DEADLOCK FALSE
