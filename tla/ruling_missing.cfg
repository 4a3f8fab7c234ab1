\* What a test says of a ruling that is not ingested, against a corpus whose
\* first embedding is not finished.
SPECIFICATION Spec
CONSTANTS
    conf = conf
    study = study
    one = one
    two = two
    None = None
    Corpora <- MCCorpora
    Locators <- MCLocators
    LocusNames = {"days", "ages", "signs"}
    Texts <- MCTexts
    Size <- MCSize
    Score <- MCScore
    Requests <- MCRequests
    Editions <- MCEditions
    Stored <- MCStored
    Budget = 4
    DefaultTopK = 3
    MaxWrites = 2
INVARIANT
    AdmittedRulingsResolve
CHECK_DEADLOCK FALSE
