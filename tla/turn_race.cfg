\* One turn while ingestion rewrites both corpora underneath it.
SPECIFICATION FairSpec
CONSTANTS
    Corpora <- MCCorpora
    Locators <- MCLocators
    LocusNames <- MCLocusNames
    Strings <- MCStrings
    Norm <- MCNorm
    Runes <- MCRunes
    Contains <- MCContains
    Blank <- MCBlank
    EmptyString = ""
    None = None
    Asks <- RaceAsks
    Answers <- RaceAnswers
    Editions <- RaceEditions
    Stored <- RaceStored
    MaxWrites = 2
\* The process ends.
CHECK_DEADLOCK FALSE
INVARIANTS
    TypeOK
    ShownIsRecorded
    ShownIsSourced
    RetryIsInformed
    TraceExplainsOutcome
    SchemaAccepts
PROPERTIES
    TurnEnds
    KeepsContract
