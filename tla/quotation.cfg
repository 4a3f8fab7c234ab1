\* One question while the corpus it quotes is acquired, blessed and ingested.
SPECIFICATION System
CONSTANTS
    Corpora <- MCCorpora
    Locators <- MCLocators
    LocusNames <- MCLocusNames
    Strings <- MCStrings
    Norm <- MCNorm
    Runes <- MCRunes
    Contains <- MCContains
    Blank <- MCBlank
    EmptyString = ""
    None = None
    Asks <- MCAsks
    Answers <- MCAnswers
    Editions <- MCEditions
    Stored <- MCStored
    MaxWrites = 3
    Corpus = "wcf"
    Procs = {p1}
    Texts <- MCTexts
    Overlong = {}
    Staged <- MCStaged
    MaxStagings = 2
    MaxRuns = 2
    LicenseOf <- MCLicenseOf
\* The process ends; acquisitions and invocations are bounded.
CHECK_DEADLOCK FALSE
INVARIANT WhatIsShownWasBlessed
PROPERTY IngestionIsAssumed
