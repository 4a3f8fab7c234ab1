\* A terminal and a browser that take turns, over a publisher that may reword,
\* break or go away, crashes, damaged files and a new version of the code.
\* Nothing more need happen: deadlock is not an error.
SPECIFICATION FairSpec
CONSTANTS
    term = term
    web = web
    web2 = web2
    None = None
    Unreadable = Unreadable
    Runs = {term, web}
    Terminals = {term}
    Pages <- MCPages
    Contents <- MCContents
    Sites <- MCSites
    Archive <- MCArchive
    LocalCopies <- MCLocalCopies
    Index <- MCIndex
    Extract <- MCExtract
    Segments <- MCSegments
    Normalise <- MCNormalise
    Blank = ""
    Locators <- MCLocators
    Texts <- MCTexts
    Documents <- MCDocuments
    Adapters <- MCAdapters
    Deployed <- MCDeployed
    OneAtATime = TRUE
    MaxEvents = 2
    MaxTerminalRuns = 2
    ServeLocalOnly = FALSE
INVARIANTS
    TypeOK
    WhatWasReadIsBlessed
    BlessedBytesGiveBlessedText
    WhatPassesWasApproved
    VerdictIsOfUpstream
PROPERTIES
    BrowserBlessesOnlyTheUnblessed
    RefusalIsNotPermanent
CHECK_DEADLOCK FALSE
