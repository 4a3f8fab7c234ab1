\* The form of one page submitted twice, each submission on a thread of its own.
SPECIFICATION Spec
CONSTANTS
    term = term
    web = web
    web2 = web2
    None = None
    Unreadable = Unreadable
    Runs = {term, web, web2}
    Terminals = {term}
    Pages <- MCPages
    Contents <- MCContents
    Sites <- MCSites
    Archive <- MCArchive
    LocalCopies <- MCLocalCopies
    Index <- MCIndex
    Extract <- MCExtract
    Segments <- MCSegments
    Normalise <- MCNormalise
    Blank = ""
    Locators <- MCLocators
    Texts <- MCTexts
    Documents <- MCDocuments
    Adapters <- MCAdapters
    Deployed <- MCDeployed
    OneAtATime = FALSE
    MaxEvents = 0
    MaxTerminalRuns = 1
    ServeLocalOnly = FALSE
PROPERTY
    BrowserBlessesOnlyTheUnblessed
CHECK_DEADLOCK FALSE
