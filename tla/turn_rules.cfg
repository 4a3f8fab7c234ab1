\* Every combination of rules, twice over, on tables that stand still.
SPECIFICATION Spec
CONSTANTS
    Corpora <- MCCorpora
    Locators <- MCLocators
    LocusNames <- MCLocusNames
    Strings <- MCStrings
    Norm <- MCNorm
    Runes <- MCRunes
    Contains <- MCContains
    Blank <- MCBlank
    EmptyString = ""
    None = None
    Asks <- RuleAsks
    Answers <- RuleAnswers
    Editions <- NoEditions
    Stored <- RuleStored
    MaxWrites = 0
\* The process ends.
CHECK_DEADLOCK FALSE
INVARIANTS
    EveryArgumentHasAuthority
    ContestedIsShownContested
    SilenceIsAlone
    HighConfidenceIsCorroborated
