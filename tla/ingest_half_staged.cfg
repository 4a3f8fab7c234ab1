\* An acquisition that dies between its two files.
SPECIFICATION Spec
CONSTANTS
    Procs = {p1}
    Locators <- MCLocators
    Texts <- MCTexts
    Overlong <- MCOverlong
    Editions <- TwoEditions
    None = None
    MaxStagings = 2
    MaxRuns = 1
\* Invocations and acquisitions are bounded.
CHECK_DEADLOCK FALSE
INVARIANT LoadedIsWhole
