\* Two invocations at once.
SPECIFICATION Spec
CONSTANTS
    Procs = {p1, p2}
    Locators <- MCLocators
    Texts <- MCTexts
    Overlong <- MCOverlong
    Editions <- TwoEditions
    None = None
    MaxStagings = 2
    MaxRuns = 2
\* Invocations and acquisitions are bounded.
CHECK_DEADLOCK FALSE
INVARIANT VectorsAreFresh
