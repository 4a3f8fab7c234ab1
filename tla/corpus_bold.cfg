\* The report with one paragraph that opens in bold.
SPECIFICATION Spec
CONSTANTS
    None = None
    AfterAddress <- MCAfterAddress
    Expected <- MCExpected
    Works <- MCRunIn
    DamagedBy = {"none"}
INVARIANTS
    HeadingsAreEntirelyBold
CHECK_DEADLOCK FALSE
