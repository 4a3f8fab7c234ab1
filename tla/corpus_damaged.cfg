\* Each adapter over its source, as published and with any one block damaged.
\* A run ends when the corpus is segmented or refused: deadlock is not an error.
SPECIFICATION Spec
CONSTANTS
    None = None
    AfterAddress <- MCAfterAddress
    Expected <- MCExpected
    Works <- MCWorks
    DamagedBy = {"none", "bytes", "lost", "twice", "swapped", "unclosed", "renamed"}
INVARIANTS
    TypeOK
    NumberedThrough
    TextAndNothingElse
    LossIsNoticed
    EditionIsAccepted
CHECK_DEADLOCK FALSE
