\* Expected to fail: rows recorded before the table is loaded escape the cap.
SPECIFICATION Spec
CONSTANTS
    Cap <- MCCap
    MaxId <- MCMaxIdCap
    OldRows <- MCOldRowsCap
    MayFail = FALSE
INVARIANT
    TableWithinCap
