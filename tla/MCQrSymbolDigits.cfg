\* Expected to fail: the digits of Arabic are encoded as zeros.
SPECIFICATION Spec
CONSTANTS
    Texts <- MCArabicTexts
    MaxDrawn <- MCSmallestOnly
    TargetSizes <- MCTargetSizes
INVARIANT ReadsBack
CHECK_DEADLOCK FALSE
