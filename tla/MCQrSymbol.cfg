\* Short texts in every mode, the 9/10 boundary drawn, every version chosen.
SPECIFICATION Spec
CONSTANTS
    Texts <- MCTexts
    MaxDrawn <- MCMaxDrawn
    TargetSizes <- MCTargetSizes
INVARIANTS
    ReadsBack
    BlocksAreCodewords
    
CHECK_DEADLOCK FALSE
