\* Expected to fail: a name proposed with a dot in it is taken to have a suffix.
SPECIFICATION Spec
CONSTANTS
    Platforms <- MCDesktop
    Codes <- MCCodes
    TooLarge <- MCTooLarge
    Proposals <- MCProposalsDots
    TypedNames <- MCNone
    MaxCopy <- MCMaxCopy
    MaxJobs <- MCMaxJobs
INVARIANT
    SavedAsPng
