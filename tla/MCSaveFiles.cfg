\* Saves and shares in every order, with a disk that may refuse.
SPECIFICATION Spec
CONSTANTS
    Platforms <- MCPlatforms
    Codes <- MCCodes
    TooLarge <- MCTooLarge
    Proposals <- MCProposals
    TypedNames <- MCTypedNames
    MaxCopy <- MCMaxCopy
    MaxJobs <- MCMaxJobs
INVARIANTS
    TypeOK
    OneShareJob
    ShareFileIsOfCode
PROPERTIES
    SettledNameIsNew
    ImplementsShareSheet
