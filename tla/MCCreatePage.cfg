\* The user, the debounce timer, the pool and Qt Quick's reader in every order.
SPECIFICATION Spec
CONSTANTS
    Forms <- MCForms
    Looks <- MCLooks
    TooLarge <- MCTooLarge
    WifiPayloads <- MCWifi
    MaxResponses <- MCMaxResponses
INVARIANTS
    TypeOK
    QuietPreviewIsCurrent
    SavesWhatWasShown
    OnlyStaleCancelled
PROPERTIES
    EntryFollowsRules
    PictureShown
    ImplementsPreview
