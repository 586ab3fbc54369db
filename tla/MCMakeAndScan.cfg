\* Codes of every form of the Create page, scanned among codes made elsewhere.
SPECIFICATION Spec
CONSTANTS
    Forms <- MCForms
    CommandLines <- MCCommandLines
    ForeignForms <- MCForeignForms
    SecretForms <- MCSecretForms
    Salts <- MCSalts
    Nonces <- MCNonces
    Tampered <- MCTampered
    Passphrases <- MCPassphrases
    OtherCodes <- MCOtherCodes
INVARIANTS
    ComesBackAsEntered
    HandsOverWhatWasEntered
    HistoryAgreesWithDialog
    OpensAsSealed
PROPERTY
    SavedContactIsAskedFor
