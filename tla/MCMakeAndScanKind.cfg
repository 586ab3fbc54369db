\* Expected to fail: an address inside a code makes an email of it.
SPECIFICATION Spec
CONSTANTS
    Forms <- MCFormsKind
    CommandLines <- MCNone
    ForeignForms <- MCNone
    SecretForms <- MCNone
    Salts <- MCNone
    Nonces <- MCNone
    Tampered <- MCTampered
    Passphrases <- MCNone
    OtherCodes <- MCOtherCodes
INVARIANT
    ComesBackAsEntered
