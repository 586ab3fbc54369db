\* The user, the platform, the executor thread and restarts in every order.
SPECIFICATION Spec
CONSTANTS
    SystemLanguage <- MCSystemLanguage
    Languages <- MCLanguages
    Translated <- MCLanguages
    RightToLeft <- MCRightToLeft
    Switches <- MCSwitches
    OnByDefault <- MCSwitches
    Scales <- MCScales
    MaxPrompts <- MCMaxPrompts
    MaxQueue <- MCMaxQueue
INVARIANTS
    TypeOK
    WindowFollowsStore
    NeverStranded
PROPERTIES
    ShieldStaysUntilSuccess
    OneResult
    LockResolves
