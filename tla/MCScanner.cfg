\* The user, the camera, the pool and the platform in every order.
SPECIFICATION Spec
CONSTANTS
    Codes <- MCCodes
    WifiCodes <- MCWifi
    Pictures <- MCPictures
    InvalidUrls = TRUE
    MaxFrames <- MCMaxFrames
INVARIANTS
    TypeOK
    OneDecode
    ImageKeepsPageWaiting
    ControlsTellTruth
PROPERTIES
    HiddenPageCameraOff
    DecodeEnds
    DecodedImageAnswered
    ImplementsSlot
