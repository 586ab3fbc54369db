\* Expected to fail: an image chosen while a frame is decoded is dropped.
SPECIFICATION Spec
CONSTANTS
    Codes <- MCCodesStuck
    WifiCodes <- MCNoWifi
    Pictures <- MCPicturesStuck
    InvalidUrls = FALSE
    MaxFrames <- MCMaxFrames
PROPERTY
    ChosenImageAnswered
