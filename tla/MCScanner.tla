----------------------------- MODULE MCScanner -----------------------------
(***************************************************************************)
(* TLC instances of Scanner: one ordinary code, and one Wi-Fi code. Two    *)
(* frames waiting behind the picture being decoded are enough for every    *)
(* race between frames, a chosen image and the end of a decode: a third is *)
(* handled like these.                                                     *)
(***************************************************************************)
EXTENDS Scanner

MCMaxFrames == 2

\* MCScanner.cfg: what a picture shows, everything.
MCCodes == {"text", "WIFI:"}
MCWifi == {"WIFI:"}
MCPictures == MCCodes \cup {"nothing", "garbled", ""}

\* MCScannerStuck.cfg: one code, and no empty codes.
MCCodesStuck == {"text"}
MCNoWifi == {}
MCPicturesStuck == {"text", "nothing"}

=============================================================================
