----------------------------- MODULE DecodeSlot -----------------------------
(***************************************************************************)
(* What the scanner promises, without cameras, frames, threads or pages:   *)
(*                                                                         *)
(*   - pictures are decoded one at a time;                                 *)
(*   - every decode that was begun ends once, with the code it found or    *)
(*     without one, before the next begins;                                *)
(*   - the result dialog shows a code the moment a decode has found it,    *)
(*     and another one only when the user opens it, which no decode heeds. *)
(*                                                                         *)
(* Scanner implements this module: see its ImplementsSlot.                 *)
(***************************************************************************)
CONSTANTS
    Codes,              \* texts a QR code may hold
    Kinds,              \* what is decoded: a camera frame or a chosen image
    Nothing             \* no job, or no dialog

VARIABLES
    slot,               \* the kind of the picture being decoded, or Nothing
    shown               \* the code in the result dialog, or Nothing

slotVars == <<slot, shown>>

Init == slot = Nothing /\ shown = Nothing

Begin(kind) ==
    /\ slot = Nothing
    /\ slot' = kind
    /\ UNCHANGED shown

\* A decode ends with a code, which the dialog shows.
Find(code) ==
    /\ slot # Nothing
    /\ slot' = Nothing
    /\ shown' = code

\* A decode ends without a code.
GiveUp ==
    /\ slot # Nothing
    /\ slot' = Nothing
    /\ UNCHANGED shown

\* The user opens a code kept from before.
Open(code) ==
    /\ shown' = code
    /\ UNCHANGED slot

\* The user closes the dialog.
Close ==
    /\ shown' = Nothing
    /\ UNCHANGED slot

Next ==
    \/ \E kind \in Kinds : Begin(kind)
    \/ \E code \in Codes : Find(code)
    \/ GiveUp
    \/ \E code \in Codes : Open(code)
    \/ Close

Spec == Init /\ [][Next]_slotVars
=============================================================================
