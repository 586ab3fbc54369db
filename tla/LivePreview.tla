---------------------------- MODULE LivePreview ----------------------------
(***************************************************************************)
(* What the live preview of the Create page promises, without timers,      *)
(* buttons or images: "the code updates as you type" (CHANGELOG.md:20).    *)
(* The view may lag behind the input, but it is never anything else than   *)
(* the picture of an input, and it does not lag for ever.                  *)
(***************************************************************************)
CONSTANTS
    Inputs,         \* what the user may have entered
    Picture(_)      \* the picture of an input

VARIABLES input, view

Init ==
    /\ input \in Inputs
    /\ view = Picture(input)

Edit == input' \in Inputs /\ UNCHANGED view

Update == view' = Picture(input) /\ UNCHANGED input

Next == Edit \/ Update

Safety == Init /\ [][Next]_<<input, view>>

Spec == Safety /\ WF_<<input, view>>(Update)
=============================================================================
