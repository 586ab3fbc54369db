---------------------------- MODULE ShareSheet ----------------------------
(***************************************************************************)
(* What the Share button promises: "send a generated QR to any app via the *)
(* system share sheet" (CHANGELOG.md:55). One code is pending at most; it  *)
(* is handed over as it was when the button was pressed, or given up; a    *)
(* press while one is pending asks for nothing. What the code does not     *)
(* look for is a file that the disk has cut short: that too may be handed  *)
(* over, but never another code, nor a file in which two are mixed.        *)
(***************************************************************************)
CONSTANTS
    Contents,
    Nothing,
    Damaged     \* what may be left of any content by a disk that fails

VARIABLES pending, handed

Init == pending = Nothing /\ handed = Nothing

Ask ==
    /\ pending = Nothing
    /\ pending' \in Contents
    /\ UNCHANGED handed

HandOver ==
    /\ pending # Nothing
    /\ handed' \in {pending} \cup Damaged
    /\ pending' = Nothing

GiveUp == pending' = Nothing /\ UNCHANGED handed

Next == Ask \/ HandOver \/ GiveUp

Safety == Init /\ [][Next]_<<pending, handed>>

Spec == Safety /\ WF_<<pending, handed>>(HandOver \/ GiveUp)
=============================================================================
