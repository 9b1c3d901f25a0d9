--------------------------- MODULE StatusRegister ---------------------------
(***************************************************************************)
(* What publisher and store promise for latest_status.json: an atomic      *)
(* register.  A document becomes visible as a whole, and an answer is the  *)
(* document that was visible at one moment while the request was served,   *)
(* or none.                                                                *)
(***************************************************************************)
CONSTANTS
    Status,         \* the documents that can be published
    Unavailable     \* the answer without a document (503)

VARIABLES
    value,      \* the visible document
    answer      \* the last answer given

Init == value = Unavailable /\ answer = Unavailable

Publish == value' \in Status /\ UNCHANGED answer

Read == answer' = value /\ UNCHANGED value

Fail == answer' = Unavailable /\ UNCHANGED value

Next == Publish \/ Read \/ Fail

vars == <<value, answer>>

Spec == Init /\ [][Next]_vars

=============================================================================
