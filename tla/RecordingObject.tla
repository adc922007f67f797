--------------------------- MODULE RecordingObject ---------------------------
(***************************************************************************)
(* What the backend relies on when it links the object at a recording's    *)
(* key (_recover_recording_url_from_s3 and the worker's finalized event):  *)
(* the object appears at most once, is never replaced, and holds the audio *)
(* of the recording from its beginning, up to some point.                  *)
(***************************************************************************)
EXTENDS Naturals

VARIABLES recorded,   \* how much audio was encoded
          held        \* how much of it the object holds, 0 while there is none

Init == recorded = 0 /\ held = 0

Record == recorded' > recorded /\ UNCHANGED held

Publish == held = 0 /\ held' \in 1..recorded /\ UNCHANGED recorded

Next == Record \/ Publish

Spec == Init /\ [][Next]_<<recorded, held>>

=============================================================================
