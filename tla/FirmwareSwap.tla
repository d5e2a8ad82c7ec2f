---------------------------- MODULE FirmwareSwap ----------------------------
(***************************************************************************)
(* What an over-the-air update promises: a device runs a confirmed image,   *)
(* or tries a new one and keeps the one it replaced to fall back on.        *)
(***************************************************************************)
CONSTANTS
    Images,     \* firmware images
    NoImage     \* nothing to fall back on

VARIABLES
    image,      \* the image that runs
    fallback    \* the image it replaced, until it is confirmed

vars == <<image, fallback>>

Init == image \in Images /\ fallback = NoImage

Try(new) ==
    /\ fallback = NoImage
    /\ image' = new
    /\ fallback' = image

Confirm ==
    /\ fallback # NoImage
    /\ fallback' = NoImage
    /\ UNCHANGED image

Rollback ==
    /\ fallback # NoImage
    /\ image' = fallback
    /\ fallback' = NoImage

Next == (\E new \in Images : Try(new)) \/ Confirm \/ Rollback

Spec == Init /\ [][Next]_vars

=============================================================================
