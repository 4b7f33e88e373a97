----------------------------- MODULE SafeUpdate -----------------------------
(***************************************************************************)
(* What an update with rollback promises: there is always an intact image  *)
(* to boot.  A new image is written beside it, staged, tried, and          *)
(* confirmed or rejected; the image to boot is given up only for another.  *)
(***************************************************************************)
CONSTANTS Slots, None
VARIABLES
  kept,   \* the slots that hold an image to fall back to
  cur,    \* the one to boot
  trial   \* the slot that holds an image to be tried, or None

Init == cur \in Slots /\ kept = {cur} /\ trial = None

\* The other slots are erased for a new image.
Erase == trial = None /\ kept' = {cur} /\ UNCHANGED <<cur, trial>>
\* The image is written.  Over a slot that was kept before, it counts as
\* kept until it is staged: an update may stop here.
Refill(s) == trial = None /\ kept' = kept \union {s} /\ UNCHANGED <<cur, trial>>
Stage(s) == /\ trial = None /\ s # cur /\ trial' = s /\ kept' = kept \ {s}
            /\ UNCHANGED cur
Confirm  == trial # None /\ kept' = kept \union {trial} /\ cur' = trial /\ trial' = None
Reject   == trial # None /\ trial' = None /\ UNCHANGED <<kept, cur>>
Demote   == trial = None /\ kept' = kept \ {cur} /\ cur' \in kept' /\ UNCHANGED trial

Next == \/ Erase \/ Confirm \/ Reject \/ Demote
        \/ \E s \in Slots : Refill(s) \/ Stage(s)

Spec == Init /\ [][Next]_<<kept, cur, trial>>
=============================================================================
