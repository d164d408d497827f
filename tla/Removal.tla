------------------------------ MODULE Removal ------------------------------
(***************************************************************************)
(* What a BrowsingDataRemoverEfl promises, whatever it removes and however *)
(* its work is spread over threads: it is asked once, it removes (or fails *)
(* to remove) what it was asked for and nothing else, and it is gone only  *)
(* when nothing is left to do. Some of the work it hands to a service that *)
(* does not report back; that alone may be done after it is gone.          *)
(***************************************************************************)
CONSTANT Items  \* data that can be removed

VARIABLES
  phase,  \* "new", "busy", "gone"
  left,   \* what was asked for and has neither been removed nor given up
  handed, \* what a service was told to remove
  kept    \* what was not asked for

Init == phase = "new" /\ left = {} /\ handed = {} /\ kept \subseteq Items

Start ==
  /\ phase = "new" /\ phase' = "busy"
  /\ left' \subseteq kept /\ kept' = kept \ left'
  /\ UNCHANGED handed

\* Nothing that is left gets lost: it is removed, given up or handed on
Remove ==
  /\ phase = "busy"
  /\ left' \subseteq left
  /\ handed' \subseteq handed \union (left \ left')
  /\ UNCHANGED <<phase, kept>>

Finish ==
  /\ phase = "busy" /\ left = {}
  /\ phase' = "gone"
  /\ UNCHANGED <<left, handed, kept>>

\* The service works on its own
RemoveLater ==
  /\ handed' \subseteq handed
  /\ UNCHANGED <<phase, left, kept>>

Next == Start \/ Remove \/ Finish \/ RemoveLater

Spec == Init /\ [][Next]_<<phase, left, handed, kept>>
=============================================================================
