------------------------------ MODULE DeviceLease ------------------------------
(***************************************************************************)
(* What Close promises of the tuner connection: it may be used until it is *)
(* released, it is released only on request, never in the middle of a use, *)
(* and, once requested, the release happens.                               *)
(***************************************************************************)
VARIABLES phase,  \* "open", then "closing", then "released"
          inUse   \* a command or a read of the worker is under way

vars == <<phase, inUse>>

Init == phase = "open" /\ inUse = FALSE

BeginUse == phase # "released" /\ ~inUse /\ inUse' = TRUE /\ UNCHANGED phase
EndUse   == inUse /\ inUse' = FALSE /\ UNCHANGED phase
Request  == phase = "open" /\ phase' = "closing" /\ UNCHANGED inUse
Release  == phase = "closing" /\ ~inUse /\ phase' = "released" /\ UNCHANGED inUse

Next == BeginUse \/ EndUse \/ Request \/ Release

SafeSpec == Init /\ [][Next]_vars
Spec     == SafeSpec /\ SF_vars(Release)
=============================================================================
