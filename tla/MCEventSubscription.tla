------------------------- MODULE MCEventSubscription -------------------------
(***************************************************************************)
(* Small instances of EventSubscription for TLC.                           *)
(***************************************************************************)
EXTENDS EventSubscription
=============================================================================
