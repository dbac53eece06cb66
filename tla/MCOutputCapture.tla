--------------------------- MODULE MCOutputCapture ---------------------------
(***************************************************************************)
(* Small instances of OutputCapture for TLC.                               *)
(***************************************************************************)
EXTENDS OutputCapture
=============================================================================
