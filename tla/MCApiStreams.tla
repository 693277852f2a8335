--------------------------- MODULE MCApiStreams ---------------------------
(* Instances of ApiStreams for TLC. *)
EXTENDS ApiStreams
=============================================================================
