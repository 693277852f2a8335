--------------------------- MODULE MCPausedOwner ---------------------------
(* Instances of PausedOwner for TLC. *)
EXTENDS PausedOwner

AllSessions == (Workers \X {"work", "renewal"}) \cup {Coord, Probe}

ThreeAttempts == [s \in Steps |-> 3]
Zero == [s \in Steps |-> 0]
=============================================================================
