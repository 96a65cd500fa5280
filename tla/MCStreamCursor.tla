--------------------------- MODULE MCStreamCursor ---------------------------
(* Small instances of StreamCursor.                                        *)
EXTENDS StreamCursor

CONSTANTS w1, c1, c2
=============================================================================
