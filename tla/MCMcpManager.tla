---------------------------- MODULE MCMcpManager ----------------------------
(* Small instances of McpManager.                                          *)
EXTENDS McpManager

CONSTANTS x, y, e1, e2

(* Two names that differ in punctuation only.                              *)
SameBase == [n \in {x, y} |-> "srv"]

BothUp  == [n \in {x, y} |-> e1]
(* The user edits the entry of x (or adds x again) and disables y.         *)
Edited  == [n \in {x, y} |-> IF n = x THEN e2 ELSE Off]

StartFiles == {BothUp}
SavedFiles == {Edited}
=============================================================================
