------------------------------ MODULE MCChatRun ------------------------------
(* Small instances of ChatRun: one call that needs approval, one question.  *)
EXTENDS ChatRun

CONSTANTS c1, c2

MCKind == [c \in Calls |-> IF c = c1 THEN "approval" ELSE "question"]
=============================================================================
