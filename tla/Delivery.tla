------------------------------ MODULE Delivery ------------------------------
(***************************************************************************)
(* What a browser tab may show of a text that is still being written.  A   *)
(* tab either shows a beginning of the text without a gap (whole) or, once *)
(* a piece was lost on its way, some pieces in their order; no tab ever    *)
(* shows a piece twice or before an earlier one.                           *)
(***************************************************************************)
EXTENDS Integers, Sequences

CONSTANT Clients

VARIABLES
  said,   (* how many pieces were written                                  *)
  shown,  (* the pieces a tab shows                                        *)
  whole   (* nothing was lost on the way to it                             *)

vars == <<said, shown, whole>>

Beginning(n) == [i \in 1..n |-> i]
Newest(s)    == IF s = <<>> THEN 0 ELSE s[Len(s)]

Init ==
  /\ said = 0
  /\ shown = [c \in Clients |-> <<>>]
  /\ whole = [c \in Clients |-> TRUE]

(* Pieces may get lost on the way to any set of tabs.                      *)
Losing == \E L \in SUBSET Clients : whole' = [c \in Clients |-> whole[c] /\ c \notin L]

Write == said' = said + 1 /\ Losing /\ UNCHANGED shown

Lose == Losing /\ UNCHANGED <<said, shown>>

(* A tab starts over with some beginning of the text.                      *)
Reload(c) ==
  /\ \E k \in 0..said : shown' = [shown EXCEPT ![c] = Beginning(k)]
  /\ whole' \in {whole, [whole EXCEPT ![c] = TRUE]}
  /\ UNCHANGED said

(* One more piece: the next one, or after a loss a later one.              *)
Extend(c) ==
  /\ \E n \in 1..said :
       /\ n > Newest(shown[c])
       /\ whole[c] => n = Newest(shown[c]) + 1
       /\ shown' = [shown EXCEPT ![c] = Append(@, n)]
  /\ UNCHANGED <<said, whole>>

Next == Write \/ Lose \/ \E c \in Clients : Reload(c) \/ Extend(c)

Spec == Init /\ [][Next]_vars
=============================================================================
