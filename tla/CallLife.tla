------------------------------ MODULE CallLife ------------------------------
(***************************************************************************)
(* What a conversation promises about every tool call the model declares.  *)
(* A call is declared once, may be put to the user and answered, runs at   *)
(* most once and only with the consent it was asked for, and gets one      *)
(* result that never changes and tells the truth: "ran" after it ran,      *)
(* "denied" for a call that was refused and never runs.  "canceled" says   *)
(* only that nobody waits for the call any longer: it may have run, or be  *)
(* running.                                                                *)
(***************************************************************************)
EXTENDS Naturals

CONSTANT Calls

VARIABLES
  known,    (* the calls declared so far                                   *)
  asked,    (* those that were put to the user                             *)
  said,     (* what the user answered for each of them                     *)
  execs,    (* how often each has run                                      *)
  result    (* what the transcript says of each                            *)

vars == <<known, asked, said, execs, result>>

Closed(c) == result[c] # "none"

(* A call that may still be run, asked about or answered.                  *)
Alive(c) == c \in known /\ execs[c] = 0 /\ result[c] \in {"none", "canceled"}

Init ==
  /\ known = {} /\ asked = {}
  /\ said = [c \in Calls |-> {}]
  /\ execs = [c \in Calls |-> 0]
  /\ result = [c \in Calls |-> "none"]

Declare ==
  /\ \E S \in SUBSET (Calls \ known) : known' = known \cup S
  /\ UNCHANGED <<asked, said, execs, result>>

Ask(c) ==
  /\ Alive(c)
  /\ asked' = asked \cup {c}
  /\ UNCHANGED <<known, said, execs, result>>

Answer(c, a) ==
  /\ Alive(c) /\ c \in asked
  /\ said' = [said EXCEPT ![c] = @ \cup {a}]
  /\ UNCHANGED <<known, asked, execs, result>>

Run(c) ==
  /\ Alive(c)
  /\ c \in asked => "yes" \in said[c]
  /\ execs' = [execs EXCEPT ![c] = 1]
  /\ UNCHANGED <<known, asked, said, result>>

(* A result is delivered: what the tool returned, or that it was refused.  *)
Deliver(c, out) ==
  /\ c \in known /\ ~Closed(c)
  /\ out = "ran" => execs[c] = 1
  /\ out = "denied" => execs[c] = 0 /\ c \in asked /\ "no" \in said[c]
  /\ result' = [result EXCEPT ![c] = out]
  /\ UNCHANGED <<known, asked, said, execs>>

(* Open calls are given up, together.                                      *)
Close(S) ==
  /\ S \subseteq known /\ \A c \in S : ~Closed(c)
  /\ result' = [c \in Calls |-> IF c \in S THEN "canceled" ELSE result[c]]
  /\ UNCHANGED <<known, asked, said, execs>>

Next ==
  \/ Declare
  \/ \E c \in Calls :
       \/ Ask(c) \/ Run(c)
       \/ \E a \in {"yes", "no"} : Answer(c, a)
       \/ \E out \in {"ran", "denied"} : Deliver(c, out)
  \/ \E S \in SUBSET known : Close(S)

Spec == Init /\ [][Next]_vars
=============================================================================
