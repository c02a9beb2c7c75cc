--------------------------- MODULE IdempotentCreate ---------------------------
(***************************************************************************)
(* What an Idempotency-Key promises its clients: at most one Task is made, *)
(* a refusal is final, and an answer that is definite is true.             *)
(***************************************************************************)
EXTENDS Naturals

CONSTANT Caller

VARIABLES
  made,     \* Tasks made under the key
  refused,  \* the key was refused, nothing will be made
  told      \* the last answer of every caller

vars == <<made, refused, told>>

Definite == {"created", "completed", "not_started"}
Indefinite == {"none", "uncertain", "retry", "busy", "gone"}

Init == made = 0 /\ refused = FALSE /\ told = [c \in Caller |-> "none"]

\* The create takes effect.
Make ==
  /\ made = 0 /\ ~refused
  /\ made' = 1
  /\ UNCHANGED <<refused, told>>

\* The key is refused.
Refuse ==
  /\ made = 0
  /\ refused' = TRUE
  /\ UNCHANGED <<made, told>>

\* A caller is told what is so, or that it is not known.
Say(c, answer) ==
  /\ told' = [told EXCEPT ![c] = answer]
  /\ answer \in {"created", "completed"} => made = 1
  /\ answer = "not_started" => refused
  /\ UNCHANGED <<made, refused>>

\* The process restarts: whoever waited has no answer.
Forget == told' = [c \in Caller |-> "none"] /\ UNCHANGED <<made, refused>>

Next ==
  \/ Make \/ Refuse \/ Forget
  \/ \E c \in Caller, answer \in Definite \cup Indefinite : Say(c, answer)

Spec == Init /\ [][Next]_vars
=============================================================================
