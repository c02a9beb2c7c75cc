----------------------------- MODULE MCReviews -----------------------------
(* Humans in the loop: the pending reviews of a tree of Tasks, and the     *)
(* tool calls that wait for an approval.  world says which, and where:     *)
(*                                                                         *)
(* "tree": the root, a local and a remote Task; "siblings": the root and   *)
(* two local Tasks; "far": the root and two remote Tasks (the other Tasks  *)
(* stand still); "policy": one call under strict permissions that may      *)
(* change at a restart; "replay": two calls that are asked about in up to  *)
(* two reviews.  ChangedSpec is about two calls whose permissions change   *)
(* while a review of them waits.                                           *)
EXTENDS TaskReview, ToolApproval

CONSTANTS root, a, b, far, away

VARIABLE world

mcvars == <<vars, approvalVars, world>>

(* Steps of the tree in which some Tasks take part, within its bounds.     *)
StepOf(some, reviews, runs, failures) ==
  /\ Reload \/ Restart \/ \E t \in some : TaskStep(t)
  /\ made' <= reviews /\ faults' <= failures /\ \A t \in Task : mem'[t].run <= runs

(* The permission files.                                                   *)
Strict ==
  {p \in Profile :
     /\ p.execute \in {"ask", "unset"} /\ p.default \in {"unset", "allow"}
     /\ p.rules["git"] \in {"allow", "ask", "unset"} /\ p.rules["rm"] \in {"deny", "allow"}
     /\ p.reviewed \in {{}, Risk} /\ p.choices \in {Decision, {"approve", "reject"}}}
Few ==
  {p \in Profile :
     /\ p.execute = "allow" /\ p.default = "unset"
     /\ p.rules["git"] \in {"ask", "unset"} /\ p.rules["rm"] \in {"ask", "unset"}
     /\ p.reviewed = {} /\ p.choices = Decision}
Files == Strict \union Few

ASSUME TreeAssumption == ConstantsAssumption
ASSUME PolicyAssumption == ApprovalAssumption

(* One call whose permissions may change, two whose permissions stay, two  *)
(* that one review asks about.                                             *)
OneCall == ApprovalInit /\ profile \in Strict /\ Len(proposed) = 1
OneCallNext == ApprovalNext /\ profile' \in Strict
TwoCalls == ApprovalInit /\ profile \in Few /\ Len(proposed) = 2
TwoCallsNext == ApprovalNext /\ changes' = 0
ChangedNext == ApprovalNext /\ profile' \in Few /\ Len(answers') <= 1

(* Where the approvals stand still, they stand in one of their states.     *)
Asleep == /\ TwoCalls /\ profile = CHOOSE p \in Few : TRUE
          /\ \A c \in Call : proposed[c] = [tool |-> "publish", command |-> <<>>]
MCInit == /\ Init
          /\ \/ world \in {"tree", "siblings", "far"} /\ Asleep
             \/ world = "policy" /\ OneCall
             \/ world = "replay" /\ TwoCalls
MCNext == /\ \/ world = "tree" /\ StepOf({root, a, far}, 3, 2, 1) /\ UNCHANGED approvalVars
             \/ world = "siblings" /\ StepOf({root, a, b}, 3, 2, 2) /\ UNCHANGED approvalVars
             \/ world = "far" /\ StepOf({root, far, away}, 3, 1, 1) /\ UNCHANGED approvalVars
             \/ world = "policy" /\ OneCallNext /\ UNCHANGED vars
             \/ world = "replay" /\ TwoCallsNext /\ UNCHANGED vars
          /\ UNCHANGED world
MCSpec == MCInit /\ [][MCNext]_mcvars

ChangedSpec == /\ world = "changed" /\ Init /\ TwoCalls
               /\ [][ChangedNext /\ UNCHANGED <<vars, world>>]_mcvars

\* What docs/systems/agent-tool-runtime.md says of a run that waits for an approval:
\* it executes no call that is not yet approved.  The run that is resumed under
\* other permissions matches the answers to the calls by their number.
NothingUnapprovedRunsEver == NothingUnapprovedRuns
=============================================================================
