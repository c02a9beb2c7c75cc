----------------------------- MODULE ToolApproval -----------------------------
(***************************************************************************)
(* Tool calls between the model and the tools                              *)
(* (runtime/middleware/human_approval.py, control_plane/permissions.py).   *)
(* The policy allows a call, denies it or asks; the calls it asks about go *)
(* to a human in one review, who approves, rejects or edits each.          *)
(* after_model keeps nothing across a review: the graph runs it again from *)
(* the calls the model proposed, and interrupt() returns the answers given *)
(* so far one after the other.  What it decides must come out as before,   *)
(* although the policy is asked again, perhaps in another process.         *)
(***************************************************************************)
EXTENDS Naturals, Sequences, FiniteSets

CONSTANTS
  MaxCalls,    \* calls of one message of the model (bound)
  Profiles,    \* permission profiles (subset of Profile)
  MaxRounds,   \* reviews of one message (bound)
  MaxChanges   \* restarts with another permissions.toml (bound)

Policy == {"allow", "ask", "deny"}
Decision == {"approve", "edit", "reject"}

(* A command is the sequence of its segments between control operators     *)
(* that stand on their own, each named by its prefix; one that cannot be   *)
(* parsed has none.  Other tools have no command.                          *)
Prefix == {"git", "rm"}
Command == {<<>>, <<"git">>, <<"rm">>, <<"git", "rm">>}
Action == [tool : {"execute"}, command : Command] \union [tool : {"publish"}, command : {<<>>}]

(* A profile: policies of tools ("unset" where the file has none), rules   *)
(* for prefixes, the risks it reviews, and the decisions it lets a human   *)
(* take on execute.                                                        *)
Risk == {"command_parse_error", "shell_control_operator", "destructive_filesystem"}
Profile ==
  [execute : Policy \union {"unset"}, default : Policy \union {"unset"},
   rules : [Prefix -> Policy \union {"unset"}], reviewed : SUBSET Risk,
   choices : (SUBSET Decision) \ {{}}]

ApprovalAssumption == Profiles \subseteq Profile /\ {MaxCalls, MaxRounds, MaxChanges} \subseteq Nat

VARIABLES
  profile,   \* the permission profile of the running process
  proposed,  \* the model's calls, in the checkpoint
  answers,   \* the reviews answered so far: what interrupt() returns, in order
  shown,     \* the pending review: its id and the calls it asks about
  phase,     \* model (after_model is to run), waiting, tools, done, failed
  calls,     \* the calls as after_model leaves them, and those it blocked
  ran,       \* the calls the tools have run
  granted,   \* history: the calls a human approved, as they were shown
  mistaken,  \* history: a human answered what the review did not offer
  minted, changes

approvalVars == <<profile, proposed, answers, shown, phase, calls, ran, granted, mistaken, minted, changes>>

Call == 1..Len(proposed)

----------------------------------------------------------------------------
(* _detect_risk: the first of the risks a command shows.                   *)
Risks(command) ==
  CASE command = <<>> -> {"command_parse_error"}
    [] Len(command) > 1 -> {"shell_control_operator"}
    [] command = <<"rm">> -> {"destructive_filesystem"}
    [] OTHER -> {}

(* _matches_deny_rule looks at every segment, other rules at the first.    *)
DeniedBy(p, command) == \E i \in 1..Len(command) : p.rules[command[i]] = "deny"

Rule(p, command) ==
  IF command = <<>> \/ p.rules[command[1]] = "deny" THEN "unset" ELSE p.rules[command[1]]

(* PermissionPolicy.evaluate: a tool without a policy of its own has the   *)
(* default, and without one it is asked about.                             *)
ToolPolicy(p, tool) ==
  CASE tool = "execute" /\ p.execute # "unset" -> p.execute
    [] p.default # "unset" /\ (tool # "execute" \/ p.execute = "unset") -> p.default
    [] OTHER -> "ask"

Evaluate(p, a) ==
  CASE a.tool # "execute" -> ToolPolicy(p, a.tool)
    [] a.tool = "execute" /\ DeniedBy(p, a.command) -> "deny"
    [] a.tool = "execute" /\ ~DeniedBy(p, a.command) /\ Risks(a.command) \intersect p.reviewed # {} -> "ask"
    [] OTHER -> IF Rule(p, a.command) # "unset" THEN Rule(p, a.command) ELSE ToolPolicy(p, "execute")

Choices(p, a) == IF a.tool = "execute" /\ p.execute # "unset" THEN p.choices ELSE Decision

----------------------------------------------------------------------------
(* after_model.  A round evaluates every call that is neither approved nor *)
(* blocked in its present form; denied ones are blocked at once.           *)
Start == [act |-> proposed, approved |-> {}, blocked |-> {}, failed |-> FALSE]

Open(st) == {c \in Call : <<c, st.act[c]>> \notin st.approved \union st.blocked}
AskedOf(p, st) == {c \in Open(st) : Evaluate(p, st.act[c]) = "ask"}

Evaluated(p, st) ==
  [st EXCEPT !.blocked = @ \union {<<c, st.act[c]>> : c \in {o \in Open(st) : Evaluate(p, st.act[o]) = "deny"}}]

(* Answers belong to the calls asked about in their order.                 *)
Place(c, asked) == Cardinality({d \in asked : d <= c})

Fits(p, st, answer) ==
  /\ Len(answer) = Cardinality(AskedOf(p, st))
  /\ \A c \in AskedOf(p, st) : answer[Place(c, AskedOf(p, st))].type \in Choices(p, st.act[c])

AnsweredAlike(p, st, answer) ==
  LET asked == AskedOf(p, st)
      of(type) == IF answer[1].type = type THEN asked ELSE {}
  IN [st EXCEPT
       !.approved = @ \union {<<c, st.act[c]>> : c \in of("approve")},
       !.blocked = @ \union {<<c, st.act[c]>> : c \in of("reject")},
       !.act = [c \in Call |-> IF c \in of("edit") THEN answer[Place(c, asked)].act ELSE @[c]]]
Answered(p, st, answer) ==
  LET asked == AskedOf(p, st)
      of(type) == {c \in asked : answer[Place(c, asked)].type = type}
  IN [st EXCEPT
       !.approved = @ \union {<<c, st.act[c]>> : c \in of("approve")},
       !.blocked = @ \union {<<c, st.act[c]>> : c \in of("reject")},
       !.act = [c \in Call |-> IF c \in of("edit") THEN answer[Place(c, asked)].act ELSE @[c]]]

Round(p, st, answer) ==
  LET e == Evaluated(p, st) IN
  IF st.failed \/ AskedOf(p, e) = {} THEN e
  ELSE IF Fits(p, e, answer) THEN Answered(p, e, answer) ELSE [e EXCEPT !.failed = TRUE]

(* What after_model has come to when the answers given so far are used up. *)
Replayed(p) ==
  LET after[n \in 0..Len(answers)] == IF n = 0 THEN Start ELSE Round(p, after[n - 1], answers[n])
  IN Evaluated(p, after[Len(answers)])

----------------------------------------------------------------------------
ApprovalInit ==
  /\ profile \in Profiles
  /\ proposed \in UNION {[1..n -> Action] : n \in 1..MaxCalls}
  /\ answers = <<>> /\ shown = [id |-> 0, calls |-> {}]
  /\ phase = "model"
  /\ calls = [act |-> proposed, blocked |-> {}]
  /\ ran = {} /\ granted = {} /\ mistaken = FALSE
  /\ minted = 0 /\ changes = 0

(* The node runs from its start.  Every interrupt() it passes has made a   *)
(* review id of its own; the last one, not yet answered, is shown.         *)
AfterModel ==
  LET st == Replayed(profile)
      asked == AskedOf(profile, st)
  IN
  /\ phase = "model"
  /\ CASE st.failed -> phase' = "failed" /\ minted' = minted + Len(answers) /\ UNCHANGED <<shown, calls>>
       [] ~st.failed /\ asked # {} ->
            /\ phase' = "waiting"
            /\ minted' = minted + Len(answers) + 1
            /\ shown' = [id |-> minted', calls |-> {<<c, st.act[c]>> : c \in asked}]
            /\ UNCHANGED calls
       [] OTHER ->
            /\ phase' = "tools"
            /\ minted' = minted + Len(answers)
            /\ calls' = [act |-> st.act, blocked |-> {b[1] : b \in st.blocked}]
            /\ UNCHANGED shown
  /\ UNCHANGED <<profile, proposed, answers, ran, granted, mistaken, changes>>

(* The human answers the pending review; the run is resumed with it.  The  *)
(* answer is checked when after_model reads it, not before.                *)
Offered == {c \in Call : \E x \in shown.calls : x[1] = c}
ShownAct(c) == (CHOOSE x \in shown.calls : x[1] = c)[2]

AnswerReview ==
  /\ phase = "waiting" /\ Len(answers) < MaxRounds
  /\ \E pick \in [Offered -> [type : Decision, act : Action]], short \in BOOLEAN :
       LET full == [i \in 1..Cardinality(Offered) |-> pick[CHOOSE c \in Offered : Place(c, Offered) = i]]
           offered == \A c \in Offered : pick[c].type \in Choices(profile, ShownAct(c))
       IN
       /\ \A c \in Offered :
            /\ pick[c].act.tool = ShownAct(c).tool
            /\ pick[c].type # "edit" => pick[c].act = ShownAct(c)
       /\ answers' = Append(answers, IF short THEN Tail(full) ELSE full)
       /\ mistaken' = (mistaken \/ short \/ ~offered)
       /\ granted' = granted \union {<<c, ShownAct(c)>> : c \in {o \in Offered : pick[o].type = "approve"}}
  /\ shown' = [id |-> 0, calls |-> {}]
  /\ phase' = "model"
  /\ UNCHANGED <<profile, proposed, calls, ran, minted, changes>>

(* The process ends while it waits and starts with other permissions.  The *)
(* checkpoint and the pending review are still there.                      *)
ChangePermissions ==
  /\ phase = "waiting" /\ changes < MaxChanges
  /\ profile' \in Profiles \ {profile}
  /\ changes' = changes + 1
  /\ UNCHANGED <<proposed, answers, shown, phase, calls, ran, granted, mistaken, minted>>

(* The tools run what was not given an error message in its place.         *)
RunTools ==
  /\ phase = "tools"
  /\ ran' = {<<c, calls.act[c]>> : c \in Call \ calls.blocked}
  /\ phase' = "done"
  /\ UNCHANGED <<profile, proposed, answers, shown, calls, granted, mistaken, minted, changes>>

ApprovalNext == AfterModel \/ AnswerReview \/ ChangePermissions \/ RunTools

ApprovalSpec == ApprovalInit /\ [][ApprovalNext]_approvalVars

----------------------------------------------------------------------------
(* Type correctness: a review asks about calls of this message, and only   *)
(* while the run waits.                                                    *)
ApprovalTypeOK ==
  /\ profile \in Profiles /\ proposed \in Seq(Action) /\ Len(proposed) \in 1..MaxCalls
  /\ phase \in {"model", "waiting", "tools", "done", "failed"}
  /\ shown.calls \subseteq Call \X Action
  /\ (phase = "waiting") <=> (shown.calls # {})
  /\ calls.act \in [Call -> Action] /\ calls.blocked \subseteq Call
  /\ ran \union granted \subseteq Call \X Action

(* No call runs in a form that neither the policy allows nor a human has   *)
(* approved (the checkpoint "executes no call that is not yet approved").  *)
NothingUnapprovedRuns == \A x \in ran : Evaluate(profile, x[2]) = "allow" \/ x \in granted

(* A command that begins with a denied prefix never runs, whatever rule,   *)
(* default or human would let it; nor a plain one with a reviewed risk     *)
(* that nobody approved.                                                   *)
DenyAndRiskComeFirst ==
  \A x \in ran : x[2].tool = "execute" =>
    /\ x[2].command # <<>> => profile.rules[x[2].command[1]] # "deny"
    /\ x[2].command = <<>> \/ Len(x[2].command) > 1 \/ x[2].command = <<"rm">> =>
         x \in granted
           \/ (IF x[2].command = <<>> THEN "command_parse_error"
               ELSE IF Len(x[2].command) > 1 THEN "shell_control_operator"
               ELSE "destructive_filesystem") \notin profile.reviewed

(* The replay remembers: what a human has approved is not asked about      *)
(* again when another call of the message was edited.                      *)
AskedOnce == shown.calls \intersect granted = {}

(* A review answered as it was offered is applied: the replay meets the    *)
(* same questions in the same order, and does not fail the run.            *)
AnswersAreApplied == phase = "failed" => mistaken

(* What the code promises of the calls of one message.  The answers to     *)
(* several calls belong to them by their place alone: what is promised of  *)
(* them supposes that the permissions stay as they are.                    *)
ApprovalIsKept ==
  /\ ApprovalTypeOK
  /\ changes = 0 \/ Len(proposed) = 1 => NothingUnapprovedRuns /\ DenyAndRiskComeFirst
  /\ changes = 0 => AskedOnce /\ AnswersAreApplied
=============================================================================
