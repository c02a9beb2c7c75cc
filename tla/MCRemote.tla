------------------------------ MODULE MCRemote ------------------------------
(* What depends on other machines: trees of delegated Tasks over several   *)
(* Gateways, the answers of the Codex model, and its login, which two      *)
(* processes share.  world says which:                                     *)
(*                                                                         *)
(* "budget": two processes of one Gateway and a second Gateway add to a    *)
(* tree at once; "retry" and "replay": the create of a proxy is tried      *)
(* again, at another process and after a restart, without the promise of   *)
(* ruyi_gateway_v1 and with it; "chain": a path over three Gateways that   *)
(* tries to come back to the first, and a second way to the third;         *)
(* "restart": a tree begun by an old release, and other limits after a     *)
(* restart; "calls": a call of the model; "rotates": a login in any place  *)
(* whose refresh token is used once; "login": one in the first entry of    *)
(* the pool or outside it, with a new login meanwhile.                     *)
EXTENDS DelegationTree, CodexStream, CodexAuth, TLC

CONSTANTS u1, u2

VARIABLE world

mcvars == <<vars, codexVars, authVars, world>>

W(i, f, t) == [id |-> i, from |-> f, to |-> t]
L(d, n) == [depth |-> d, tasks |-> n]
AtA == {"a0", "a1", "a2", "a3", "old"}
AtB == {"b1", "b2", "b3"}
AtC == {"c1", "c2", "c3"}
Serves == ("p1" :> "A") @@ ("p2" :> "A") @@ ("q" :> "B") @@ ("r" :> "C")
Homes == [i \in AtA \union AtB \union AtC |->
            IF i \in AtA THEN "A" ELSE IF i \in AtB THEN "B" ELSE "C"]

(* What is asked for, by which processes, under which limits.              *)
Trees == [
  budget |-> [at |-> {"p1", "p2", "q"}, limits |-> {L(3, 2), L(2, 3)}, restarts |-> 0,
    asks |-> {W("a1", None, Here), W("a2", "a1", Here), W("a2", "a1", "B"),
              W("a3", "a1", "B"), W("b1", "a2", Here), W("b2", "a3", Here),
              W("b3", "b1", Here)}],
  retry |-> [at |-> {"p1", "p2", "q"}, limits |-> {L(9, 9)}, restarts |-> 1,
    asks |-> {W("a1", None, "B"), W("b1", "a1", Here), W("b2", "a1", Here)}],
  replay |-> [at |-> {"p1", "p2", "q"}, limits |-> {L(9, 9)}, restarts |-> 1,
    asks |-> {W("a2", None, "B"), W("b2", "a2", Here), W("b3", "a2", Here)}],
  chain |-> [at |-> {"p1", "q", "r"}, limits |-> {L(3, 9), L(4, 2)}, restarts |-> 0,
    asks |-> {W("a1", None, Here), W("a2", "a1", "B"), W("a0", "a1", "C"),
              W("b1", "a2", "C"), W("c1", "b1", Here), W("c2", "c1", "A"),
              W("a3", "c2", Here), W("c3", "a0", Here), W("c2", "c3", "B"),
              W("b2", "c2", Here), W("b3", "b2", Here)}],
  restart |-> [at |-> {"p1", "q"}, limits |-> {L(3, 2), L(2, 3)}, restarts |-> 1,
    asks |-> {W("a2", "old", Here), W("a3", "a2", "B"), W("a0", "old", Here),
              W("b1", "a3", Here), W("b2", "b1", Here)}]]
Requests == UNION {Trees[t].asks : t \in DOMAIN Trees}
AllLimits == UNION {Trees[t].limits : t \in DOMAIN Trees}

(* A tree begins with the limits of its world, and grows by its requests.  *)
Begins(t) == \A p \in Procs : limits[p] \in IF p \in t.at THEN t.limits ELSE {L(9, 9)}
Grows(t) ==
  \/ \E p \in t.at :
       \/ \E w \in t.asks : Ask(p, w)
       \/ \E i \in Ids : CallStep(p, i) /\ \A j \in Ids : asked'[j] \in t.asks \union {None}
       \/ \E l \in t.limits : Restart(p, l) /\ restarts' <= t.restarts
  \/ \E i \in Ids : Lose(i)

(* A login while no other is made, or one that others may come beside.  A  *)
(* token that the file does not stand for may as well age later.           *)
LoginBegins ==
  /\ AuthInit
  /\ world = "rotates" => rotates
  /\ world = "login" => file.pool[2].tok = NoTokens /\ ~file.pool[2].device /\ ~file.pool[2].cooling
LoginGoesOn ==
  /\ AuthNext
  /\ world = "rotates" => logins' = 0
  /\ expiring' \subseteq expiring \union {Chosen(file).access}

ASSUME TreeAssumption == ConstantsAssumption
ASSUME ModelAssumption == CodexAssumption /\ AuthAssumption

(* Where a part stands still, it stands in one of its first states.        *)
TreesAsleep == Init /\ \A p \in Procs : limits[p] = L(9, 9)
LoginAsleep ==
  /\ AuthInit /\ rotates /\ file.known /\ file.state # NoTokens /\ file.top = NoTokens
  /\ \A e \in 1..PoolSize : file.pool[e] = Idle.copy.pool[e]

MCInit ==
  \/ world \in DOMAIN Trees /\ Init /\ Begins(Trees[world]) /\ CodexInit /\ LoginAsleep
  \/ world = "calls" /\ CodexInit /\ TreesAsleep /\ LoginAsleep
  \/ world \in {"rotates", "login"} /\ LoginBegins /\ TreesAsleep /\ CodexInit
MCNext ==
  /\ \/ world \in DOMAIN Trees /\ Grows(Trees[world]) /\ UNCHANGED <<codexVars, authVars>>
     \/ world = "calls" /\ CodexNext /\ UNCHANGED <<vars, authVars>>
     \/ world \in {"rotates", "login"} /\ LoginGoesOn /\ UNCHANGED <<vars, codexVars>>
  /\ UNCHANGED world
MCSpec == MCInit /\ [][MCNext]_mcvars

Symmetry == Permutations({u1, u2})
=============================================================================
