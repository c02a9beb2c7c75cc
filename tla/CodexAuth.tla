------------------------------ MODULE CodexAuth ------------------------------
(***************************************************************************)
(* The Codex login of several processes in one file                        *)
(* (integrations/openai_codex.py, scripts/probe_openai_codex.py).  A       *)
(* process reads the file, asks the OAuth endpoint for new tokens when     *)
(* these expire, and writes what it read, with the new tokens in it, over  *)
(* the file: no lock, first truncated, then written.                       *)
(***************************************************************************)
EXTENDS Naturals, FiniteSets, Sequences

CONSTANTS
  Process,    \* processes that build Codex models
  PoolSize,   \* entries of the credential pool
  MaxTokens,  \* access tokens the endpoint issues (bound)
  MaxLogins   \* device logins of the probe script (bound)

AuthAssumption ==
  /\ IsFiniteSet(Process)
  /\ PoolSize \in Nat /\ MaxTokens \in Nat \ {0} /\ MaxLogins \in Nat

(* A refresh token is named by the access token it came with; 0 is none.   *)
Token == [access : 0..MaxTokens, refresh : 0..MaxTokens]
NoTokens == [access |-> 0, refresh |-> 0]
Entry == [tok : Token, device : BOOLEAN, cooling : BOOLEAN]

(* The file: providers.openai-codex (an absent state has no tokens table), *)
(* top-level tokens, the credential pool.                                  *)
Content == [known : BOOLEAN, state : Token, top : Token, pool : [1..PoolSize -> Entry]]

(* A process with its copy of the file and the tokens it has.              *)
Copying == [pc : {"idle", "ask", "save", "write"}, copy : Content, tok : Token]

VARIABLES
  file,     \* content of auth_json
  readable, \* it is whole, neither truncated nor written by two at once
  proc,     \* per process: where it is, its copy of the file, the new tokens
  script,   \* the same for the login of the probe script
  rotates,  \* external: the endpoint returns a new refresh token and ends the old one
  accepted, \* external: the refresh tokens the endpoint accepts
  issued,   \* external: access tokens issued so far
  expiring, \* access tokens within 120 seconds of their end, or past it
  logins, mishap

authVars == <<file, readable, proc, script, rotates, accepted, issued, expiring, logins, mishap>>

Idle == [pc |-> "idle", copy |-> [known |-> FALSE, state |-> NoTokens, top |-> NoTokens,
                                  pool |-> [e \in 1..PoolSize |-> [tok |-> NoTokens, device |-> FALSE, cooling |-> FALSE]]],
         tok |-> NoTokens]

----------------------------------------------------------------------------
(* _codex_pool_tokens: the first entry with an access token that is not    *)
(* cooling down.                                                           *)
PoolTokens(f) ==
  LET usable == {e \in 1..PoolSize : f.pool[e].tok.access # 0 /\ ~f.pool[e].cooling}
  IN IF usable = {} THEN NoTokens
     ELSE f.pool[CHOOSE e \in usable : \A d \in usable : e <= d].tok

(* The tokens a file stands for: of the state if there is one, otherwise   *)
(* of the top level; of the pool if that place has no access token.        *)
Chosen(f) ==
  LET place == IF f.known THEN f.state ELSE f.top
  IN IF place.access # 0 THEN place
     ELSE IF PoolTokens(f).access # 0 THEN PoolTokens(f) ELSE place

(* _sync_codex_pool_entries. *)
Synced(pool, tok) ==
  [e \in 1..PoolSize |->
     IF ~pool[e].device THEN pool[e]
     ELSE [pool[e] EXCEPT !.tok = [access |-> tok.access,
                                   refresh |-> IF tok.refresh # 0 THEN tok.refresh ELSE @.refresh],
                          !.cooling = FALSE]]

(* What _save_codex_tokens makes of the copy it was given.                 *)
SavedOldRefresh(f, tok) ==
  [f EXCEPT !.known = TRUE,
            !.state = [access |-> tok.access, refresh |-> IF @.refresh # 0 THEN @.refresh ELSE tok.refresh],
            !.pool = Synced(@, tok)]
Saved(f, tok) ==
  [f EXCEPT !.known = TRUE,
            !.state = [access |-> tok.access, refresh |-> IF tok.refresh # 0 THEN tok.refresh ELSE @.refresh],
            !.pool = Synced(@, tok)]

Saving == {p \in Process : proc[p].pc \in {"save", "write"}}
Writers == Cardinality({p \in Process : proc[p].pc = "write"}) + (IF script.pc = "write" THEN 1 ELSE 0)

----------------------------------------------------------------------------
(* A login is kept in the state, at the top level or in the pool.          *)
AuthInit ==
  /\ file \in {f \in [known : BOOLEAN, state : {NoTokens, [access |-> 1, refresh |-> 1]},
                      top : {NoTokens, [access |-> 1, refresh |-> 1]},
                      pool : [1..PoolSize -> [tok : {NoTokens, [access |-> 1, refresh |-> 1]},
                                              device : BOOLEAN, cooling : BOOLEAN]]] :
               Chosen(f).access # 0 /\ (~f.known => f.state = NoTokens)}
  /\ readable = TRUE
  /\ proc = [p \in Process |-> Idle] /\ script = Idle
  /\ rotates \in BOOLEAN
  /\ accepted = {1} /\ issued = 1 /\ expiring = {}
  /\ logins = 0 /\ mishap = FALSE

(* resolve_codex_credentials up to the refresh.  A file that cannot be     *)
(* read or has no access token fails the construction of the model, and a  *)
(* token that lasts is used as it is: neither changes anything here.       *)
Resolve(p) ==
  /\ proc[p].pc = "idle" /\ readable
  /\ Chosen(file).access # 0
  /\ Chosen(file).refresh # 0 /\ Chosen(file).access \in expiring
  /\ proc' = [proc EXCEPT ![p] = [pc |-> "ask", copy |-> file, tok |-> Chosen(file)]]
  /\ UNCHANGED <<file, readable, script, accepted, issued, expiring, logins, mishap>>

(* The endpoint and _refresh_codex_oauth_token.  A refusal, or an answer   *)
(* that is lost, ends the attempt and leaves the file as it is.            *)
Refresh(p) ==
  /\ proc[p].pc = "ask"
  /\ IF proc[p].tok.refresh \in accepted
     THEN
       /\ issued < MaxTokens /\ issued' = issued + 1
       /\ accepted' = IF rotates THEN (accepted \ {proc[p].tok.refresh}) \union {issued'} ELSE accepted
       /\ \/ /\ proc' = [proc EXCEPT ![p].pc = "save",
                           ![p].tok = [access |-> issued', refresh |-> IF rotates THEN issued' ELSE @.refresh]]
             /\ UNCHANGED mishap
          \/ /\ proc' = [proc EXCEPT ![p] = Idle]
             /\ mishap' = (mishap \/ rotates)
     ELSE
       /\ proc' = [proc EXCEPT ![p] = Idle]
       /\ UNCHANGED <<accepted, issued, mishap>>
  /\ UNCHANGED <<file, readable, script, expiring, logins>>

(* _save_codex_tokens: open() truncates, the handle writes.  Writers that  *)
(* meet leave a file of either, or of the ends of both.                    *)
Truncate(p) ==
  /\ proc[p].pc = "save"
  /\ proc' = [proc EXCEPT ![p].pc = "write"]
  /\ readable' = FALSE
  /\ mishap' = (mishap \/ Writers > 0)
  /\ UNCHANGED <<file, script, accepted, issued, expiring, logins>>

Write(p) ==
  /\ proc[p].pc = "write"
  /\ file' = Saved(proc[p].copy, proc[p].tok)
  /\ readable' \in IF mishap THEN BOOLEAN ELSE {TRUE}
  /\ proc' = [proc EXCEPT ![p] = Idle]
  /\ UNCHANGED <<script, accepted, issued, expiring, logins, mishap>>

(* The process ends.  New tokens that are not written, and a file that is  *)
(* truncated, are gone.                                                    *)
Crash(p) ==
  /\ proc[p].pc # "idle"
  /\ proc' = [proc EXCEPT ![p] = Idle]
  /\ mishap' = (mishap \/ proc[p].pc = "write" \/ (proc[p].pc = "save" /\ rotates))
  /\ UNCHANGED <<file, readable, script, accepted, issued, expiring, logins>>

(* The probe script has a new login and writes it over a file it could     *)
(* read, or over an empty one; old refresh tokens stay as they are.        *)
Login ==
  /\ script.pc = "idle" /\ logins < MaxLogins /\ issued < MaxTokens
  /\ logins' = logins + 1 /\ issued' = issued + 1
  /\ accepted' = accepted \union {issued'}
  /\ script' = [pc |-> "save", copy |-> IF readable THEN file ELSE Idle.copy,
                tok |-> [access |-> issued', refresh |-> issued']]
  /\ UNCHANGED <<file, readable, proc, expiring, mishap>>

SaveLogin ==
  /\ \/ /\ script.pc = "save"
        /\ script' = [script EXCEPT !.pc = "write"]
        /\ readable' = FALSE
        /\ mishap' = (mishap \/ Writers > 0)
        /\ UNCHANGED file
     \/ /\ script.pc = "write"
        /\ file' = Saved(script.copy, script.tok)
        /\ readable' \in IF mishap THEN BOOLEAN ELSE {TRUE}
        /\ script' = Idle
        /\ UNCHANGED mishap
  /\ UNCHANGED <<proc, accepted, issued, expiring, logins>>

Age ==
  /\ \E t \in (1..issued) \ expiring : expiring' = expiring \union {t}
  /\ UNCHANGED <<file, readable, proc, script, accepted, issued, logins, mishap>>

AuthNext ==
  /\ \/ \E p \in Process : Resolve(p) \/ Refresh(p) \/ Truncate(p) \/ Write(p) \/ Crash(p)
     \/ Login \/ SaveLogin \/ Age
  /\ UNCHANGED rotates

AuthSpec == AuthInit /\ [][AuthNext]_authVars

----------------------------------------------------------------------------
(* Type correctness. *)
AuthTypeOK ==
  /\ file \in Content /\ {readable, rotates, mishap} \subseteq BOOLEAN
  /\ proc \in [Process -> Copying] /\ script \in Copying
  /\ accepted \union expiring \subseteq 1..MaxTokens
  /\ issued \in 1..MaxTokens /\ logins \in 0..MaxLogins
  /\ Saving # {} => issued > 1

(* Once nobody is saving, the file can be read and its refresh token is    *)
(* one the endpoint accepts, whoever refreshed, logged in or ended in      *)
(* between.  Three things may lose a login: an answer of the endpoint that *)
(* is lost, a process that ends between the answer and the write, and      *)
(* writers that meet in the file (mishap).                                 *)
FileIsUsable ==
  ~mishap /\ Saving = {} /\ script.pc # "write" =>
    readable /\ Chosen(file).refresh \in accepted

(* A refresh token that is used once is a lock: where it rotates, and      *)
(* until somebody logs in again, two processes never save at the same      *)
(* time, although the file has no lock.                                    *)
OneSaver == rotates /\ logins = 0 => Cardinality(Saving) <= 1

(* What the code promises of a login that several processes share.         *)
LoginIsKept == AuthTypeOK /\ FileIsUsable /\ OneSaver
=============================================================================
