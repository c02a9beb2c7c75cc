----------------------------- MODULE MCStartup -----------------------------
(* What a process finds when it starts: its settings, and the databases of *)
(* an old release.  world says which:                                      *)
(*                                                                         *)
(* "fields": a field of every kind by itself; "groups": fields that depend *)
(* on each other; "workspace": the workspace alone; "proxies": two remote  *)
(* Tasks and one old message; "shared": two that had one id upstream, and  *)
(* two messages; "local": one whose id upstream is that of a local Task;   *)
(* "reviews" and "mail": a tree with old reviews or messages.              *)
EXTENDS StoreUpgrade, TLC, SettingsFields

CONSTANTS D, repo, other, win, cwd, r1, r2, l1, u, v, a, b, m1, m2, OldKey

VARIABLES
  about, file, doc, env, given, settings, last, answer, edits, calls,
  task, mail, outbox, phase, opened, heard, twice, world

settingsVars == <<about, file, doc, env, given, settings, last, answer, edits, calls>>
remoteVars == <<task, mail, outbox, phase, opened, heard, twice>>
mcvars == <<settingsVars, remoteVars, upgradeVars, world>>

(* One field of every kind: fields that differ in their name only are read alike. *)
Kind(n) == [D[n] EXCEPT !.name = n \in LaunchFields]
OneOfEach == {CHOOSE n \in Names : Kind(n) = k : k \in {Kind(n) : n \in Names}}

TwiceNamed == {"local.timeout", "telegram.task_poll_interval", "telegram.fallback_ips",
               "daytona.api_url", "feishu.allowed_users"}

Single == INSTANCE RuntimeSettings
  WITH Abouts <- {{n} : n \in OneOfEach}, Aliases <- TwiceNamed, Variables <- Names, Spaces <- {},
       Backslashed <- {}, Cwd <- cwd, MaxEdits <- 1, MaxCalls <- 2
Groups == INSTANCE RuntimeSettings
  WITH Abouts <- {{"feishu.group_policy", "feishu.require_mention", "feishu.bot_name"},
                  {"telegram.poll_timeout", "telegram.api_timeout"},
                  {"storage.channel_session_db", "feishu.session_db"}},
       Aliases <- {}, Variables <- Names \ {"feishu.require_mention", "feishu.bot_name"},
       Spaces <- {}, Backslashed <- {}, Cwd <- cwd, MaxEdits <- 0, MaxCalls <- 2
Place == INSTANCE RuntimeSettings
  WITH Abouts <- {{}}, Aliases <- {}, Variables <- {}, Spaces <- {repo, other, win},
       Backslashed <- {win}, Cwd <- cwd, MaxEdits <- 2, MaxCalls <- 3

Row(agent, upstream, error) == [agent |-> agent, upstream |-> upstream, error |-> error]

Proxies == INSTANCE RemoteUpgrade
  WITH Remote <- {r1, r2}, Local <- {},
       OldTasks <- {(r1 :> Row(a, u, "error")) @@ (r2 :> Row(agent, up, Nothing)) :
                      <<agent, up>> \in {<<a, u>>, <<b, u>>, <<a, v>>, <<b, r1>>}},
       Runs <- {<<r1, 1>>, <<r1, 2>>, <<r2, 1>>}, Current <- {<<r1, 2>>, <<r2, 1>>},
       Failed <- {<<r1, 2>>}, Messages <- {m1}
Shared == INSTANCE RemoteUpgrade
  WITH Remote <- {r1, r2}, Local <- {},
       OldTasks <- {(r1 :> Row(a, u, "error")) @@ (r2 :> Row(b, u, Nothing))},
       Runs <- {<<r1, 1>>, <<r2, 1>>}, Current <- {<<r1, 1>>, <<r2, 1>>},
       Failed <- {<<r1, 1>>}, Messages <- {m1, m2}
Mixed == INSTANCE RemoteUpgrade
  WITH Remote <- {r2}, Local <- {l1},
       OldTasks <- {(r2 :> Row(b, up, "error")) @@ (l1 :> Row(a, Nothing, Nothing)) : up \in {l1, u}},
       Runs <- {<<r2, 1>>, <<l1, 1>>}, Current <- {<<r2, 1>>, <<l1, 1>>},
       Failed <- {<<r2, 1>>}, Messages <- {m1}

(* A tree with reviews and no messages, and one with messages to a Task    *)
(* and its child.                                                          *)
Asking == UpgradeNext /\ state' = state /\ inbox' = inbox
Mailing == UpgradeNext /\ asked' = 0 /\ state'[b] = "completed" /\ \A m \in inbox' : m.to # b

ASSUME SettingsAssumption ==
  Single!ConstantsAssumption /\ Groups!ConstantsAssumption /\ Place!ConstantsAssumption
ASSUME OpeningsAssumption ==
  /\ Proxies!ConstantsAssumption /\ Shared!ConstantsAssumption /\ Mixed!ConstantsAssumption
  /\ UpgradeAssumption

(* Where the settings or the old messages stand still, they have no state; *)
(* the tree stands in its first one.                                       *)
SettingsAsleep ==
  /\ about = Nothing /\ file = Nothing /\ doc = Nothing /\ env = Nothing /\ given = Nothing
  /\ settings = Nothing /\ last = Nothing /\ answer = Nothing /\ edits = Nothing
  /\ calls = Nothing
RemoteAsleep ==
  /\ task = Nothing /\ mail = Nothing /\ outbox = Nothing /\ phase = Nothing
  /\ opened = Nothing /\ heard = Nothing /\ twice = Nothing

MCInit ==
  /\ UpgradeInit
  /\ \/ /\ \/ world = "fields" /\ Single!Init
           \/ world = "groups" /\ Groups!Init
           \/ world = "workspace" /\ Place!Init
        /\ RemoteAsleep
     \/ /\ \/ world = "proxies" /\ Proxies!Init
           \/ world = "shared" /\ Shared!Init
           \/ world = "local" /\ Mixed!Init
        /\ SettingsAsleep
     \/ world \in {"reviews", "mail"} /\ SettingsAsleep /\ RemoteAsleep

MCNext ==
  /\ \/ /\ \/ world = "fields" /\ Single!Next
           \/ world = "groups" /\ Groups!Next
           \/ world = "workspace" /\ Place!Next
        /\ UNCHANGED <<remoteVars, upgradeVars>>
     \/ /\ \/ world = "proxies" /\ Proxies!Next
           \/ world = "shared" /\ Shared!Next
           \/ world = "local" /\ Mixed!Next
        /\ UNCHANGED <<settingsVars, upgradeVars>>
     \/ /\ \/ world = "reviews" /\ Asking
           \/ world = "mail" /\ Mailing
        /\ UNCHANGED <<settingsVars, remoteVars>>
  /\ UNCHANGED world
MCSpec == MCInit /\ [][MCNext]_mcvars

\* Reading the same document again gives the same settings, also in a process that
\* inherits what the first one wrote to the environment; the document accepted last is
\* not refused, but for a workspace it names in the Windows style; and a workspace stays
\* until a call names another (RuntimeSettings).
SettingsStay ==
  /\ [](world = "fields" => Single!TypeOK /\ Single!EnvironmentAgrees)
  /\ [](world = "groups" => Groups!EnvironmentAgrees)
  /\ [][ /\ world = "fields" => Single!ReentryAccepted /\ Single!SameDocumentSameSettings
         /\ world = "groups" => Groups!ReentryAccepted /\ Groups!SameDocumentSameSettings
         /\ world = "workspace" => Place!ReentryAccepted /\ Place!WorkspaceStays ]_mcvars

\* The old messages of remote Tasks: bound to their Task or isolated, read once, and
\* never touched by a later opening (RemoteUpgrade).
OldMessagesAreBound ==
  /\ [](world = "proxies" =>
          /\ Proxies!TypeOK /\ Proxies!NamesItsTask /\ Proxies!HeardOnce /\ Proxies!NothingPrivate)
  /\ [](world = "shared" => Shared!NamesItsTask /\ Shared!HeardOnce)
  /\ [](world = "local" => Mixed!NamesItsTask /\ Mixed!HeardOnce)
  /\ [][ /\ world = "proxies" => Proxies!KeepsTheClear /\ Proxies!StaysAsItIs
         /\ world = "shared" => Shared!StaysAsItIs
         /\ world = "local" => Mixed!StaysAsItIs ]_mcvars
=============================================================================
