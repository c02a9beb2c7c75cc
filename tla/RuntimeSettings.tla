---------------------------- MODULE RuntimeSettings ----------------------------
(***************************************************************************)
(* How a process gets its settings (config/runtime_settings.py).           *)
(* configure_runtime_environment reads ruyi.toml, selects every field from *)
(* the document, its alias there, the environment or a default, checks it, *)
(* and writes what it selected back to the environment, where the next     *)
(* call, or a process that inherits the environment, finds it again.       *)
(* A run is about a few fields; the others are not set anywhere.           *)
(*                                                                         *)
(* A raw value is a type and what it says: "std" (the built-in default),   *)
(* "ok" (another valid one), "pad" ("ok" with white space around it),       *)
(* "commas" (a list with one element that holds a comma),      *)
(* "out" (well-typed and not allowed), "blank" (a blank string or []).     *)
(***************************************************************************)
EXTENDS Naturals, FiniteSets, TLC

CONSTANTS
  D,           \* the fields by name, as SettingsFields has them
  Identity,    \* those of them that say who the Feishu channel is
  LaunchFields, \* and those that the service script of paseo.json names
  Abouts,      \* sets of field names, one of which a behaviour is about
  Aliases,     \* fields whose alias a document uses (bound)
  Variables,   \* fields that the user's environment sets (bound)
  Spaces,      \* the workspaces a document, an argument or a variable names
  Backslashed, \* those of them that hold a backslash
  Cwd,         \* the current directory
  Nothing,     \* no settings
  MaxEdits,    \* times the document is edited (bound)
  MaxCalls     \* calls of configure_runtime_environment (bound)

ConstantsAssumption ==
  /\ \A s \in Abouts \union {Aliases, Variables} : s \subseteq DOMAIN D
  /\ Backslashed \subseteq Spaces /\ Cwd \notin Spaces
  /\ {MaxEdits, MaxCalls} \subseteq Nat

----------------------------------------------------------------------------
Native(kind) ==
  CASE kind \in {"int", "float"} -> "num"
    [] kind = "bool" -> "flag"
    [] kind \in {"list", "ips"} -> "list"
    [] OTHER -> "str"

Unset == [type |-> "none", says |-> "blank"]
Raw(type, says) == [type |-> type, says |-> says]

(* What a document or an environment may hold for a field.                 *)
Says(kind) ==
  (IF kind = "single" THEN {"std"} ELSE {"std", "ok", "pad"})
  \union (IF kind \in {"optional", "text"} THEN {} ELSE {"out"})
  \union (IF kind = "list" THEN {"commas"} ELSE {})

InDocument(n) ==
  LET native == Native(D[n].kind) IN
  {Unset, Raw("str", "blank")} \union (IF native = "str" THEN {} ELSE {Raw("str", "ok")})
  \union {Raw(native, says) : says \in IF native \in {"str", "list"} THEN Says(D[n].kind)
                                       ELSE IF native = "flag" THEN {"std", "ok"} ELSE {"std", "ok", "out"}}
  \union (IF native = "list" THEN {Raw("list", "blank")} ELSE {})

InAlias(n) == {Unset} \union (IF n \in Aliases /\ D[n].alias THEN {Raw(Native(D[n].kind), "std"), Raw("str", "blank")} ELSE {})

InEnvironment(n) ==
  {Unset} \union (IF n \in Variables
                   THEN {Raw("str", says) : says \in {"blank"} \union (Says(D[n].kind) \ {"std"})}
                   ELSE {})

(* The values settings hold.  "commas" is read back as two elements.       *)
Refused == "refused"
None == "None"
Derived == [std |-> "from std", ok |-> "from ok", pad |-> "from pad"]

IsUnset(raw) == raw.says = "blank"

(* _int_value, _bool_value and _finite_float: a native value, or from the  *)
(* environment its text.                                                   *)
ScalarValue(raw, native, external) ==
  IF raw.type = native \/ (external /\ raw.type = "str")
  THEN CASE raw.says \in {"out", "blank"} -> Refused
         [] raw.says = "pad" -> "ok"
         [] OTHER -> raw.says
  ELSE Refused

(* _string_tuple and _fallback_ips: a list, or from the environment a text *)
(* that is cut at its commas.                                              *)
ListValue(raw, kind, external) ==
  CASE raw.type = "list" ->
         (CASE raw.says = "blank" -> "()" [] raw.says = "pad" -> "ok"
            [] raw.says = "out" -> Refused [] OTHER -> raw.says)
    [] raw.type = "str" /\ external ->
         (CASE raw.says = "pad" -> "ok" [] raw.says = "commas" -> "cut"
            [] raw.says \in {"out", "blank"} -> Refused [] OTHER -> raw.says)
    [] OTHER -> Refused

(* _optional_string, _non_empty_string, _node_id, _enum_value, _parse_mode,*)
(* _backend_kind, _gateway_host, _http_url and _path_value.  A URL, a host *)
(* and a kind must have no space around them; in a path it is kept; the    *)
(* others are stripped.                                                    *)
TextValue(raw, kind) ==
  CASE raw.type # "str" \/ raw.says \in {"out", "blank"} -> Refused
    [] raw.says = "pad" /\ kind \in {"url", "optional url", "host", "kind"} -> Refused
    [] raw.says = "pad" /\ kind # "path" -> "ok"
    [] OTHER -> raw.says

Value(raw, kind, external) ==
  CASE kind \in {"int", "float", "bool"} -> ScalarValue(raw, Native(kind), external)
    [] kind \in {"list", "ips"} -> ListValue(raw, kind, external)
    [] OTHER -> TextValue(raw, kind)

----------------------------------------------------------------------------
VARIABLES
  about,     \* the fields this behaviour is about
  file,      \* ruyi.toml: missing, empty, garbled (no TOML), strange (bad shape), whole
  doc,       \* its fields (under their own name and their alias) and workspace
  env,       \* the environment: the fields' variables, RUYI_WORKSPACE, and whether
             \* RUYI_RUNTIME_CONFIGURED is set
  given,     \* the environment the user started the process with
  settings,  \* what the last call in this process returned, Nothing before
  last,      \* history: the last successful call in this environment
  answer,    \* history: how the last call ended
  edits, calls

vars == <<about, file, doc, env, given, settings, last, answer, edits, calls>>

Nowhere == "blank"
SpaceOrNone == Spaces \union {Nowhere}

(* A document names every field with a value that is possible for it, or   *)
(* its alias.                                                              *)
Choices(of(_)) == {f \in [about -> UNION {of(n) : n \in about}] : \A n \in about : f[n] \in of(n)}
Documents == [fields : Choices(InDocument), alias : Choices(InAlias), workspace : SpaceOrNone]

(* _selected: the document, the alias in the document, the variable.       *)
IsSet(raw, n) == raw # Unset /\ (D[n].keep \/ ~IsUnset(raw))

Selected(n, d, e) ==
  CASE IsSet(d.fields[n], n) -> [raw |-> d.fields[n], external |-> FALSE]
    [] ~IsSet(d.fields[n], n) /\ D[n].alias /\ IsSet(d.alias[n], n) -> [raw |-> d.alias[n], external |-> FALSE]
    [] OTHER -> [raw |-> IF D[n].env /\ IsSet(e.vars[n], n) THEN e.vars[n] ELSE Unset, external |-> TRUE]

FieldValue(n, d, e) ==
  LET own(m) == LET s == Selected(m, d, e) IN
                  IF s.raw = Unset THEN "std" ELSE Value(s.raw, D[m].kind, s.external)
      s == Selected(n, d, e)
      up == D[n].up
  IN CASE s.raw # Unset -> Value(s.raw, D[n].kind, s.external)
       [] s.raw = Unset /\ D[n].kind \in {"optional", "optional url"} -> None
       [] s.raw = Unset /\ D[n].kind \in {"list", "ips"} -> "()"
       [] s.raw = Unset /\ up # "-" ->
            (IF up \in about THEN (IF own(up) = Refused THEN Refused ELSE Derived[own(up)]) ELSE "from std")
       [] OTHER -> "std"

(* A Feishu channel that answers groups only when it is mentioned must     *)
(* know who it is.                                                         *)
Unheard(vals) ==
  LET value(n, default) == IF n \in about THEN vals[n] ELSE default IN
  /\ value("feishu.group_policy", "std") # "std"
  /\ value("feishu.require_mention", "std") = "std"
  /\ \A n \in Identity : value(n, None) = None

Loaded(d, e) == [n \in about |-> FieldValue(n, d, e)]
Valid(vals) == (\A n \in about : vals[n] # Refused) /\ ~Unheard(vals)

(* _load_settings_toml and _validate_shape.  An empty file is a document   *)
(* without fields.                                                         *)
Readable(f) == f \in {"empty", "whole"}
EmptyDocument == [fields |-> [n \in about |-> Unset], alias |-> [n \in about |-> Unset], workspace |-> Nowhere]

Parsed(f, d) == IF f = "empty" THEN EmptyDocument ELSE d

(* configure_runtime_environment and _select_workspace.  A second call     *)
(* keeps the workspace of the first, unless it is given one.               *)
Override(arg) == IF arg = Nowhere /\ env.again THEN env.workspace ELSE arg

(* resolve_ruyi_paths, which is not shown the variable.                    *)
WindowsStyle(w) == w \in Backslashed
ResolvePaths(w) == IF WindowsStyle(w) THEN Refused ELSE IF w = Nowhere THEN Cwd ELSE w

Workspace(arg, d) ==
  CASE Override(arg) # Nowhere -> Override(arg)
    [] Override(arg) = Nowhere /\ d.workspace # Nowhere -> d.workspace
    [] OTHER -> IF WindowsStyle(env.workspace) THEN Refused
                ELSE IF env.workspace # Nowhere THEN env.workspace ELSE ResolvePaths(Nowhere)

(* _string_value and _project_runtime_settings: None and an empty          *)
(* fallback_ips are not written, and what was there stays.                 *)
ProjectedEmptyIps(vals) ==
  [n \in about |->
     CASE vals[n] = None -> env.vars[n]
       [] D[n].kind \in {"list", "ips"} /\ vals[n] = "()" -> Raw("str", "blank")
       [] OTHER -> Raw("str", vals[n])]
Projected(vals) ==
  [n \in about |->
     CASE vals[n] = None \/ (D[n].kind = "ips" /\ vals[n] = "()") -> env.vars[n]
       [] D[n].kind = "list" /\ vals[n] = "()" -> Raw("str", "blank")
       [] OTHER -> Raw("str", vals[n])]

(* _apply_launch_overrides.                                                *)
Launched(vals, launch) == [n \in about |-> IF launch /\ n \in LaunchFields THEN "launch" ELSE vals[n]]

(* ensure_ruyi_home: the template gives every field its default, and       *)
(* leaves those without one empty.                                         *)
Template ==
  [fields |-> [n \in about |-> Raw(Native(D[n].kind), IF D[n].blank THEN "blank" ELSE "std")],
   alias |-> [n \in about |-> Unset], workspace |-> Nowhere]

Copies(init, force) == init /\ (force \/ file \in {"missing", "empty"})

----------------------------------------------------------------------------
Init ==
  /\ about \in Abouts
  /\ file \in {"missing", "empty", "garbled", "strange", "whole"}
  /\ doc \in Documents
  /\ file # "whole" => doc = EmptyDocument
  /\ \E v \in Choices(InEnvironment), w \in SpaceOrNone : env = [vars |-> v, workspace |-> w, again |-> FALSE]
  /\ given = env
  /\ settings = Nothing /\ last = Nothing /\ answer = "-"
  /\ edits = 0 /\ calls = 0

(* The user writes the document anew.                                      *)
Edit ==
  /\ edits < MaxEdits
  /\ file' = "whole"
  /\ doc' \in Documents
  /\ doc' # doc
  /\ edits' = edits + 1
  /\ UNCHANGED <<about, env, given, settings, last, answer, calls>>

(* configure_runtime_environment, with what is in the document by then.    *)
Accept(arg, launch, f, d) ==
  LET vals == Launched(Loaded(d, env), launch)
      w == Workspace(arg, d)
  IN
  /\ Readable(f) /\ Valid(Loaded(d, env)) /\ w # Refused
  /\ settings' = [vals |-> vals, workspace |-> w]
  /\ env' = [vars |-> Projected(vals), workspace |-> w, again |-> TRUE]
  /\ last' = [doc |-> d, vals |-> vals, workspace |-> w, arg |-> arg, launch |-> launch]
  /\ answer' = "done"

Refuse(arg, f, d) ==
  /\ ~Readable(f) \/ ~Valid(Loaded(d, env)) \/ Workspace(arg, d) = Refused
  /\ answer' = IF arg = Nowhere THEN "refused" ELSE "argument refused"
  /\ UNCHANGED <<settings, env, last>>

(* resolve_ruyi_paths comes first and refuses a workspace argument, or the *)
(* workspace a second call keeps, that looks like one of Windows.          *)
Configure(arg, launch, init, force) ==
  LET copies == Copies(init, force)
      f == IF copies THEN "whole" ELSE file
      d == IF copies THEN Template ELSE Parsed(file, doc)
  IN
  /\ calls < MaxCalls
  /\ calls' = calls + 1
  /\ IF ResolvePaths(Override(arg)) = Refused
     THEN /\ answer' = IF arg = Nowhere THEN "refused" ELSE "argument refused"
          /\ UNCHANGED <<file, doc, settings, env, last>>
     ELSE /\ file' = f
          /\ doc' = IF copies THEN Template ELSE doc
          /\ Accept(arg, launch, f, d) \/ Refuse(arg, f, d)
  /\ UNCHANGED <<about, given, edits>>

(* main, create_app and the service script of paseo.json.                  *)
Main == \E arg \in SpaceOrNone, init, force \in BOOLEAN : (force => init) /\ Configure(arg, FALSE, init, force)
CreateApp == Configure(Nowhere, FALSE, FALSE, FALSE)
Launch == Configure(Nowhere, TRUE, FALSE, FALSE)

(* The process ends.  The next one is started by the user, or by a command *)
(* that an agent runs here with this environment (local.inherit_env).      *)
Restart ==
  /\ settings # Nothing
  /\ settings' = Nothing /\ answer' = "-"
  /\ \/ env' = given /\ last' = Nothing
     \/ UNCHANGED <<env, last>>
  /\ UNCHANGED <<about, file, doc, given, edits, calls>>

Next == Edit \/ Main \/ CreateApp \/ Launch \/ Restart

Spec == Init /\ [][Next]_vars

----------------------------------------------------------------------------
(* Type correctness: no settings hold a value their field does not allow.  *)
TypeOK ==
  /\ about \in Abouts
  /\ calls \in 0..MaxCalls /\ edits \in 0..MaxEdits
  /\ settings # Nothing =>
       \A n \in about : settings.vals[n] \in
         {"std", "ok", "pad", "()", "commas", "cut", "launch", None, "from std", "from ok", "from pad"}
       /\ (settings.vals[n] = None => D[n].kind \in {"optional", "optional url"})
       /\ (settings.vals[n] = "launch" => n \in LaunchFields)

(* Reading the same document again, in this process or in one that         *)
(* inherits its environment, gives the same settings: what was projected   *)
(* never changes what it was projected from.                               *)
SameDocumentSameSettings ==
  last # Nothing /\ last' # Nothing /\ last' # last /\ last'.doc = last.doc /\ last'.launch = last.launch
    => last'.vals = last.vals

(* A call does not refuse, for anything but its argument, the document     *)
(* that was accepted last: no variable is written that the next call       *)
(* cannot read.  The one exception is a workspace in the Windows style: a  *)
(* document may name it, and the next call refuses to keep it.             *)
ReentryAccepted ==
  /\ calls' # calls /\ answer' = "refused" /\ Readable(file')
  /\ last # Nothing /\ last.doc = Parsed(file', doc')
  => WindowsStyle(last.workspace)

(* What SDKs and scripts find in the environment is what the settings say, *)
(* but for a list element that holds a comma and an emptied fallback_ips.  *)
EnvironmentAgrees ==
  settings # Nothing =>
    \A n \in about :
       CASE settings.vals[n] \in {"commas", "launch"} -> TRUE
         [] settings.vals[n] = "()" -> D[n].kind = "ips" \/ IsUnset(env.vars[n])
         [] settings.vals[n] = None -> IsUnset(env.vars[n])
         [] OTHER -> Value(env.vars[n], D[n].kind, TRUE) = settings.vals[n]

(* A workspace, once selected, stays until a call names another.           *)
WorkspaceStays ==
  last # Nothing /\ last' # Nothing /\ last' # last /\ last'.arg = Nowhere
    => last'.workspace = last.workspace
=============================================================================
