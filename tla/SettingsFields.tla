---------------------------- MODULE SettingsFields ----------------------------
(***************************************************************************)
(* The fields of the runtime settings (config/runtime_settings.py), by the *)
(* way each is read: every use of _selected and of the value functions.    *)
(***************************************************************************)
EXTENDS TLC

(* The fields.  alias: the name of its variable is a key of its table;     *)
(* env: that variable is read; keep: an empty value counts as set;         *)
(* blank: the template leaves it empty; up: the field its default is made  *)
(* from; optional: without a value it is None.                             *)
Plain(kind) == [kind |-> kind, alias |-> TRUE, env |-> TRUE, keep |-> FALSE, blank |-> FALSE, up |-> "-"]
Blank(kind) == [Plain(kind) EXCEPT !.blank = TRUE]
Kept(kind) == [Plain(kind) EXCEPT !.keep = TRUE]
Authority(kind) == [Plain(kind) EXCEPT !.alias = FALSE, !.env = FALSE]
From(field, kind) == [Plain(kind) EXCEPT !.up = field]

Fields(names, shape) == {[name |-> n] @@ shape : n \in names}

BackendFields ==
  Fields({"backend.kind"}, [Authority("kind") EXCEPT !.keep = TRUE])
  \union Fields({"local.timeout", "local.max_output_bytes"}, Plain("int"))
  \union Fields({"local.inherit_env"}, Plain("bool"))
  \union Fields({"daytona.api_key", "daytona.target"}, Blank("optional"))
  \union Fields({"daytona.api_url"}, Blank("optional url"))
  \union Fields({"daytona.sandbox_name"}, Blank("text"))

GatewayFields ==
  Fields({"gateway.host"}, Authority("host"))
  \union Fields({"gateway.port"}, Authority("int"))
  \union Fields({"gateway.base_url"}, Authority("url"))
  \union Fields({"gateway.bearer_token"}, Authority("text"))

StorageFields ==
  Fields({"storage.checkpoint_db", "storage.gateway_route_db", "storage.task_db",
          "storage.review_audit_db", "storage.channel_session_db"},
         [Plain("path") EXCEPT !.env = FALSE])

CredentialFields ==
  Fields({"key.openrouter", "key.kimi", "key.deepseek", "key.zai", "key.openai", "key.anthropic"},
         Blank("optional"))

RuntimeFields ==
  Fields({"runtime.agent_node_id"}, Plain("node"))
  \union Fields({"runtime.max_delegation_depth", "runtime.max_tasks_per_root"}, Plain("int"))
  \union Fields({"runtime.a2a_webhook_url"}, Blank("optional url"))
  \union Fields({"runtime.a2a_webhook_token", "runtime.remote_research_token"}, Blank("optional"))

TelegramFields ==
  Fields({"telegram.bot_token"}, Blank("optional"))
  \union Fields({"telegram.default_agent"}, Plain("text"))
  \union Fields({"telegram.poll_timeout", "telegram.terminal_review_grace_checks",
                 "telegram.media_max_bytes"}, Plain("int"))
  \union Fields({"telegram.task_poll_interval"}, Kept("float"))
  \union Fields({"telegram.message_parse_mode"}, Plain("mode"))
  \union Fields({"telegram.fallback_ips"}, [Kept("ips") EXCEPT !.blank = TRUE])
  \union Fields({"telegram.kroki_base_url"}, Plain("url"))

TelegramDerivedFields ==
  Fields({"telegram.api_timeout"}, From("telegram.poll_timeout", "float"))
  \union Fields({"telegram.session_db"}, From("storage.channel_session_db", "path"))
  \union Fields({"telegram.update_db"}, Plain("path"))

FeishuGroupFields ==
  Fields({"feishu.app_id", "feishu.app_secret"}, Blank("optional"))
  \union Fields({"feishu.domain", "feishu.group_policy"}, Plain("enum"))
  \union Fields({"feishu.connection_mode"}, Plain("single"))
  \union Fields({"feishu.default_agent"}, Plain("text"))
  \union Fields({"feishu.session_db"}, From("storage.channel_session_db", "path"))
  \union Fields({"feishu.event_db"}, Plain("path"))
  \union Fields({"feishu.require_mention"}, Plain("bool"))
  \union Fields({"feishu.allowed_users", "feishu.allowed_groups"}, Blank("list"))

Identity == {"feishu.bot_name", "feishu.bot_open_id", "feishu.bot_user_id", "feishu.bot_union_id"}

FeishuReplyFields ==
  Fields(Identity, Blank("optional"))
  \union Fields({"feishu.api_timeout"}, Plain("float"))
  \union Fields({"feishu.task_poll_interval"}, Kept("float"))
  \union Fields({"feishu.terminal_review_grace_checks", "feishu.media_max_bytes"}, Plain("int"))
  \union Fields({"feishu.ack_mode"}, Plain("enum"))
  \union Fields({"feishu.reactions"}, Plain("bool"))

FeishuReactionFields ==
  Fields({"feishu.processing_reaction", "feishu.approval_reaction", "feishu.failure_reaction"},
         Plain("text"))

LangSmithFields ==
  Fields({"langsmith.tracing"}, Plain("bool"))
  \union Fields({"langsmith.endpoint"}, Plain("url"))
  \union Fields({"langsmith.api_key", "langsmith.project"}, Blank("optional"))

Table ==
  BackendFields \union GatewayFields \union StorageFields \union CredentialFields
  \union RuntimeFields \union TelegramFields \union TelegramDerivedFields
  \union FeishuGroupFields \union FeishuReplyFields \union FeishuReactionFields \union LangSmithFields

Names == {d.name : d \in Table}
FieldTable == [n \in Names |-> CHOOSE d \in Table : d.name = n]

(* The fields that the service script of paseo.json names.                 *)
LaunchFields == {"gateway.host", "gateway.port", "gateway.base_url"}
=============================================================================
