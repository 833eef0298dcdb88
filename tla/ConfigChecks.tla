---------------------------- MODULE ConfigChecks ----------------------------
(***************************************************************************)
(* internal/config's validators and internal/factory's Build functions,    *)
(* one operator each, over one instance of the configuration file.         *)
(*                                                                         *)
(* An instance is a record [kind, name, enabled, dedupe, batch, s,         *)
(* actions]; s maps the settings it gives to what their value is worth:    *)
(*   "ok"    it can be used,                                               *)
(*   "bad"   it does not compile, parse or belong to the accepted values,  *)
(*   "fn"    an inline template that parses only with the helper functions *)
(*           of scm.DefaultFuncMap,                                        *)
(*   "gone"  it is well formed but what it names (a secret, a template     *)
(*           file, a broker) cannot be read or reached,                    *)
(* or, for a variant or an auth type, the value itself. A setting that is  *)
(* not in s is absent (an empty auth block gives nothing). "mount" stands  *)
(* for the secret at the path inferred from the instance's name. An action *)
(* is a record [type, enabled, dedupe, s].                                 *)
(*                                                                         *)
(* A validator yields the settings it complains of; a factory yields the   *)
(* settings that make Build fail, what Build has opened by then, and the   *)
(* set of the handlers' names and dedupe flags (the handlers of one        *)
(* instance that agree in both are interchangeable here).                  *)
(***************************************************************************)
EXTENDS Naturals

Val(r, x) == IF x \in DOMAIN r.s THEN r.s[x] ELSE "none"
Has(r, x) == Val(r, x) # "none"
Missing(r, S) == {x \in S : ~Has(r, x)}
Malformed(r, S) == {x \in S : Val(r, x) = "bad"}
When(cond, errs) == IF cond THEN errs ELSE {}
Items(seq) == {seq[k] : k \in DOMAIN seq}

-----------------------------------------------------------------------------
(* Rules shared by the validators.                                         *)

\* The validator parses the text itself, without helper functions; the path
\* of a template file parses.
validateTemplateText(r, x) == When(Val(r, x) \in {"bad", "fn"}, {x})

\* The instance types with a GetWhen method. Grafana and Sentry have a when
\* setting and no such method.
celWhenProvider ==
  {"slack", "mattermost", "teams", "discord", "email", "pagerduty", "datadog", "opsgenie",
   "webhook", "telegram", "incidentio", "newrelic", "honeycomb", "kafka", "nats", "rabbitmq",
   "redispubsub"}

\* ... with a GetTemplate method. Grafana and Telegram have none.
templateProvider == {"slack", "mattermost", "teams", "discord", "email"}

\* Mutant: the condition of a chat notifier is left to the factory.
WhenOfAlertsOnly(i) ==
  When(i.kind \in celWhenProvider \ {"slack", "teams", "discord"}, Malformed(i, {"when"}))

validateCELWhen(i) == When(i.kind \in celWhenProvider, Malformed(i, {"when"}))
validateTemplate(i) == When(i.kind \in templateProvider, validateTemplateText(i, "template"))

requireBaseURL(i) == When(i.enabled, Missing(i, {"base_url"}) \cup Malformed(i, {"base_url"}))

validateOAuth2(i) ==
  When(Has(i, "oauth2"), Malformed(i, {"grant_type"}) \cup Missing(i, {"token_url"}))

ActionTypes ==
  {"commit_status", "commit_comment", "pr_comment", "issue_comment", "label",
   "discussion_comment", "check_run", "deployment_status", "incident_create"}

\* An action without a type is left to the struct tags, which only
\* ValidateAll reads; a mode too.
validateAction(a) ==
  When(a.type # "none" /\ a.type \notin ActionTypes, {"type"})
  \cup When(a.type = "label", Missing(a, {"labels"}))
  \cup When(a.type # "commit_status" /\ Has(a, "context_per_task"), {"context_per_task"})
  \cup Malformed(a, {"when", "fallback_action"})
  \cup validateTemplateText(a, "template")

validateActions(i) == UNION {validateAction(a) : a \in Items(i.actions)}

-----------------------------------------------------------------------------
(* SCM validators.                                                         *)

validateGitHubInstance(i) ==
  LET hasApp == Has(i, "app_id") /\ Has(i, "installation_id")
      appFieldsSet == Has(i, "app_id") \/ Has(i, "installation_id")
  IN  When(i.enabled /\ (Has(i, "secret_file") = hasApp \/ (appFieldsSet /\ ~hasApp)), {"auth"})
      \cup When(i.enabled, Malformed(i, {"base_url"}))
      \cup validateActions(i)

validateGitLabInstance(i) ==
  When(i.enabled,
       When(Val(i, "variant") \notin {"saas", "self-managed"}, {"variant"})
       \cup When(Has(i, "secret_file") = Has(i, "oauth2"), {"auth"})
       \cup When(Val(i, "variant") = "self-managed", Missing(i, {"base_url"}))
       \cup Malformed(i, {"base_url"}))
  \cup validateActions(i)

validateGiteaInstance(i) ==
  When(i.enabled /\ Has(i, "secret_file") = Has(i, "oauth2"), {"auth"})
  \cup requireBaseURL(i) \cup validateActions(i)

validateBitbucketInstance(i) ==
  LET hasBasic == Has(i, "username_file") /\ Has(i, "app_password_file")
  IN  When(i.enabled,
           When(Val(i, "variant") \notin {"cloud", "server"}, {"variant"})
           \cup IF Val(i, "variant") = "cloud"
                THEN When(~hasBasic /\ ~Has(i, "oauth2"), {"auth"})
                ELSE Missing(i, {"token_file"}) \cup requireBaseURL(i))
      \cup validateActions(i)

validateAzureInstance(i) ==
  When(i.enabled, Missing(i, {"secret_file"})) \cup requireBaseURL(i) \cup validateActions(i)

validateSourceHutInstance(i) ==
  When(i.enabled, Missing(i, {"secret_file"})) \cup requireBaseURL(i) \cup validateActions(i)

-----------------------------------------------------------------------------
(* Notifier validators.                                                    *)

validateBotTokenAuth(i) == Missing(i, {"token_file", "channel_id"})

\* Exactly one of a webhook and a bot token.
ChatAuth(i) ==
  When(Has(i, "webhook_url_file") = Has(i, "bot_token"), {"auth"})
  \cup When(Has(i, "bot_token"), validateBotTokenAuth(i))

validateSlackInstance(i) ==
  When(i.enabled, ChatAuth(i))
  \cup validateCELWhen(i) \cup validateTemplate(i)
  \cup Malformed(i, {"thread_mode", "channel_expr"})
  \cup When(Val(i, "thread_mode") = "grouped"
            /\ (Val(i, "mode") = "upsert" \/ (Has(i, "webhook_url_file") /\ ~Has(i, "bot_token"))),
            {"thread_mode"})

validateTeamsInstance(i) ==
  When(i.enabled, Missing(i, {"webhook_url_file"}))
  \cup Malformed(i, {"mention_users"})
  \cup validateCELWhen(i) \cup validateTemplate(i)

validateDiscordInstance(i) ==
  When(i.enabled, ChatAuth(i))
  \cup Malformed(i, {"mention_roles"})
  \cup validateCELWhen(i) \cup validateTemplate(i)

validateMattermostInstance(i) ==
  When(i.enabled, ChatAuth(i) \cup When(Has(i, "bot_token"), Missing(i, {"base_url"})))
  \cup validateCELWhen(i) \cup validateTemplate(i)

validateTelegramInstance(i) ==
  When(i.enabled, Missing(i, {"token_file", "chat_id"}))
  \cup validateCELWhen(i) \cup validateTemplate(i)

validatePagerDutyInstance(i) ==
  When(i.enabled, Missing(i, {"integration_key_file"})) \cup validateCELWhen(i)

validateOpsgenieInstance(i) ==
  When(i.enabled, Missing(i, {"api_key_file"})) \cup Malformed(i, {"priority"}) \cup validateCELWhen(i)

validateIncidentIOInstance(i) ==
  When(i.enabled, Missing(i, {"api_key_file"})) \cup validateCELWhen(i)

validateSentryInstance(i) ==
  When(i.enabled, Missing(i, {"token_file", "org"})) \cup validateCELWhen(i)

validateGrafanaInstance(i) ==
  When(i.enabled, Missing(i, {"url", "token_file", "template"}))
  \cup validateCELWhen(i) \cup validateTemplate(i)

validateDatadogInstance(i) ==
  When(i.enabled, Missing(i, {"api_key_file"})) \cup validateCELWhen(i)

validateNewRelicInstance(i) ==
  When(i.enabled, Missing(i, {"api_key_file", "account_id"})) \cup validateCELWhen(i)

validateHoneycombInstance(i) ==
  When(i.enabled, Missing(i, {"api_key_file", "dataset"})) \cup validateCELWhen(i)

\* The files each auth type of a webhook requires; it accepts no other. Only
\* type oauth2 looks at an oauth2 block.
WebhookAuthFiles ==
  [bearer |-> {"token_file"}, basic |-> {"username_file", "password_file"},
   apikey |-> {"token_file", "header"}, hmac |-> {"secret_file"}, oauth2 |-> {}]

validateWebhookAuth(i) ==
  LET type == Val(i, "auth_type")
      files == {x \in {"token_file", "username_file", "password_file", "secret_file", "header"} :
                  Has(i, x)}
  IN  CASE ~i.enabled \/ type = "none" -> {}
        [] i.enabled /\ type \in DOMAIN WebhookAuthFiles ->
             When(files # WebhookAuthFiles[type], {"auth"})
             \cup When(type = "oauth2", When(~Has(i, "oauth2"), {"auth"}) \cup validateOAuth2(i))
        [] OTHER -> {"auth_type"}

validateTransform(i) == When(i.enabled, Malformed(i, {"transform"}))

validateWebhookInstance(i) ==
  When(i.enabled, Missing(i, {"url_file"}))
  \cup validateCELWhen(i) \cup validateTransform(i) \cup validateWebhookAuth(i)

validateEmailInstance(i) ==
  When(i.enabled,
       Missing(i, {"host", "from", "to", "subject", "template"}) \cup Malformed(i, {"port"})
       \cup validateTemplateText(i, "subject")
       \cup IF Has(i, "xoauth2")
            THEN When(~Has(i, "username") \/ ~Has(i, "token_file") \/ Has(i, "password_file"), {"auth"})
            ELSE When(Has(i, "username") # Has(i, "password_file"), {"auth"}))
  \cup validateCELWhen(i) \cup validateTemplate(i)

validateNATSInstance(i) == When(i.enabled, Missing(i, {"servers", "subject"})) \cup validateCELWhen(i)
validateRabbitMQInstance(i) == When(i.enabled, Missing(i, {"url_file"})) \cup validateCELWhen(i)
validateRedisPubSubInstance(i) ==
  When(i.enabled, Missing(i, {"address", "channel"})) \cup validateCELWhen(i)

\* The setting an action of Jira cannot do without.
JiraNeeds == [comment |-> "template", transition |-> "transition", create_issue |-> "project_key",
              link_commit |-> "issue_key"]

validateJiraAction(i, a) ==
  (IF a.type \notin DOMAIN JiraNeeds THEN {"type"}
   ELSE When((i.enabled /\ a.enabled) \/ a.type = "transition", Missing(a, {JiraNeeds[a.type]})))
  \cup When(a.type = "comment", validateTemplateText(a, "template"))
  \cup Malformed(a, {"when"})

validateJiraInstance(i) ==
  When(i.enabled,
       Missing(i, {"base_url"}) \cup Malformed(i, {"api_version"})
       \cup When(Has(i, "oauth2") = Has(i, "token_file") \/ (Has(i, "oauth2") /\ Has(i, "email")),
                 {"auth"})
       \cup validateOAuth2(i))
  \cup UNION {validateJiraAction(i, a) : a \in Items(i.actions)}

-----------------------------------------------------------------------------
(* Secrets and templates, as the factories read them.                      *)

\* secrets.ResolveOrInfer: the given file, or one at the inferred path.
ResolveOrInfer(i, x) ==
  When(Val(i, x) = "gone" \/ (~Has(i, x) /\ Val(i, "mount") = "gone"), {x})

\* secrets.Resolve: an empty path is an error.
Resolve(i, x) == When(Val(i, x) \in {"none", "gone"}, {x})

\* scm.CompileTemplate, with the helper functions; and a plain parse of what
\* scm.LoadTemplateString loads.
CompileTemplate(r, x) == When(Val(r, x) \in {"bad", "gone"}, {x})
ParseTemplate(r, x) == When(Val(r, x) \in {"bad", "fn", "gone"}, {x})

resolveOAuth2Refresher(i) == When(Val(i, "oauth2") = "gone", {"oauth2"}) \cup Malformed(i, {"grant_type"})

-----------------------------------------------------------------------------
(* SCM factories.                                                          *)

\* Build for an instance with actions: pre is what fails before them, types
\* the action types it knows; an enabled action of another type is skipped.
\* The template of a comment is optional, a mode is looked at where it is
\* used, a when last. The handlers of other actions than the commit status
\* are named other.
buildActionsWithMiddleware(i, pre, types, moded, other) ==
  LET nameOf(a) == IF a.type = "commit_status" THEN i.name ELSE other
      acts == {a \in Items(i.actions) : a.enabled /\ a.type \in types}
      fails(a) ==
        When(a.type \notin {"commit_status", "label", "deployment_status"}, CompileTemplate(a, "template"))
        \cup When(a.type \in moded, Malformed(a, {"mode"}))
        \cup Malformed(a, {"when"})
      err == pre \cup UNION {fails(a) : a \in acts}
  IN  [err |-> err, opens |-> {},
       handlers |-> When(err = {}, {[name |-> nameOf(a), dedupe |-> a.dedupe] : a \in acts})]

\* The client of a GitHub App reads its key and asks for a first token.
GitHubFactory(i) ==
  LET pre == IF Has(i, "app_id") /\ Has(i, "installation_id")
             THEN When(Val(i, "private_key_file") = "gone", {"private_key_file"})
             ELSE ResolveOrInfer(i, "secret_file")
  IN  buildActionsWithMiddleware(i, pre, ActionTypes \ {"incident_create"},
                                 {"pr_comment", "issue_comment"}, i.name)

OAuth2OrToken(i) == IF Has(i, "oauth2") THEN resolveOAuth2Refresher(i) ELSE ResolveOrInfer(i, "secret_file")

GitLabFactory(i) ==
  buildActionsWithMiddleware(i, OAuth2OrToken(i), ActionTypes \ {"check_run"},
                             {"commit_comment", "pr_comment", "issue_comment"}, i.name)

GiteaFactory(i) ==
  buildActionsWithMiddleware(i, OAuth2OrToken(i), {"commit_status", "pr_comment", "issue_comment", "label"},
                             {"pr_comment", "issue_comment"}, i.name)

resolveCloudAuth(i) ==
  IF Has(i, "oauth2") THEN resolveOAuth2Refresher(i)
  ELSE ResolveOrInfer(i, "username_file") \cup ResolveOrInfer(i, "app_password_file")

\* The comment handlers of Bitbucket and Azure are named after the provider.
BitbucketFactory(i) ==
  LET cloud == Val(i, "variant") = "cloud"
  IN  buildActionsWithMiddleware(i, IF cloud THEN resolveCloudAuth(i) ELSE ResolveOrInfer(i, "token_file"),
                                 {"commit_status", "pr_comment"}, When(cloud, {"pr_comment"}),
                                 IF cloud THEN "bitbucket-cloud" ELSE "bitbucket-server")

AzureFactory(i) ==
  buildActionsWithMiddleware(i, ResolveOrInfer(i, "secret_file"), {"commit_status", "pr_comment", "label"},
                             {"pr_comment"}, "azure-devops")

SourceHutFactory(i) ==
  buildActionsWithMiddleware(i, ResolveOrInfer(i, "secret_file"), {"commit_status"}, {}, i.name)

-----------------------------------------------------------------------------
(* Notifier factories.                                                     *)

\* Build for a notifier: pre is what fails before anything is opened; the
\* condition is compiled last, by WrapWithCEL.
Notifier(i, name, pre, opens) ==
  LET err == pre \cup Malformed(i, {"when"})
  IN  [err |-> err, opens |-> When(pre = {}, opens),
       handlers |-> When(err = {}, {[name |-> name, dedupe |-> i.dedupe]})]

\* batch.New starts the goroutine that flushes.
Flusher(i) == When(i.batch, {"flusher"})

BotOrWebhook(i) ==
  IF Has(i, "bot_token") THEN ResolveOrInfer(i, "token_file") ELSE ResolveOrInfer(i, "webhook_url_file")

SlackFactory(i) ==
  Notifier(i, "slack", Malformed(i, {"channel_expr"}) \cup BotOrWebhook(i) \cup ParseTemplate(i, "template"),
           Flusher(i))

TeamsFactory(i) ==
  Notifier(i, "teams", ResolveOrInfer(i, "webhook_url_file") \cup ParseTemplate(i, "template"), Flusher(i))

\* What the webhook file holds must have the form of a Discord webhook.
DiscordFactory(i) ==
  Notifier(i, "discord",
           BotOrWebhook(i) \cup ParseTemplate(i, "template")
           \cup When(~Has(i, "bot_token"), Malformed(i, {"webhook_url_file"})),
           Flusher(i))

MattermostFactory(i) ==
  Notifier(i, "mattermost", BotOrWebhook(i) \cup ParseTemplate(i, "template"), {})

TelegramFactory(i) ==
  Notifier(i, i.name,
           ResolveOrInfer(i, "token_file") \cup Missing(i, {"chat_id"}) \cup CompileTemplate(i, "template"), {})

PagerDutyFactory(i) ==
  Notifier(i, "pagerduty", ResolveOrInfer(i, "integration_key_file") \cup Malformed(i, {"severity_expr"}), {})

OpsgenieFactory(i) == Notifier(i, "opsgenie", ResolveOrInfer(i, "api_key_file"), {})
IncidentIOFactory(i) == Notifier(i, i.name, ResolveOrInfer(i, "api_key_file"), {})
DatadogFactory(i) == Notifier(i, "datadog", ResolveOrInfer(i, "api_key_file"), {})
NewRelicFactory(i) == Notifier(i, "newrelic", ResolveOrInfer(i, "api_key_file"), {})
HoneycombFactory(i) == Notifier(i, "honeycomb", ResolveOrInfer(i, "api_key_file"), {})

\* grafana.New wants an http URL and a template that compiles.
GrafanaFactory(i) ==
  Notifier(i, i.name,
           ResolveOrInfer(i, "token_file") \cup Missing(i, {"url", "template"}) \cup Malformed(i, {"url"})
           \cup CompileTemplate(i, "template"), {})

SentryFactory(i) ==
  Notifier(i, i.name, ResolveOrInfer(i, "token_file") \cup Malformed(i, {"environment_expr"}), {})

\* The type decides which secrets are read; an absent type reads none.
resolveAuthSecrets(i) ==
  LET type == Val(i, "auth_type")
  IN  When(type = "oauth2", resolveOAuth2Refresher(i))
      \cup When(type \in DOMAIN WebhookAuthFiles,
                UNION {Resolve(i, x) : x \in WebhookAuthFiles[type] \ {"header"}})

WebhookFactory(i) ==
  Notifier(i, "webhook",
           ResolveOrInfer(i, "url_file") \cup resolveAuthSecrets(i) \cup Malformed(i, {"transform"}), Flusher(i))

EmailFactory(i) ==
  Notifier(i, "email",
           (CASE Has(i, "xoauth2") -> ResolveOrInfer(i, "token_file") \cup Missing(i, {"username"})
              [] Has(i, "username") /\ ~Has(i, "xoauth2") -> ResolveOrInfer(i, "password_file")
              [] OTHER -> {})
           \cup Missing(i, {"host", "from", "to", "subject", "template"}) \cup Malformed(i, {"encryption"})
           \cup ParseTemplate(i, "subject") \cup ParseTemplate(i, "template"), {})

\* A Kafka writer connects when it first writes; the other brokers are
\* reached by New.
KafkaFactory(i) == Notifier(i, i.name, Missing(i, {"brokers", "topic"}), {"writer"})
NATSFactory(i) ==
  Notifier(i, i.name, Missing(i, {"servers", "subject"}) \cup When(Val(i, "servers") = "gone", {"servers"}),
           {"connection"})
RabbitMQFactory(i) == Notifier(i, i.name, Resolve(i, "url_file"), {"connection"})
RedisPubSubFactory(i) ==
  Notifier(i, i.name,
           Missing(i, {"address", "channel"}) \cup When(Val(i, "address") = "gone", {"address"})
           \cup When(Val(i, "password_file") = "gone", {"password_file"}), {"connection"})

JiraFactory(i) ==
  LET acts == {a \in Items(i.actions) : a.enabled}
      fails(a) == IF a.type \notin DOMAIN JiraNeeds THEN {"type"}
                  ELSE Missing(a, {JiraNeeds[a.type]}) \cup Malformed(a, {"when"})
                       \cup When(a.type = "comment", CompileTemplate(a, "template"))
      err == (IF Has(i, "oauth2") THEN resolveOAuth2Refresher(i) ELSE ResolveOrInfer(i, "token_file"))
             \cup UNION {fails(a) : a \in acts}
  IN  [err |-> err, opens |-> {},
       handlers |-> When(err = {}, {[name |-> "jira", dedupe |-> i.dedupe] : a \in acts})]
=============================================================================
