------------------------------ MODULE MCConfig ------------------------------
(* Instance of Config for TLC: good instances of every kind, each file that *)
(* differs from one of them in one setting, pairs of instances, and changes *)
(* of the settings outside the instances.                                   *)
EXTENDS Config, TLC

Ok(S) == [x \in S |-> "ok"]
With(i, s) == [i EXCEPT !.s = s @@ @]
Good(kind, S) ==
  [kind |-> kind, name |-> kind, enabled |-> TRUE, dedupe |-> FALSE, batch |-> FALSE,
   s |-> Ok(S \cup {"mount"}), actions |-> <<>>]

Act(type, S) == [type |-> type, enabled |-> TRUE, dedupe |-> TRUE, s |-> Ok(S)]
Comment == Act("pr_comment", {"when", "template", "mode"})
Doing(i, acts) == [i EXCEPT !.actions = acts]

SlackHook == Good("slack", {"webhook_url_file", "when", "template", "channel_expr", "thread_mode"})
SlackBot == Good("slack", {"bot_token", "token_file", "channel_id", "template"})
Nats == Good("nats", {"servers", "subject", "when"})
GitHub == Doing(Good("github", {"secret_file", "base_url"}),
                <<Comment, Act("label", {"labels"}), Act("commit_status", {"context_per_task"})>>)
OAuth2 == {"oauth2", "grant_type", "token_url"}

GoodInstances ==
  {SlackHook, SlackBot, [SlackBot EXCEPT !.batch = TRUE],
   With(SlackBot, [thread_mode |-> "grouped"]), With(SlackHook, [thread_mode |-> "grouped"]),
   With(SlackBot, [thread_mode |-> "grouped", mode |-> "upsert"]),
   Good("teams", {"webhook_url_file", "template", "when", "mention_users"}),
   Good("discord", {"webhook_url_file", "template", "when", "mention_roles"}),
   Good("discord", {"bot_token", "token_file", "channel_id"}),
   Good("mattermost", {"webhook_url_file", "template", "when"}),
   Good("mattermost", {"bot_token", "token_file", "channel_id", "base_url"}),
   Good("telegram", {"token_file", "chat_id", "template", "when"}),
   Good("pagerduty", {"integration_key_file", "severity_expr", "when"}),
   Good("opsgenie", {"api_key_file", "priority", "when"}),
   Good("incidentio", {"api_key_file", "when"}),
   Good("grafana", {"url", "token_file", "template", "when"}),
   Good("sentry", {"token_file", "org", "environment_expr", "when"}),
   Good("datadog", {"api_key_file", "when"}), Good("newrelic", {"api_key_file", "account_id", "when"}),
   Good("honeycomb", {"api_key_file", "dataset", "when"}),
   Good("webhook", {"url_file", "transform", "when"}),
   With(Good("webhook", {"url_file", "token_file"}), [auth_type |-> "bearer"]),
   With(Good("webhook", {"url_file", "username_file", "password_file"}), [auth_type |-> "basic"]),
   With(Good("webhook", {"url_file", "token_file", "header"}), [auth_type |-> "apikey"]),
   With(Good("webhook", {"url_file", "secret_file"}), [auth_type |-> "hmac"]),
   With(Good("webhook", {"url_file"} \cup OAuth2), [auth_type |-> "oauth2"]),
   Good("email", {"host", "from", "to", "subject", "template", "port", "encryption", "when",
                  "username", "password_file"}),
   Good("email", {"host", "from", "to", "subject", "template", "username", "token_file", "xoauth2"}),
   Good("kafka", {"brokers", "topic", "when"}), Nats, Good("rabbitmq", {"url_file", "when"}),
   Good("redispubsub", {"address", "channel", "password_file", "when"}),
   GitHub, Good("github", {"app_id", "installation_id", "private_key_file"}),
   Doing(With(Good("gitlab", {"secret_file"}), [variant |-> "saas"]), <<Comment>>),
   With(Good("gitlab", OAuth2 \cup {"base_url"}), [variant |-> "self-managed"]),
   Doing(Good("gitea", {"secret_file", "base_url"}), <<Comment>>), Good("gitea", OAuth2 \cup {"base_url"}),
   Doing(With(Good("bitbucket", {"username_file", "app_password_file"}), [variant |-> "cloud"]),
         <<Comment, Act("commit_status", {})>>),
   With(Good("bitbucket", OAuth2), [variant |-> "cloud"]),
   Doing(With(Good("bitbucket", {"token_file", "base_url"}), [variant |-> "server"]), <<Comment>>),
   Doing(Good("azure_devops", {"secret_file", "base_url"}), <<Comment, Act("commit_status", {})>>),
   Doing(Good("sourcehut", {"secret_file", "base_url"}), <<Act("commit_status", {}), Comment>>),
   Doing(Good("jira", {"base_url", "token_file", "email", "api_version"}),
         <<Act("comment", {"template", "when"}), Act("transition", {"transition"})>>),
   Doing(Good("jira", OAuth2 \cup {"base_url"}),
         <<Act("create_issue", {"project_key"}), Act("link_commit", {"issue_key"})>>)}

\* What a setting may be instead of right: unreadable, malformed, or one of
\* the other values of an enumeration.
Unreadable ==
  {"secret_file", "webhook_url_file", "token_file", "integration_key_file", "api_key_file", "url_file",
   "username_file", "password_file", "app_password_file", "private_key_file", "oauth2", "servers",
   "address", "mount", "template", "subject"}
Ill(x) ==
  (IF x \in Unreadable THEN {"gone"} ELSE {})
  \cup (CASE x \in {"template", "subject"} -> {"bad", "fn"}
          [] x \in {"when", "channel_expr", "severity_expr", "environment_expr", "transform", "thread_mode",
                    "priority", "encryption", "port", "api_version", "grant_type", "mention_users",
                    "mention_roles", "base_url", "url", "mode", "fallback_action", "webhook_url_file"}
             -> {"bad"}
          [] x = "variant" -> {"bad", "cloud", "server", "saas", "self-managed"}
          [] x = "auth_type" -> {"bad", "bearer", "basic", "oauth2"}
          [] OTHER -> {})

\* One setting dropped, added or spoilt. A discord webhook of the wrong form
\* is spoilt; the other webhooks have no form.
Spoilt(r) ==
  {[r EXCEPT !.s = [y \in DOMAIN @ \ {x} |-> @[y]]] : x \in DOMAIN r.s}
  \cup UNION {{[r EXCEPT !.s = v :> w @@ @] : w \in Ill(v)} : v \in DOMAIN r.s}

Extra == {"secret_file", "token_file", "oauth2", "webhook_url_file", "bot_token", "context_per_task", "email"}

Variants(i) ==
  {i, [i EXCEPT !.enabled = FALSE], [i EXCEPT !.name = "none"]}
  \cup Spoilt(i)
  \cup {With(i, x :> "ok") : x \in Extra}
  \cup {[[i EXCEPT !.s = [y \in DOMAIN @ \ {x} |-> @[y]]] EXCEPT !.s = "mount" :> "gone" @@ @]
          : x \in DOMAIN i.s \cap Unreadable}
  \cup UNION {UNION {{[i EXCEPT !.actions[k] = a] : a \in Spoilt(i.actions[k])},
                     {[i EXCEPT !.actions[k].enabled = FALSE], [i EXCEPT !.actions[k].type = "none"],
                      [i EXCEPT !.actions[k].type = "bad"],
                      [i EXCEPT !.actions[k] = With(@, "context_per_task" :> "ok")]}}
                : k \in DOMAIN i.actions}

NoSettings == [x \in {} |-> "none"]
Defaults == [write_timeout |-> 0, handler_timeout |-> 0, max_concurrency |-> 0, dedupe_size |-> 0]
Plain(insts) == [insts |-> insts, acc |-> [enabled |-> FALSE], num |-> Defaults, s |-> NoSettings]

Singles == {Plain(<<i>>) : i \in UNION {Variants(j) : j \in GoodInstances}}

\* Two of a kind under one name and under two, deduplicating; two kinds under
\* one name; a batched and a connected handler before one that fails.
Deduped(i, name) == [i EXCEPT !.dedupe = TRUE, !.name = name]
Grafana == Good("grafana", {"url", "token_file", "template"})
Telegram == Good("telegram", {"token_file", "chat_id"})
Batched == [SlackBot EXCEPT !.batch = TRUE]
Pairs ==
  {Plain(<<Deduped(Grafana, n), Deduped(With(Grafana, [when |-> "ok"]), m)>>) : n, m \in {"a", "b"}}
  \cup {Plain(<<Deduped(Telegram, "a"), Deduped(With(Telegram, [when |-> "ok"]), "a")>>),
        Plain(<<Deduped(Telegram, "a"), Deduped(Grafana, "a")>>),
        Plain(<<Deduped(SlackHook, "a"), Deduped(SlackBot, "b")>>),
        Plain(<<GitHub, [GitHub EXCEPT !.name = "b"]>>), Plain(<<GitHub, With(GitHub, [secret_file |-> "gone"])>>),
        Plain(<<Batched, Nats>>), Plain(<<Nats, Batched, With(Grafana, [when |-> "bad"])>>),
        Plain(<<Batched, With(Nats, [when |-> "bad"])>>),
        Plain(<<Nats, With(Good("redispubsub", {"address", "channel"}), [address |-> "gone"])>>)}

Acc(provider, template) ==
  [enabled |-> TRUE, provider |-> provider, s |-> IF template = "none" THEN NoSettings ELSE [template |-> template]]
Summaries ==
  {[Plain(<<GitHub, Batched>>) EXCEPT !.acc = Acc(p, t)]
     : p \in {"none", "github", "slack", "gone"}, t \in {"none", "ok", "bad"}}

\* Settings outside the instances: one present, malformed or unreadable, and
\* the numbers at their limits.
Sections ==
  {"server", "server.auth", "server.auth.rest", "server.tls", "store", "store.rest", "dlq", "dlq.rest",
   "logging", "tracing", "retry"}
Settings ==
  {[Plain(<<Batched>>) EXCEPT !.s = x :> v] : x \in Sections, v \in {"ok", "bad", "gone"}}
  \cup {[Plain(<<Batched>>) EXCEPT !.num.write_timeout = w, !.num.handler_timeout = h]
          : w, h \in {-1, 0, 5, 30}}
  \cup {[Plain(<<Batched>>) EXCEPT !.num.max_concurrency = n] : n \in {-1, 1, 500, 501}}
  \cup {[Plain(<<Batched>>) EXCEPT !.num.dedupe_size = n] : n \in {-1, 1000000, 1000001}}

Started == {Plain(<<Batched>>), Plain(<<Batched, Nats>>), [Plain(<<GitHub>>) EXCEPT !.s = [dlq |-> "ok"]]}
Changed == Singles \cup Pairs \cup Summaries \cup Settings

\* The second change of the file is to the settings or to a good file.
Others == {[Plain(<<Batched>>) EXCEPT !.s = [dlq |-> "ok"]], Plain(<<Nats>>), Plain(<<SlackBot>>)}
Again == Settings \cup Started \cup Others
Changes == <<Changed, Again>>
=============================================================================
