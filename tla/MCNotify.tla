------------------------------ MODULE MCNotify ------------------------------
(* Instance of Notify for TLC. *)
EXTENDS Notify, TLC

CONSTANTS r1, r2, w1, w2, b1, b2

\* One run fails, is started again and succeeds, another succeeds.
SomeEvents ==
  {r1 :> "running", r1 :> "failure", r1 :> "success", r2 :> "success",
   r1 :> "failure" @@ r2 :> "success"}

Handlers ==
  {SlackBot("create", ""), SlackBot("upsert", ""), SlackBot("upsert", "grouped"), SlackWebhook,
   DiscordBot("upsert", ""), DiscordBot("", "grouped"), DiscordWebhook("create"),
   DiscordWebhook("upsert"), Teams, Mattermost, Telegram, Email, SlackBotFlush,
   SlackWebhookFlush, DiscordFlush, TeamsFlush, WebhookFlush, PagerDuty(TRUE), PagerDuty(FALSE),
   Opsgenie, IncidentIO, Grafana, GrafanaDashboards({"one", "two"}), Sentry, JiraComment("2"),
   JiraComment("3"), JiraTransition, JiraCreateIssue, JiraLinkCommit, Webhook, Datadog,
   NewRelic, Honeycomb, Kafka, NATS, RabbitMQ, RedisPubSub}

\* Handlers that differ in nothing but their name and wording behave alike:
\* one of each kind is enough.
Kind(h) == <<h.does, h.via, h.acts, h.on, h.keeps, h.name = "nats">>
Single == {CHOOSE h \in Handlers : Kind(h) = k : k \in {Kind(h) : h \in Handlers}}

\* One handler alone; two Slack instances and a Jira instance with dedupe,
\* which share a name; two handlers with retry policies of their own.
AllSetups ==
  {{h} : h \in Single}
  \cup {{[Webhook EXCEPT !.store = "memory"]}, {[Webhook EXCEPT !.attempts = 1]},
        {[SlackWebhook EXCEPT !.id = "slack a", !.store = "shared"],
         [SlackBot("", "") EXCEPT !.id = "slack b", !.store = "shared"]},
        {[JiraComment("3") EXCEPT !.id = "comment", !.store = "shared"],
         [JiraCreateIssue EXCEPT !.id = "issue", !.store = "shared"]},
        {[Datadog EXCEPT !.attempts = 1], [PagerDuty(FALSE) EXCEPT !.attempts = 3]}}

Symmetry == Permutations(Workers) 
=============================================================================
