--------------------------- MODULE NotifyHandlers ---------------------------
(***************************************************************************)
(* The handlers of internal/notifier other than those of the SCMs, as      *)
(* records of what tells one from another: how it goes about an event      *)
(* (does), over which client (via), which states it acts on and how        *)
(* (acts), and what a reader sees for a state (words).                     *)
(***************************************************************************)
EXTENDS Naturals, FiniteSets

AllStates == {"pending", "running", "success", "failure", "error", "canceled"}

Failing == {"failure", "error"}

-----------------------------------------------------------------------------
(* What a state looks like to a reader.                                    *)

\* colorFor of Slack and Discord; the emojis of Slack and Mattermost are
\* chosen by the same cases.
colorFor ==
  [s \in AllStates |-> CASE s = "success" -> "green"
                         [] s \in Failing -> "red"
                         [] s = "running" -> "amber"
                         [] OTHER -> "grey"]

teamsColorFor ==
  [s \in AllStates |-> CASE s = "success" -> "Good"
                         [] s \in Failing -> "Attention"
                         [] OTHER -> "Default"]

alertTypeFor ==
  [s \in AllStates |-> CASE s = "success" -> "success"
                         [] s \in Failing -> "error"
                         [] OTHER -> "info"]

\* Templates and payloads print the state itself.
StateText == [s \in AllStates |-> s]

-----------------------------------------------------------------------------
(* What a handler does about a state. A state that is missing is skipped.  *)

Always(action) == [s \in AllStates |-> action]

pagerdutyActionFor(acknowledgeOnRunning) ==
  [s \in Failing \cup {"success"} \cup (IF acknowledgeOnRunning THEN {"running"} ELSE {}) |->
     IF s \in Failing THEN "trigger" ELSE IF s = "success" THEN "resolve" ELSE "acknowledge"]

opsgenieActionFor ==
  [s \in Failing \cup {"success"} |-> IF s \in Failing THEN "trigger" ELSE "resolve"]

-----------------------------------------------------------------------------
(* The handlers. attempts: of the retry policy, for handlers that send     *)
(* through the shared client; 2 stands for the default. store: the dedupe  *)
(* store, if the instance has dedupe set. on: the dashboards. keeps:       *)
(* does the service have the event when Handle returns nil?                *)

Notifier(name, does, via, acts, words) ==
  [id |-> name, name |-> name, does |-> does, via |-> via, acts |-> acts, words |-> words,
   attempts |-> 2, store |-> "none", on |-> {"one"}, keeps |-> TRUE]

\* Slack as a bot goes through the SDK and keeps message references; its
\* thread mode is looked at before its message mode. As a webhook it only
\* posts.
SlackBot(mode, threadMode) ==
  Notifier("slack",
           IF threadMode = "grouped" THEN "thread" ELSE IF mode = "upsert" THEN "upsert" ELSE "post",
           "sdk", Always("post"), colorFor)
SlackWebhook == Notifier("slack", "post", "client", Always("post"), colorFor)

\* Discord posts anew when an edit fails. Webhooks know upsert, not threads.
DiscordBot(mode, threadMode) ==
  Notifier("discord",
           IF threadMode = "grouped" THEN "thread" ELSE IF mode = "upsert" THEN "repost" ELSE "post",
           "sdk", Always("post"), colorFor)
DiscordWebhook(mode) ==
  Notifier("discord", IF mode = "upsert" THEN "repost" ELSE "post", "sdk", Always("post"), colorFor)

Teams == Notifier("teams", "post", "client", Always("post"), teamsColorFor)
Mattermost == Notifier("mattermost", "post", "client", Always("post"), colorFor)
Telegram == Notifier("telegram", "post", "client", Always("post"), StateText)
Email == Notifier("email", "mail", "sdk", Always("post"), StateText)

\* Flush: the events of a batch in one message, whatever the message mode.
SlackBotFlush == Notifier("slack", "flush", "sdk", Always("post"), colorFor)
SlackWebhookFlush == Notifier("slack", "flush", "client", Always("post"), colorFor)
DiscordFlush == Notifier("discord", "flush", "sdk", Always("post"), colorFor)
TeamsFlush == Notifier("teams", "flush", "client", Always("post"), teamsColorFor)
WebhookFlush == Notifier("webhook", "flush", "client", Always("post"), StateText)

PagerDuty(acknowledgeOnRunning) ==
  Notifier("pagerduty", "alert", "client", pagerdutyActionFor(acknowledgeOnRunning), StateText)
Opsgenie == Notifier("opsgenie", "alert", "client", opsgenieActionFor, StateText)
\* Incidents are declared and never closed.
IncidentIO ==
  Notifier("incidentio", "declare", "client", [s \in Failing |-> "declare"], StateText)

Grafana == Notifier("grafana", "post", "client", Always("post"), StateText)
\* Several dashboards are annotated side by side, past the retrying client.
GrafanaDashboards(uids) ==
  [Notifier("grafana", "each", "sdk", Always("post"), StateText) EXCEPT !.on = uids]

Sentry == Notifier("sentry", "release", "client", [s \in {"success"} |-> "release"], StateText)

\* API version 3 comments go through the SDK.
JiraComment(apiVersion) ==
  Notifier("jira", "post", IF apiVersion = "3" THEN "sdk" ELSE "client", Always("post"), StateText)
JiraTransition == Notifier("jira", "move", "client", Always("list"), StateText)
JiraCreateIssue == Notifier("jira", "issue", "client", [s \in Failing |-> "search"], StateText)
JiraLinkCommit == Notifier("jira", "link", "client", Always("link"), StateText)

Webhook == Notifier("webhook", "post", "client", Always("post"), StateText)
Datadog == Notifier("datadog", "post", "client", Always("post"), alertTypeFor)
NewRelic == Notifier("newrelic", "post", "client", Always("post"), StateText)
Honeycomb == Notifier("honeycomb", "post", "client", Always("post"), StateText)

\* Kafka waits for the brokers, Redis for its server; NATS and RabbitMQ
\* write to a connection that may break before the message is out.
Stream(name, keeps) ==
  [Notifier(name, "stream", "sdk", Always("publish"), StateText) EXCEPT !.keeps = keeps]
Kafka == Stream("kafka", TRUE)
NATS == Stream("nats", FALSE)
RabbitMQ == Stream("rabbitmq", FALSE)
RedisPubSub == Stream("redispubsub", TRUE)

-----------------------------------------------------------------------------
(* What the handlers have in common.                                       *)

\* How a handler begins, by the way it goes about events.
FirstRequests(does) ==
  CASE does = "alert"   -> {"trigger", "resolve", "acknowledge"}
    [] does = "declare" -> {"declare"}
    [] does = "release" -> {"release"}
    [] does = "move"    -> {"list"}
    [] does = "issue"   -> {"search"}
    [] does = "link"    -> {"link"}
    [] does = "stream"  -> {"publish"}
    [] OTHER            -> {"post"}

Ways == {"post", "flush", "thread", "upsert", "repost", "mail", "each", "alert", "declare",
         "release", "move", "issue", "link", "stream"}

\* A retry policy has at least one attempt (normalized).
IsHandler(h) ==
  /\ h.does \in Ways /\ h.via \in {"client", "sdk"} /\ h.store \in {"none", "shared", "memory"}
  /\ h.does \in {"thread", "upsert", "repost", "mail", "each", "stream"} => h.via = "sdk"
  /\ DOMAIN h.acts \subseteq AllStates
  /\ \A s \in DOMAIN h.acts : h.acts[s] \in FirstRequests(h.does)
  /\ h.attempts \in Nat \ {0} /\ IsFiniteSet(h.on)

=============================================================================
