---------------------------- MODULE ConfigProofs ----------------------------
(***************************************************************************)
(* Proofs about Config, for every set of files the program may be started  *)
(* on or reloaded to. The first part is about the factories and the        *)
(* validators, kind by kind: what Build returns, and that an instance its  *)
(* validator accepts, if all it names is there, is one the factory builds, *)
(* but for the settings Unchecked names. The second part is the inductive  *)
(* invariant IInv of the loads, builds, swaps and closes.                  *)
(***************************************************************************)
EXTENDS Config, TLAPS

-----------------------------------------------------------------------------
(* What a factory returns.                                                 *)

\* What BuildAll relies on: typed handlers named after the instance or the
\* provider, and nothing open for long without a handler that owns it.
WellBuilt(i, b) ==
  /\ \A g \in b.handlers :
       /\ g = [name |-> g.name, dedupe |-> g.dedupe]
       /\ g.dedupe \in BOOLEAN
       /\ g.name = i.name \/ g.name \in FixedName
  /\ b.opens \subseteq {"flusher", "connection", "writer"}
  /\ b.err = {} /\ b.opens # {} => b.handlers # {}

\* A notifier's Build.
LEMMA NotifierWellBuilt ==
  ASSUME NEW i, IsInstance(i), NEW name, name = i.name \/ name \in FixedName,
         NEW pre, NEW opens, opens \subseteq {"flusher", "connection", "writer"}
  PROVE  WellBuilt(i, Notifier(i, name, pre, opens))
<1> DEFINE b == Notifier(i, name, pre, opens)
<1>1. i.dedupe \in BOOLEAN
  BY DEF IsInstance
<1>2. b.handlers \subseteq {[name |-> name, dedupe |-> i.dedupe]} /\ b.opens \subseteq opens
  BY DEF Notifier, When
<1>3. b.err = {} => b.handlers # {}
  BY DEF Notifier, When
<1> QED  BY <1>1, <1>2, <1>3 DEF WellBuilt

\* The Build of a kind with actions.
LEMMA ActionsWellBuilt ==
  ASSUME NEW i, IsInstance(i), NEW pre, NEW types, NEW moded, NEW other, other = i.name \/ other \in FixedName
  PROVE  WellBuilt(i, buildActionsWithMiddleware(i, pre, types, moded, other))
<1> DEFINE b == buildActionsWithMiddleware(i, pre, types, moded, other)
<1>1. \A a \in Items(i.actions) : a.dedupe \in BOOLEAN
  BY DEF IsInstance, IsAction
<1>2. b.opens = {}
  BY DEF buildActionsWithMiddleware
<1>3. \A g \in b.handlers : \E a \in Items(i.actions) :
        g = [name |-> IF a.type = "commit_status" THEN i.name ELSE other, dedupe |-> a.dedupe]
  BY DEF buildActionsWithMiddleware, When
<1> QED  BY <1>1, <1>2, <1>3 DEF WellBuilt

LEMMA JiraWellBuilt ==
  ASSUME NEW i, IsInstance(i)
  PROVE  WellBuilt(i, JiraFactory(i))
<1> DEFINE b == JiraFactory(i)
<1>1. i.dedupe \in BOOLEAN /\ "jira" \in FixedName
  BY DEF IsInstance, FixedName
<1>2. b.opens = {}
  BY DEF JiraFactory
<1>3. b.handlers \subseteq {[name |-> "jira", dedupe |-> i.dedupe]}
  BY DEF JiraFactory, When
<1> QED  BY <1>1, <1>2, <1>3 DEF WellBuilt

\* The dispatch of Build to the factories, and of the validators.
LEMMA Kinds ==
  ASSUME NEW i, IsInstance(i)
  PROVE  i.kind \in {"github", "gitlab", "bitbucket", "azure_devops", "gitea", "sourcehut",
    "slack", "teams", "discord", "pagerduty", "datadog", "webhook", "grafana", "sentry", "email",
    "mattermost", "telegram", "incidentio", "newrelic", "opsgenie", "honeycomb", "kafka", "nats",
    "rabbitmq", "redispubsub", "jira"}
  BY DEF IsInstance, Items, BuildOrder

\* Every Build, by kind.
LEMMA EveryBuild ==
  ASSUME NEW i, IsInstance(i)
  PROVE  WellBuilt(i, Build(i))
<1>1. CASE ~i.enabled
  <2>1. Build(i) = [err |-> {}, opens |-> {}, handlers |-> {}]
    BY <1>1 DEF Build
  <2> QED  BY <2>1 DEF WellBuilt
<1>2. Flusher(i) \subseteq {"flusher", "connection", "writer"}
  BY DEF Flusher, When
<1>3. CASE i.enabled
  <2>1. CASE i.kind = "github"
    <3>1. Build(i) = GitHubFactory(i)
      BY <1>3, <2>1 DEF Build
    <3>2. WellBuilt(i, GitHubFactory(i))
      BY ActionsWellBuilt DEF GitHubFactory, FixedName
    <3> QED  BY <3>1, <3>2
  <2>2. CASE i.kind = "gitlab"
    <3>1. Build(i) = GitLabFactory(i)
      BY <1>3, <2>2 DEF Build
    <3>2. WellBuilt(i, GitLabFactory(i))
      BY ActionsWellBuilt DEF GitLabFactory, FixedName
    <3> QED  BY <3>1, <3>2
  <2>3. CASE i.kind = "bitbucket"
    <3>1. Build(i) = BitbucketFactory(i)
      BY <1>3, <2>3 DEF Build
    <3>2. WellBuilt(i, BitbucketFactory(i))
      BY ActionsWellBuilt DEF BitbucketFactory, FixedName
    <3> QED  BY <3>1, <3>2
  <2>4. CASE i.kind = "azure_devops"
    <3>1. Build(i) = AzureFactory(i)
      BY <1>3, <2>4 DEF Build
    <3>2. WellBuilt(i, AzureFactory(i))
      BY ActionsWellBuilt DEF AzureFactory, FixedName
    <3> QED  BY <3>1, <3>2
  <2>5. CASE i.kind = "gitea"
    <3>1. Build(i) = GiteaFactory(i)
      BY <1>3, <2>5 DEF Build
    <3>2. WellBuilt(i, GiteaFactory(i))
      BY ActionsWellBuilt DEF GiteaFactory, FixedName
    <3> QED  BY <3>1, <3>2
  <2>6. CASE i.kind = "sourcehut"
    <3>1. Build(i) = SourceHutFactory(i)
      BY <1>3, <2>6 DEF Build
    <3>2. WellBuilt(i, SourceHutFactory(i))
      BY ActionsWellBuilt DEF SourceHutFactory, FixedName
    <3> QED  BY <3>1, <3>2
  <2>7. CASE i.kind = "slack"
    <3>1. Build(i) = SlackFactory(i)
      BY <1>3, <2>7 DEF Build
    <3>2. WellBuilt(i, SlackFactory(i))
      BY NotifierWellBuilt, <1>2 DEF SlackFactory, FixedName
    <3> QED  BY <3>1, <3>2
  <2>8. CASE i.kind = "teams"
    <3>1. Build(i) = TeamsFactory(i)
      BY <1>3, <2>8 DEF Build
    <3>2. WellBuilt(i, TeamsFactory(i))
      BY NotifierWellBuilt, <1>2 DEF TeamsFactory, FixedName
    <3> QED  BY <3>1, <3>2
  <2>9. CASE i.kind = "discord"
    <3>1. Build(i) = DiscordFactory(i)
      BY <1>3, <2>9 DEF Build
    <3>2. WellBuilt(i, DiscordFactory(i))
      BY NotifierWellBuilt, <1>2 DEF DiscordFactory, FixedName
    <3> QED  BY <3>1, <3>2
  <2>10. CASE i.kind = "pagerduty"
    <3>1. Build(i) = PagerDutyFactory(i)
      BY <1>3, <2>10 DEF Build
    <3>2. WellBuilt(i, PagerDutyFactory(i))
      BY NotifierWellBuilt, <1>2 DEF PagerDutyFactory, FixedName
    <3> QED  BY <3>1, <3>2
  <2>11. CASE i.kind = "datadog"
    <3>1. Build(i) = DatadogFactory(i)
      BY <1>3, <2>11 DEF Build
    <3>2. WellBuilt(i, DatadogFactory(i))
      BY NotifierWellBuilt, <1>2 DEF DatadogFactory, FixedName
    <3> QED  BY <3>1, <3>2
  <2>12. CASE i.kind = "webhook"
    <3>1. Build(i) = WebhookFactory(i)
      BY <1>3, <2>12 DEF Build
    <3>2. WellBuilt(i, WebhookFactory(i))
      BY NotifierWellBuilt, <1>2 DEF WebhookFactory, FixedName
    <3> QED  BY <3>1, <3>2
  <2>13. CASE i.kind = "grafana"
    <3>1. Build(i) = GrafanaFactory(i)
      BY <1>3, <2>13 DEF Build
    <3>2. WellBuilt(i, GrafanaFactory(i))
      BY NotifierWellBuilt, <1>2 DEF GrafanaFactory, FixedName
    <3> QED  BY <3>1, <3>2
  <2>14. CASE i.kind = "sentry"
    <3>1. Build(i) = SentryFactory(i)
      BY <1>3, <2>14 DEF Build
    <3>2. WellBuilt(i, SentryFactory(i))
      BY NotifierWellBuilt, <1>2 DEF SentryFactory, FixedName
    <3> QED  BY <3>1, <3>2
  <2>15. CASE i.kind = "email"
    <3>1. Build(i) = EmailFactory(i)
      BY <1>3, <2>15 DEF Build
    <3>2. WellBuilt(i, EmailFactory(i))
      BY NotifierWellBuilt, <1>2 DEF EmailFactory, FixedName
    <3> QED  BY <3>1, <3>2
  <2>16. CASE i.kind = "mattermost"
    <3>1. Build(i) = MattermostFactory(i)
      BY <1>3, <2>16 DEF Build
    <3>2. WellBuilt(i, MattermostFactory(i))
      BY NotifierWellBuilt, <1>2 DEF MattermostFactory, FixedName
    <3> QED  BY <3>1, <3>2
  <2>17. CASE i.kind = "telegram"
    <3>1. Build(i) = TelegramFactory(i)
      BY <1>3, <2>17 DEF Build
    <3>2. WellBuilt(i, TelegramFactory(i))
      BY NotifierWellBuilt, <1>2 DEF TelegramFactory, FixedName
    <3> QED  BY <3>1, <3>2
  <2>18. CASE i.kind = "incidentio"
    <3>1. Build(i) = IncidentIOFactory(i)
      BY <1>3, <2>18 DEF Build
    <3>2. WellBuilt(i, IncidentIOFactory(i))
      BY NotifierWellBuilt, <1>2 DEF IncidentIOFactory, FixedName
    <3> QED  BY <3>1, <3>2
  <2>19. CASE i.kind = "newrelic"
    <3>1. Build(i) = NewRelicFactory(i)
      BY <1>3, <2>19 DEF Build
    <3>2. WellBuilt(i, NewRelicFactory(i))
      BY NotifierWellBuilt, <1>2 DEF NewRelicFactory, FixedName
    <3> QED  BY <3>1, <3>2
  <2>20. CASE i.kind = "opsgenie"
    <3>1. Build(i) = OpsgenieFactory(i)
      BY <1>3, <2>20 DEF Build
    <3>2. WellBuilt(i, OpsgenieFactory(i))
      BY NotifierWellBuilt, <1>2 DEF OpsgenieFactory, FixedName
    <3> QED  BY <3>1, <3>2
  <2>21. CASE i.kind = "honeycomb"
    <3>1. Build(i) = HoneycombFactory(i)
      BY <1>3, <2>21 DEF Build
    <3>2. WellBuilt(i, HoneycombFactory(i))
      BY NotifierWellBuilt, <1>2 DEF HoneycombFactory, FixedName
    <3> QED  BY <3>1, <3>2
  <2>22. CASE i.kind = "kafka"
    <3>1. Build(i) = KafkaFactory(i)
      BY <1>3, <2>22 DEF Build
    <3>2. WellBuilt(i, KafkaFactory(i))
      BY NotifierWellBuilt, <1>2 DEF KafkaFactory, FixedName
    <3> QED  BY <3>1, <3>2
  <2>23. CASE i.kind = "nats"
    <3>1. Build(i) = NATSFactory(i)
      BY <1>3, <2>23 DEF Build
    <3>2. WellBuilt(i, NATSFactory(i))
      BY NotifierWellBuilt, <1>2 DEF NATSFactory, FixedName
    <3> QED  BY <3>1, <3>2
  <2>24. CASE i.kind = "rabbitmq"
    <3>1. Build(i) = RabbitMQFactory(i)
      BY <1>3, <2>24 DEF Build
    <3>2. WellBuilt(i, RabbitMQFactory(i))
      BY NotifierWellBuilt, <1>2 DEF RabbitMQFactory, FixedName
    <3> QED  BY <3>1, <3>2
  <2>25. CASE i.kind = "redispubsub"
    <3>1. Build(i) = RedisPubSubFactory(i)
      BY <1>3, <2>25 DEF Build
    <3>2. WellBuilt(i, RedisPubSubFactory(i))
      BY NotifierWellBuilt, <1>2 DEF RedisPubSubFactory, FixedName
    <3> QED  BY <3>1, <3>2
  <2>26. CASE i.kind = "jira"
    <3>1. Build(i) = JiraFactory(i)
      BY <1>3, <2>26 DEF Build
    <3>2. WellBuilt(i, JiraFactory(i))
      BY JiraWellBuilt
    <3> QED  BY <3>1, <3>2
  <2> QED
    BY Kinds, <2>1, <2>2, <2>3, <2>4, <2>5, <2>6, <2>7, <2>8, <2>9, <2>10, <2>11, <2>12, <2>13, <2>14, <2>15, <2>16, <2>17, <2>18, <2>19, <2>20, <2>21, <2>22, <2>23, <2>24, <2>25, <2>26
<1> QED  BY <1>1, <1>3 DEF IsInstance

-----------------------------------------------------------------------------
(* What passes the validator satisfies the factory.                        *)

\* m gives the same settings as r, and what they name is there.
Mends(r, m) == \A x : Val(m, x) = IF Val(r, x) = "gone" THEN "ok" ELSE Val(r, x)

\* What the factories read in a mended record, in terms of the original.
Reads(r, m) ==
  /\ \A x : Has(m, x) = Has(r, x) /\ Val(m, x) # "gone"
  /\ \A S : Missing(m, S) = Missing(r, S) /\ Malformed(m, S) = Malformed(r, S)
  /\ \A x : ResolveOrInfer(m, x) = {} /\ Resolve(m, x) = Missing(r, {x})
  /\ \A x : CompileTemplate(m, x) = Malformed(r, {x}) /\ ParseTemplate(m, x) = validateTemplateText(r, x)
  /\ resolveOAuth2Refresher(m) = Malformed(r, {"grant_type"})

LEMMA MendedSettings ==
  ASSUME NEW r, NEW m, m.s = There(r.s)
  PROVE  Mends(r, m)
  BY DEF Mends, There, Val

LEMMA MendedReads ==
  ASSUME NEW r, NEW m, Mends(r, m)
  PROVE  Reads(r, m)
<1>1. \A x : Has(m, x) = Has(r, x) /\ Val(m, x) # "gone" /\ (Val(m, x) = "bad" <=> Val(r, x) = "bad")
             /\ (Val(m, x) = "fn" <=> Val(r, x) = "fn") /\ (Val(m, x) = "none" <=> Val(r, x) = "none")
  BY DEF Mends, Has
<1>2. \A S : Missing(m, S) = Missing(r, S)
  BY <1>1 DEF Missing
<1>3. \A S : Malformed(m, S) = Malformed(r, S)
  BY <1>1 DEF Malformed
<1>4. \A x : ResolveOrInfer(m, x) = {}
  BY <1>1 DEF ResolveOrInfer, When
<1>5. ASSUME NEW x PROVE Resolve(m, x) = Missing(r, {x})
  BY <1>1 DEF Resolve, When, Missing, Has
<1>6. ASSUME NEW x PROVE CompileTemplate(m, x) = Malformed(r, {x})
  BY <1>1 DEF CompileTemplate, When, Malformed
<1>7. ASSUME NEW x PROVE ParseTemplate(m, x) = validateTemplateText(r, x)
  BY <1>1 DEF ParseTemplate, When, validateTemplateText
<1>8. resolveOAuth2Refresher(m) = Malformed(r, {"grant_type"})
  BY <1>1, <1>3 DEF resolveOAuth2Refresher, When
<1> QED  BY <1>1, <1>2, <1>3, <1>4, <1>5, <1>6, <1>7, <1>8 DEF Reads

\* An instance with everything it names in place.
LEMMA MendedInstance ==
  ASSUME NEW i, IsInstance(i)
  PROVE  /\ Mends(i, Mended(i)) /\ Reads(i, Mended(i))
         /\ Mended(i).kind = i.kind /\ Mended(i).enabled = i.enabled
         /\ \A b \in Items(Mended(i).actions) : \E a \in Items(i.actions) :
              b.type = a.type /\ b.enabled = a.enabled /\ Reads(a, b)
<1> DEFINE m == Mended(i)
<1>1. m = [kind |-> i.kind, name |-> i.name, enabled |-> i.enabled, dedupe |-> i.dedupe, batch |-> i.batch,
           s |-> There(i.s), actions |-> [k \in DOMAIN i.actions |-> MendedAction(i.actions[k])]]
  <2> DEFINE acts == [k \in DOMAIN i.actions |-> MendedAction(i.actions[k])]
  <2>1. i = [kind |-> i.kind, name |-> i.name, enabled |-> i.enabled, dedupe |-> i.dedupe,
             batch |-> i.batch, s |-> i.s, actions |-> i.actions]
    BY DEF IsInstance
  <2>2. m = [i EXCEPT !.s = There(i.s), !.actions = acts]
    BY DEF Mended
  <2> HIDE DEF m, acts
  <2>3. m = [kind |-> i.kind, name |-> i.name, enabled |-> i.enabled, dedupe |-> i.dedupe,
             batch |-> i.batch, s |-> There(i.s), actions |-> acts]
    BY <2>1, <2>2
  <2> QED  BY <2>3 DEF acts
<1>2. Mends(i, m) /\ Reads(i, m)
  BY <1>1, MendedSettings, MendedReads
<1>3. ASSUME NEW a \in Items(i.actions)
      PROVE  MendedAction(a).type = a.type /\ MendedAction(a).enabled = a.enabled /\ MendedAction(a).s = There(a.s)
  <2>1. a = [type |-> a.type, enabled |-> a.enabled, dedupe |-> a.dedupe, s |-> a.s]
    BY DEF IsInstance, IsAction
  <2> QED  BY <2>1 DEF MendedAction
<1>4. \A b \in Items(m.actions) : \E a \in Items(i.actions) : b = MendedAction(a)
  BY <1>1 DEF Items
<1>5. ASSUME NEW b \in Items(m.actions)
      PROVE  \E a \in Items(i.actions) : b.type = a.type /\ b.enabled = a.enabled /\ Reads(a, b)
  <2>1. PICK a \in Items(i.actions) : b = MendedAction(a)
    BY <1>4
  <2>2. b.type = a.type /\ b.enabled = a.enabled /\ b.s = There(a.s)
    BY <2>1, <1>3
  <2> QED  BY <2>2, MendedSettings, MendedReads
<1> QED  BY <1>1, <1>2, <1>5

\* Why a factory may refuse setting x of an instance its validator accepted.
Excused(i, x) ==
  \/ <<i.kind, x>> \in Unchecked
  \/ <<i.kind, x>> \in UncheckedByLoad /\ structTags(i) # {}

LEMMA Gaps ==
  ASSUME NEW i
  PROVE  /\ i.kind \in {"gitlab", "gitea", "bitbucket"} => Excused(i, "grant_type")
         /\ i.kind = "pagerduty" => Excused(i, "severity_expr")
         /\ i.kind = "sentry" => Excused(i, "environment_expr") /\ Excused(i, "when")
         /\ i.kind = "grafana" => Excused(i, "when") /\ Excused(i, "template") /\ Excused(i, "url")
         /\ i.kind = "telegram" => Excused(i, "template")
         /\ i.kind = "discord" => Excused(i, "webhook_url_file")
         /\ i.kind = "kafka" => Excused(i, "topic") /\ Excused(i, "when")
         /\ i.kind \in validateSCM \ {"sourcehut"} /\ structTags(i) # {} => Excused(i, "mode")
         /\ i.kind = "email" /\ structTags(i) # {} => Excused(i, "encryption")
<1>1. i.kind \in {"gitlab", "gitea", "bitbucket"} => Excused(i, "grant_type")
  BY DEF Excused, Unchecked
<1>2. /\ i.kind = "pagerduty" => Excused(i, "severity_expr")
      /\ i.kind = "sentry" => Excused(i, "environment_expr") /\ Excused(i, "when")
      /\ i.kind = "grafana" => Excused(i, "when") /\ Excused(i, "template") /\ Excused(i, "url")
      /\ i.kind = "telegram" => Excused(i, "template")
      /\ i.kind = "discord" => Excused(i, "webhook_url_file")
      /\ i.kind = "kafka" => Excused(i, "topic") /\ Excused(i, "when")
  BY DEF Excused, Unchecked
<1>3. i.kind \in validateSCM \ {"sourcehut"} /\ structTags(i) # {} => Excused(i, "mode")
  BY DEF Excused, UncheckedByLoad
<1>4. i.kind = "email" /\ structTags(i) # {} => Excused(i, "encryption")
  BY DEF Excused, UncheckedByLoad
<1> QED  BY <1>1, <1>2, <1>3, <1>4

\* A notifier's Build fails on what comes first or on the condition.
LEMMA NotifierErr ==
  ASSUME NEW i, NEW name, NEW pre, NEW opens
  PROVE  Notifier(i, name, pre, opens).err = pre \cup Malformed(i, {"when"})
  BY DEF Notifier

LEMMA SlackSatisfied ==
  ASSUME NEW i, NEW m, Reads(i, m), i.enabled, i.kind = "slack", validateSlackInstance(i) = {}
  PROVE  \A x \in SlackFactory(m).err : Excused(i, x)
  BY NotifierErr, Gaps DEF SlackFactory, validateSlackInstance, Reads, BotOrWebhook, validateCELWhen, celWhenProvider, When, validateTemplate, templateProvider, Missing, Malformed

LEMMA TeamsSatisfied ==
  ASSUME NEW i, NEW m, Reads(i, m), i.enabled, i.kind = "teams", validateTeamsInstance(i) = {}
  PROVE  \A x \in TeamsFactory(m).err : Excused(i, x)
  BY NotifierErr, Gaps DEF TeamsFactory, validateTeamsInstance, Reads, validateCELWhen, celWhenProvider, When, validateTemplate, templateProvider

LEMMA DiscordSatisfied ==
  ASSUME NEW i, NEW m, Reads(i, m), i.enabled, i.kind = "discord", validateDiscordInstance(i) = {}
  PROVE  \A x \in DiscordFactory(m).err : Excused(i, x)
  BY NotifierErr, Gaps DEF DiscordFactory, validateDiscordInstance, Reads, BotOrWebhook, validateCELWhen, celWhenProvider, When, validateTemplate, templateProvider, Missing, Malformed

LEMMA MattermostSatisfied ==
  ASSUME NEW i, NEW m, Reads(i, m), i.enabled, i.kind = "mattermost", validateMattermostInstance(i) = {}
  PROVE  \A x \in MattermostFactory(m).err : Excused(i, x)
  BY NotifierErr, Gaps DEF MattermostFactory, validateMattermostInstance, Reads, BotOrWebhook, validateCELWhen, celWhenProvider, When, validateTemplate, templateProvider

LEMMA TelegramSatisfied ==
  ASSUME NEW i, NEW m, Reads(i, m), i.enabled, i.kind = "telegram", validateTelegramInstance(i) = {}
  PROVE  \A x \in TelegramFactory(m).err : Excused(i, x)
  BY NotifierErr, Gaps DEF TelegramFactory, validateTelegramInstance, Reads, validateCELWhen, celWhenProvider, When, Missing, Malformed

LEMMA PagerDutySatisfied ==
  ASSUME NEW i, NEW m, Reads(i, m), i.enabled, i.kind = "pagerduty", validatePagerDutyInstance(i) = {}
  PROVE  \A x \in PagerDutyFactory(m).err : Excused(i, x)
  BY NotifierErr, Gaps DEF PagerDutyFactory, validatePagerDutyInstance, Reads, validateCELWhen, celWhenProvider, When, Missing, Malformed

LEMMA OpsgenieSatisfied ==
  ASSUME NEW i, NEW m, Reads(i, m), i.enabled, i.kind = "opsgenie", validateOpsgenieInstance(i) = {}
  PROVE  \A x \in OpsgenieFactory(m).err : Excused(i, x)
  BY NotifierErr, Gaps DEF OpsgenieFactory, validateOpsgenieInstance, Reads, validateCELWhen, celWhenProvider, When

LEMMA IncidentIOSatisfied ==
  ASSUME NEW i, NEW m, Reads(i, m), i.enabled, i.kind = "incidentio", validateIncidentIOInstance(i) = {}
  PROVE  \A x \in IncidentIOFactory(m).err : Excused(i, x)
  BY NotifierErr, Gaps DEF IncidentIOFactory, validateIncidentIOInstance, Reads, validateCELWhen, celWhenProvider, When

LEMMA DatadogSatisfied ==
  ASSUME NEW i, NEW m, Reads(i, m), i.enabled, i.kind = "datadog", validateDatadogInstance(i) = {}
  PROVE  \A x \in DatadogFactory(m).err : Excused(i, x)
  BY NotifierErr, Gaps DEF DatadogFactory, validateDatadogInstance, Reads, validateCELWhen, celWhenProvider, When

LEMMA NewRelicSatisfied ==
  ASSUME NEW i, NEW m, Reads(i, m), i.enabled, i.kind = "newrelic", validateNewRelicInstance(i) = {}
  PROVE  \A x \in NewRelicFactory(m).err : Excused(i, x)
  BY NotifierErr, Gaps DEF NewRelicFactory, validateNewRelicInstance, Reads, validateCELWhen, celWhenProvider, When

LEMMA HoneycombSatisfied ==
  ASSUME NEW i, NEW m, Reads(i, m), i.enabled, i.kind = "honeycomb", validateHoneycombInstance(i) = {}
  PROVE  \A x \in HoneycombFactory(m).err : Excused(i, x)
  BY NotifierErr, Gaps DEF HoneycombFactory, validateHoneycombInstance, Reads, validateCELWhen, celWhenProvider, When

LEMMA GrafanaSatisfied ==
  ASSUME NEW i, NEW m, Reads(i, m), i.enabled, i.kind = "grafana", validateGrafanaInstance(i) = {}
  PROVE  \A x \in GrafanaFactory(m).err : Excused(i, x)
  BY NotifierErr, Gaps DEF GrafanaFactory, validateGrafanaInstance, Reads, validateCELWhen, celWhenProvider, When, Missing, Malformed

LEMMA SentrySatisfied ==
  ASSUME NEW i, NEW m, Reads(i, m), i.enabled, i.kind = "sentry", validateSentryInstance(i) = {}
  PROVE  \A x \in SentryFactory(m).err : Excused(i, x)
  BY NotifierErr, Gaps DEF SentryFactory, validateSentryInstance, Reads, validateCELWhen, celWhenProvider, When, Missing, Malformed

LEMMA NATSSatisfied ==
  ASSUME NEW i, NEW m, Reads(i, m), i.enabled, i.kind = "nats", validateNATSInstance(i) = {}
  PROVE  \A x \in NATSFactory(m).err : Excused(i, x)
  BY NotifierErr, Gaps DEF NATSFactory, validateNATSInstance, Reads, validateCELWhen, celWhenProvider, When

LEMMA RabbitMQSatisfied ==
  ASSUME NEW i, NEW m, Reads(i, m), i.enabled, i.kind = "rabbitmq", validateRabbitMQInstance(i) = {}
  PROVE  \A x \in RabbitMQFactory(m).err : Excused(i, x)
  BY NotifierErr, Gaps DEF RabbitMQFactory, validateRabbitMQInstance, Reads, validateCELWhen, celWhenProvider, When

LEMMA RedisPubSubSatisfied ==
  ASSUME NEW i, NEW m, Reads(i, m), i.enabled, i.kind = "redispubsub", validateRedisPubSubInstance(i) = {}
  PROVE  \A x \in RedisPubSubFactory(m).err : Excused(i, x)
  BY NotifierErr, Gaps DEF RedisPubSubFactory, validateRedisPubSubInstance, Reads, validateCELWhen, celWhenProvider, When, Missing, Malformed

\* Kafka has no validator of its own.
LEMMA KafkaSatisfied ==
  ASSUME NEW i, NEW m, Reads(i, m), i.kind = "kafka", structTags(i) = {}
  PROVE  \A x \in KafkaFactory(m).err : Excused(i, x)
  BY NotifierErr, Gaps DEF KafkaFactory, structTags, Reads, When, Missing, Malformed

LEMMA EmailSatisfied ==
  ASSUME NEW i, NEW m, Reads(i, m), i.enabled, i.kind = "email", validateEmailInstance(i) = {}
  PROVE  \A x \in EmailFactory(m).err : Excused(i, x)
<1>1. Missing(i, {"host", "from", "to", "subject", "template"}) = {} /\ validateTemplateText(i, "subject") = {}
      /\ validateCELWhen(i) = {} /\ validateTemplate(i) = {}
  BY DEF validateEmailInstance, When
<1>2. Malformed(i, {"when"}) = {} /\ validateTemplateText(i, "template") = {}
  BY <1>1 DEF validateCELWhen, celWhenProvider, validateTemplate, templateProvider, When
<1>3. Has(i, "xoauth2") => Has(i, "username")
  BY DEF validateEmailInstance, When
<1>4. Has(i, "xoauth2") => Missing(i, {"username"}) = {}
  BY <1>3 DEF Missing
<1>5. EmailFactory(m).err \subseteq Malformed(i, {"encryption"})
  BY <1>1, <1>2, <1>4, NotifierErr DEF EmailFactory, Reads
<1>6. Malformed(i, {"encryption"}) # {} => structTags(i) # {}
  BY DEF structTags, Malformed
<1> QED  BY <1>5, <1>6, Gaps DEF Malformed

LEMMA WebhookSatisfied ==
  ASSUME NEW i, NEW m, Reads(i, m), Mends(i, m), i.enabled, i.kind = "webhook", validateWebhookInstance(i) = {}
  PROVE  \A x \in WebhookFactory(m).err : Excused(i, x)
<1> DEFINE type == Val(i, "auth_type")
           files == {x \in {"token_file", "username_file", "password_file", "secret_file", "header"} : Has(i, x)}
<1>1. validateCELWhen(i) = {} /\ validateTransform(i) = {} /\ validateWebhookAuth(i) = {}
  BY DEF validateWebhookInstance
<1>2. Malformed(i, {"when"}) = {} /\ Malformed(i, {"transform"}) = {}
  BY <1>1 DEF validateCELWhen, celWhenProvider, validateTransform, When
<1>3. type = "none" \/ type \in DOMAIN WebhookAuthFiles
  BY <1>1 DEF validateWebhookAuth
<1>4. Val(m, "auth_type") = type
  BY <1>3 DEF Mends, WebhookAuthFiles
<1>5. CASE type = "none"
  <2>1. resolveAuthSecrets(m) = {}
    BY <1>4, <1>5 DEF resolveAuthSecrets, When, WebhookAuthFiles
  <2> QED  BY <2>1, <1>2, NotifierErr DEF WebhookFactory, Reads
<1>6. CASE type \in DOMAIN WebhookAuthFiles
  <2>1. validateWebhookAuth(i) = When(files # WebhookAuthFiles[type], {"auth"})
             \cup When(type = "oauth2", When(~Has(i, "oauth2"), {"auth"}) \cup validateOAuth2(i))
    BY <1>6 DEF validateWebhookAuth, WebhookAuthFiles
  <2>2. files = WebhookAuthFiles[type] /\ (type = "oauth2" => Has(i, "oauth2") /\ validateOAuth2(i) = {})
    BY <1>1, <2>1 DEF When
  <2>3. type = "oauth2" => Malformed(i, {"grant_type"}) = {}
    BY <2>2 DEF validateOAuth2, When
  <2>4. \A x \in WebhookAuthFiles[type] : Missing(i, {x}) = {}
    BY <2>2 DEF Missing
  <2>5. (type = "oauth2" => resolveOAuth2Refresher(m) = {}) /\ \A x \in WebhookAuthFiles[type] : Resolve(m, x) = {}
    BY <2>3, <2>4 DEF Reads
  <2> HIDE DEF type, files
  <2>6. UNION {Resolve(m, x) : x \in WebhookAuthFiles[type] \ {"header"}} = {}
    BY <2>5
  <2>7. resolveAuthSecrets(m) = {}
    BY <1>4, <2>5, <2>6 DEF resolveAuthSecrets, When
  <2> QED  BY <2>7, <1>2, NotifierErr DEF WebhookFactory, Reads
<1> QED  BY <1>3, <1>5, <1>6

\* What the actions of an SCM instance can fail on: only a mode, which is
\* left to the struct tags.
LEMMA ActionsSatisfied ==
  ASSUME NEW i, NEW m, NEW pre, NEW types, NEW moded, NEW other,
         i.kind # "jira", validateActions(i) = {},
         \A b \in Items(m.actions) : \E a \in Items(i.actions) :
           b.type = a.type /\ b.enabled = a.enabled /\ Reads(a, b)
  PROVE  LET err == buildActionsWithMiddleware(m, pre, types, moded, other).err
         IN  \A x \in err : x \in pre \/ (x = "mode" /\ moded # {} /\ structTags(i) # {})
<1> DEFINE fails(a) == When(a.type \notin {"commit_status", "label", "deployment_status"}, CompileTemplate(a, "template"))
                       \cup When(a.type \in moded, Malformed(a, {"mode"})) \cup Malformed(a, {"when"})
           err == buildActionsWithMiddleware(m, pre, types, moded, other).err
<1>1. ASSUME NEW x \in err PROVE x \in pre \/ \E b \in Items(m.actions) : x \in fails(b)
  BY DEF buildActionsWithMiddleware
<1>2. ASSUME NEW b \in Items(m.actions), NEW x \in fails(b)
      PROVE  x = "mode" /\ moded # {} /\ structTags(i) # {}
  <2>1. PICK a \in Items(i.actions) : b.type = a.type /\ Reads(a, b)
    OBVIOUS
  <2>2. validateAction(a) = {}
    BY DEF validateActions
  <2>3. Malformed(a, {"when"}) = {} /\ validateTemplateText(a, "template") = {}
    BY <2>2 DEF validateAction, Malformed
  <2>4. Malformed(a, {"template"}) = {}
    BY <2>3 DEF validateTemplateText, When, Malformed
  <2>5. x \in Malformed(a, {"mode"}) /\ moded # {}
    BY <2>1, <2>3, <2>4 DEF Reads, When
  <2>6. Malformed(a, {"mode"}) \subseteq structTags(i)
    BY DEF structTags, When
  <2> QED  BY <2>5, <2>6 DEF Malformed
<1> HIDE DEF fails, err
<1>3. \A x \in err : x \in pre \/ (x = "mode" /\ moded # {} /\ structTags(i) # {})
  BY <1>1, <1>2
<1> QED  BY <1>3 DEF err

LEMMA GitHubSatisfied ==
  ASSUME NEW i, NEW m, Reads(i, m), i.kind = "github", validateActions(i) = {},
         \A b \in Items(m.actions) : \E a \in Items(i.actions) :
           b.type = a.type /\ b.enabled = a.enabled /\ Reads(a, b)
  PROVE  \A x \in GitHubFactory(m).err : Excused(i, x)
<1> DEFINE pre == IF Has(m, "app_id") /\ Has(m, "installation_id")
                  THEN When(Val(m, "private_key_file") = "gone", {"private_key_file"})
                  ELSE ResolveOrInfer(m, "secret_file")
<1>1. \A x \in pre : FALSE
  BY DEF Reads, When
<1> HIDE DEF pre
<1>2. \A x \in GitHubFactory(m).err : x \in pre \/ (x = "mode" /\ structTags(i) # {})
  BY ActionsSatisfied DEF GitHubFactory, pre
<1>3. structTags(i) # {} => Excused(i, "mode")
  BY Gaps DEF validateSCM
<1> QED  BY <1>1, <1>2, <1>3, Gaps

LEMMA GitLabSatisfied ==
  ASSUME NEW i, NEW m, Reads(i, m), i.kind = "gitlab", validateActions(i) = {},
         \A b \in Items(m.actions) : \E a \in Items(i.actions) :
           b.type = a.type /\ b.enabled = a.enabled /\ Reads(a, b)
  PROVE  \A x \in GitLabFactory(m).err : Excused(i, x)
<1> DEFINE pre == OAuth2OrToken(m)
<1>1. \A x \in pre : x = "grant_type"
  BY DEF Reads, OAuth2OrToken, Malformed
<1> HIDE DEF pre
<1>2. \A x \in GitLabFactory(m).err : x \in pre \/ (x = "mode" /\ structTags(i) # {})
  BY ActionsSatisfied DEF GitLabFactory, pre
<1>3. structTags(i) # {} => Excused(i, "mode")
  BY Gaps DEF validateSCM
<1> QED  BY <1>1, <1>2, <1>3, Gaps

LEMMA BitbucketSatisfied ==
  ASSUME NEW i, NEW m, Reads(i, m), i.kind = "bitbucket", validateActions(i) = {},
         \A b \in Items(m.actions) : \E a \in Items(i.actions) :
           b.type = a.type /\ b.enabled = a.enabled /\ Reads(a, b)
  PROVE  \A x \in BitbucketFactory(m).err : Excused(i, x)
<1> DEFINE pre == IF Val(m, "variant") = "cloud" THEN resolveCloudAuth(m) ELSE ResolveOrInfer(m, "token_file")
<1>1. \A x \in pre : x = "grant_type"
  BY DEF Reads, resolveCloudAuth, Malformed
<1> HIDE DEF pre
<1>2. \A x \in BitbucketFactory(m).err : x \in pre \/ (x = "mode" /\ structTags(i) # {})
  BY ActionsSatisfied DEF BitbucketFactory, pre
<1>3. structTags(i) # {} => Excused(i, "mode")
  BY Gaps DEF validateSCM
<1> QED  BY <1>1, <1>2, <1>3, Gaps

LEMMA AzureSatisfied ==
  ASSUME NEW i, NEW m, Reads(i, m), i.kind = "azure_devops", validateActions(i) = {},
         \A b \in Items(m.actions) : \E a \in Items(i.actions) :
           b.type = a.type /\ b.enabled = a.enabled /\ Reads(a, b)
  PROVE  \A x \in AzureFactory(m).err : Excused(i, x)
<1> DEFINE pre == ResolveOrInfer(m, "secret_file")
<1>1. \A x \in pre : FALSE
  BY DEF Reads
<1> HIDE DEF pre
<1>2. \A x \in AzureFactory(m).err : x \in pre \/ (x = "mode" /\ structTags(i) # {})
  BY ActionsSatisfied DEF AzureFactory, pre
<1>3. structTags(i) # {} => Excused(i, "mode")
  BY Gaps DEF validateSCM
<1> QED  BY <1>1, <1>2, <1>3, Gaps

LEMMA GiteaSatisfied ==
  ASSUME NEW i, NEW m, Reads(i, m), i.kind = "gitea", validateActions(i) = {},
         \A b \in Items(m.actions) : \E a \in Items(i.actions) :
           b.type = a.type /\ b.enabled = a.enabled /\ Reads(a, b)
  PROVE  \A x \in GiteaFactory(m).err : Excused(i, x)
<1> DEFINE pre == OAuth2OrToken(m)
<1>1. \A x \in pre : x = "grant_type"
  BY DEF Reads, OAuth2OrToken, Malformed
<1> HIDE DEF pre
<1>2. \A x \in GiteaFactory(m).err : x \in pre \/ (x = "mode" /\ structTags(i) # {})
  BY ActionsSatisfied DEF GiteaFactory, pre
<1>3. structTags(i) # {} => Excused(i, "mode")
  BY Gaps DEF validateSCM
<1> QED  BY <1>1, <1>2, <1>3, Gaps

LEMMA SourceHutSatisfied ==
  ASSUME NEW i, NEW m, Reads(i, m), i.kind = "sourcehut", validateActions(i) = {},
         \A b \in Items(m.actions) : \E a \in Items(i.actions) :
           b.type = a.type /\ b.enabled = a.enabled /\ Reads(a, b)
  PROVE  \A x \in SourceHutFactory(m).err : Excused(i, x)
  BY ActionsSatisfied, Gaps DEF SourceHutFactory, Reads, validateSCM

LEMMA JiraSatisfied ==
  ASSUME NEW i, NEW m, Reads(i, m), i.enabled, i.kind = "jira", validateJiraInstance(i) = {},
         \A b \in Items(m.actions) : \E a \in Items(i.actions) :
           b.type = a.type /\ b.enabled = a.enabled /\ Reads(a, b)
  PROVE  JiraFactory(m).err = {}
<1> DEFINE fails(a) == IF a.type \notin DOMAIN JiraNeeds THEN {"type"}
                       ELSE Missing(a, {JiraNeeds[a.type]}) \cup Malformed(a, {"when"})
                            \cup When(a.type = "comment", CompileTemplate(a, "template"))
           auth == IF Has(m, "oauth2") THEN resolveOAuth2Refresher(m) ELSE ResolveOrInfer(m, "token_file")
<1>1. JiraFactory(m).err = auth \cup UNION {fails(b) : b \in {c \in Items(m.actions) : c.enabled}}
  BY DEF JiraFactory
<1>2. auth = {}
  <2>1. validateOAuth2(i) = {}
    BY DEF validateJiraInstance, When
  <2> QED  BY <2>1 DEF validateOAuth2, When, Reads
<1>3. ASSUME NEW b \in Items(m.actions), b.enabled PROVE fails(b) = {}
  <2>1. PICK a \in Items(i.actions) : b.type = a.type /\ b.enabled = a.enabled /\ Reads(a, b)
    OBVIOUS
  <2>2. validateJiraAction(i, a) = {}
    BY DEF validateJiraInstance
  <2>3. a.type \in DOMAIN JiraNeeds /\ Missing(a, {JiraNeeds[a.type]}) = {} /\ Malformed(a, {"when"}) = {}
    BY <1>3, <2>1, <2>2 DEF validateJiraAction, When
  <2>4. a.type = "comment" => Malformed(a, {"template"}) = {}
    BY <2>2 DEF validateJiraAction, When, validateTemplateText, Malformed
  <2>5. b.type \in DOMAIN JiraNeeds /\ Missing(b, {JiraNeeds[b.type]}) = {} /\ Malformed(b, {"when"}) = {}
        /\ (b.type = "comment" => CompileTemplate(b, "template") = {})
    BY <2>1, <2>3, <2>4 DEF Reads
  <2> QED  BY <2>5 DEF When
<1> HIDE DEF fails, auth
<1> QED  BY <1>1, <1>2, <1>3

\* The validators and the factories of all kinds.
LEMMA RefusalExcused ==
  ASSUME NEW i, IsInstance(i), IF i.kind = "kafka" THEN structTags(i) = {} ELSE validateInstance(i) = {}
  PROVE  \A x \in Build(Mended(i)).err : Excused(i, x)
<1> DEFINE m == Mended(i)
<1>1. /\ Reads(i, m) /\ Mends(i, m) /\ m.kind = i.kind /\ m.enabled = i.enabled
      /\ \A b \in Items(m.actions) : \E a \in Items(i.actions) :
           b.type = a.type /\ b.enabled = a.enabled /\ Reads(a, b)
  BY MendedInstance
<1> HIDE DEF m
<1>2. CASE ~i.enabled
  <2>1. Build(m).err = {}
    BY <1>1, <1>2 DEF Build
  <2> QED  BY <2>1 DEF m
<1>3. CASE i.enabled
  <2>1. CASE i.kind = "github"
    <3>1. Build(m) = GitHubFactory(m)
      BY <1>1, <1>3, <2>1 DEF Build
    <3>2. validateGitHubInstance(i) = {}
      BY <2>1 DEF validateInstance
    <3>3. validateActions(i) = {}
      BY <3>2 DEF validateGitHubInstance
    <3> QED  BY <1>1, <2>1, <3>1, <3>3, GitHubSatisfied DEF m
  <2>2. CASE i.kind = "gitlab"
    <3>1. Build(m) = GitLabFactory(m)
      BY <1>1, <1>3, <2>2 DEF Build
    <3>2. validateGitLabInstance(i) = {}
      BY <2>2 DEF validateInstance
    <3>3. validateActions(i) = {}
      BY <3>2 DEF validateGitLabInstance
    <3> QED  BY <1>1, <2>2, <3>1, <3>3, GitLabSatisfied DEF m
  <2>3. CASE i.kind = "bitbucket"
    <3>1. Build(m) = BitbucketFactory(m)
      BY <1>1, <1>3, <2>3 DEF Build
    <3>2. validateBitbucketInstance(i) = {}
      BY <2>3 DEF validateInstance
    <3>3. validateActions(i) = {}
      BY <3>2 DEF validateBitbucketInstance
    <3> QED  BY <1>1, <2>3, <3>1, <3>3, BitbucketSatisfied DEF m
  <2>4. CASE i.kind = "azure_devops"
    <3>1. Build(m) = AzureFactory(m)
      BY <1>1, <1>3, <2>4 DEF Build
    <3>2. validateAzureInstance(i) = {}
      BY <2>4 DEF validateInstance
    <3>3. validateActions(i) = {}
      BY <3>2 DEF validateAzureInstance
    <3> QED  BY <1>1, <2>4, <3>1, <3>3, AzureSatisfied DEF m
  <2>5. CASE i.kind = "gitea"
    <3>1. Build(m) = GiteaFactory(m)
      BY <1>1, <1>3, <2>5 DEF Build
    <3>2. validateGiteaInstance(i) = {}
      BY <2>5 DEF validateInstance
    <3>3. validateActions(i) = {}
      BY <3>2 DEF validateGiteaInstance
    <3> QED  BY <1>1, <2>5, <3>1, <3>3, GiteaSatisfied DEF m
  <2>6. CASE i.kind = "sourcehut"
    <3>1. Build(m) = SourceHutFactory(m)
      BY <1>1, <1>3, <2>6 DEF Build
    <3>2. validateSourceHutInstance(i) = {}
      BY <2>6 DEF validateInstance
    <3>3. validateActions(i) = {}
      BY <3>2 DEF validateSourceHutInstance
    <3> QED  BY <1>1, <2>6, <3>1, <3>3, SourceHutSatisfied DEF m
  <2>7. CASE i.kind = "slack"
    <3>1. Build(m) = SlackFactory(m)
      BY <1>1, <1>3, <2>7 DEF Build
    <3>2. validateSlackInstance(i) = {}
      BY <2>7 DEF validateInstance
    <3> QED  BY <1>1, <1>3, <2>7, <3>1, <3>2, SlackSatisfied DEF m
  <2>8. CASE i.kind = "teams"
    <3>1. Build(m) = TeamsFactory(m)
      BY <1>1, <1>3, <2>8 DEF Build
    <3>2. validateTeamsInstance(i) = {}
      BY <2>8 DEF validateInstance
    <3> QED  BY <1>1, <1>3, <2>8, <3>1, <3>2, TeamsSatisfied DEF m
  <2>9. CASE i.kind = "discord"
    <3>1. Build(m) = DiscordFactory(m)
      BY <1>1, <1>3, <2>9 DEF Build
    <3>2. validateDiscordInstance(i) = {}
      BY <2>9 DEF validateInstance
    <3> QED  BY <1>1, <1>3, <2>9, <3>1, <3>2, DiscordSatisfied DEF m
  <2>10. CASE i.kind = "pagerduty"
    <3>1. Build(m) = PagerDutyFactory(m)
      BY <1>1, <1>3, <2>10 DEF Build
    <3>2. validatePagerDutyInstance(i) = {}
      BY <2>10 DEF validateInstance
    <3> QED  BY <1>1, <1>3, <2>10, <3>1, <3>2, PagerDutySatisfied DEF m
  <2>11. CASE i.kind = "datadog"
    <3>1. Build(m) = DatadogFactory(m)
      BY <1>1, <1>3, <2>11 DEF Build
    <3>2. validateDatadogInstance(i) = {}
      BY <2>11 DEF validateInstance
    <3> QED  BY <1>1, <1>3, <2>11, <3>1, <3>2, DatadogSatisfied DEF m
  <2>12. CASE i.kind = "webhook"
    <3>1. Build(m) = WebhookFactory(m)
      BY <1>1, <1>3, <2>12 DEF Build
    <3>2. validateWebhookInstance(i) = {}
      BY <2>12 DEF validateInstance
    <3> QED  BY <1>1, <1>3, <2>12, <3>1, <3>2, WebhookSatisfied DEF m
  <2>13. CASE i.kind = "grafana"
    <3>1. Build(m) = GrafanaFactory(m)
      BY <1>1, <1>3, <2>13 DEF Build
    <3>2. validateGrafanaInstance(i) = {}
      BY <2>13 DEF validateInstance
    <3> QED  BY <1>1, <1>3, <2>13, <3>1, <3>2, GrafanaSatisfied DEF m
  <2>14. CASE i.kind = "sentry"
    <3>1. Build(m) = SentryFactory(m)
      BY <1>1, <1>3, <2>14 DEF Build
    <3>2. validateSentryInstance(i) = {}
      BY <2>14 DEF validateInstance
    <3> QED  BY <1>1, <1>3, <2>14, <3>1, <3>2, SentrySatisfied DEF m
  <2>15. CASE i.kind = "email"
    <3>1. Build(m) = EmailFactory(m)
      BY <1>1, <1>3, <2>15 DEF Build
    <3>2. validateEmailInstance(i) = {}
      BY <2>15 DEF validateInstance
    <3> QED  BY <1>1, <1>3, <2>15, <3>1, <3>2, EmailSatisfied DEF m
  <2>16. CASE i.kind = "mattermost"
    <3>1. Build(m) = MattermostFactory(m)
      BY <1>1, <1>3, <2>16 DEF Build
    <3>2. validateMattermostInstance(i) = {}
      BY <2>16 DEF validateInstance
    <3> QED  BY <1>1, <1>3, <2>16, <3>1, <3>2, MattermostSatisfied DEF m
  <2>17. CASE i.kind = "telegram"
    <3>1. Build(m) = TelegramFactory(m)
      BY <1>1, <1>3, <2>17 DEF Build
    <3>2. validateTelegramInstance(i) = {}
      BY <2>17 DEF validateInstance
    <3> QED  BY <1>1, <1>3, <2>17, <3>1, <3>2, TelegramSatisfied DEF m
  <2>18. CASE i.kind = "incidentio"
    <3>1. Build(m) = IncidentIOFactory(m)
      BY <1>1, <1>3, <2>18 DEF Build
    <3>2. validateIncidentIOInstance(i) = {}
      BY <2>18 DEF validateInstance
    <3> QED  BY <1>1, <1>3, <2>18, <3>1, <3>2, IncidentIOSatisfied DEF m
  <2>19. CASE i.kind = "newrelic"
    <3>1. Build(m) = NewRelicFactory(m)
      BY <1>1, <1>3, <2>19 DEF Build
    <3>2. validateNewRelicInstance(i) = {}
      BY <2>19 DEF validateInstance
    <3> QED  BY <1>1, <1>3, <2>19, <3>1, <3>2, NewRelicSatisfied DEF m
  <2>20. CASE i.kind = "opsgenie"
    <3>1. Build(m) = OpsgenieFactory(m)
      BY <1>1, <1>3, <2>20 DEF Build
    <3>2. validateOpsgenieInstance(i) = {}
      BY <2>20 DEF validateInstance
    <3> QED  BY <1>1, <1>3, <2>20, <3>1, <3>2, OpsgenieSatisfied DEF m
  <2>21. CASE i.kind = "honeycomb"
    <3>1. Build(m) = HoneycombFactory(m)
      BY <1>1, <1>3, <2>21 DEF Build
    <3>2. validateHoneycombInstance(i) = {}
      BY <2>21 DEF validateInstance
    <3> QED  BY <1>1, <1>3, <2>21, <3>1, <3>2, HoneycombSatisfied DEF m
  <2>22. CASE i.kind = "kafka"
    <3>1. Build(m) = KafkaFactory(m)
      BY <1>1, <1>3, <2>22 DEF Build
    <3> QED  BY <1>1, <2>22, <3>1, KafkaSatisfied DEF m
  <2>23. CASE i.kind = "nats"
    <3>1. Build(m) = NATSFactory(m)
      BY <1>1, <1>3, <2>23 DEF Build
    <3>2. validateNATSInstance(i) = {}
      BY <2>23 DEF validateInstance
    <3> QED  BY <1>1, <1>3, <2>23, <3>1, <3>2, NATSSatisfied DEF m
  <2>24. CASE i.kind = "rabbitmq"
    <3>1. Build(m) = RabbitMQFactory(m)
      BY <1>1, <1>3, <2>24 DEF Build
    <3>2. validateRabbitMQInstance(i) = {}
      BY <2>24 DEF validateInstance
    <3> QED  BY <1>1, <1>3, <2>24, <3>1, <3>2, RabbitMQSatisfied DEF m
  <2>25. CASE i.kind = "redispubsub"
    <3>1. Build(m) = RedisPubSubFactory(m)
      BY <1>1, <1>3, <2>25 DEF Build
    <3>2. validateRedisPubSubInstance(i) = {}
      BY <2>25 DEF validateInstance
    <3> QED  BY <1>1, <1>3, <2>25, <3>1, <3>2, RedisPubSubSatisfied DEF m
  <2>26. CASE i.kind = "jira"
    <3>1. Build(m) = JiraFactory(m)
      BY <1>1, <1>3, <2>26 DEF Build
    <3>2. validateJiraInstance(i) = {}
      BY <2>26 DEF validateInstance
    <3> QED  BY <1>1, <1>3, <2>26, <3>1, <3>2, JiraSatisfied DEF m
  <2> QED
    BY Kinds, <2>1, <2>2, <2>3, <2>4, <2>5, <2>6, <2>7, <2>8, <2>9, <2>10, <2>11, <2>12, <2>13, <2>14, <2>15, <2>16, <2>17, <2>18, <2>19, <2>20, <2>21, <2>22, <2>23, <2>24, <2>25, <2>26
<1> QED  BY <1>2, <1>3 DEF IsInstance

-----------------------------------------------------------------------------
(* Load.                                                                   *)

\* The defaults fill in the zeros and touch nothing else.
LEMMA DefaultsFacts ==
  ASSUME NEW c, IsConfig(c)
  PROVE  LET d == applyDefaults(c)
         IN  IsConfig(d) /\ d.insts = c.insts /\ d.s = c.s /\ \A x \in DOMAIN d.num : d.num[x] # 0
<1> DEFINE d == applyDefaults(c)
           default == [write_timeout |-> 10, handler_timeout |-> 10, max_concurrency |-> 100,
                       dedupe_size |-> 10000]
           num == [x \in DOMAIN c.num |-> IF c.num[x] = 0 THEN default[x] ELSE c.num[x]]
<1>1. c = [insts |-> c.insts, acc |-> c.acc, num |-> c.num, s |-> c.s]
  BY DEF IsConfig
<1>2. d = [c EXCEPT !.num = num]
  BY DEF applyDefaults
<1>3. c.num \in [{"write_timeout", "handler_timeout", "max_concurrency", "dedupe_size"} -> Int]
  BY DEF IsConfig
<1>4. \A x \in {"write_timeout", "handler_timeout", "max_concurrency", "dedupe_size"} :
        default[x] \in Int /\ default[x] # 0
  OBVIOUS
<1> HIDE DEF d, default
<1>5. /\ num \in [{"write_timeout", "handler_timeout", "max_concurrency", "dedupe_size"} -> Int]
      /\ \A x \in DOMAIN num : num[x] # 0
  BY <1>3, <1>4
<1> HIDE DEF num
<1>6. d = [insts |-> c.insts, acc |-> c.acc, num |-> num, s |-> c.s]
  BY <1>1, <1>2
<1>7. IsConfig(d)
  BY <1>5, <1>6 DEF IsConfig
<1> QED  BY <1>5, <1>6, <1>7 DEF d

\* A file that Load accepts, once its defaults are in.
LEMMA AcceptedLoads ==
  ASSUME NEW c \in Contents, Accepts(c)
  PROVE  Loaded(applyDefaults(c)) /\ applyDefaults(c).insts = c.insts
<1>1. IsConfig(c)
  BY ConfigAssumption
<1>2. \A i \in Items(c.insts) : i.name \in InstanceName
  BY DEF InstanceName
<1> QED  BY <1>1, <1>2, DefaultsFacts DEF Loaded, Accepts

\* The numbers of a configuration that Load returned.
LEMMA LoadedNumbers ==
  ASSUME NEW c, Loaded(c)
  PROVE  /\ WithinLimits(c)
         /\ c.num.handler_timeout \in Int /\ c.num.write_timeout \in Int
         /\ c.num.handler_timeout <= c.num.write_timeout \/ c.num.handler_timeout < 0 \/ c.num.write_timeout < 0
<1>1. validateServer(c) = {} /\ validateLimits(c) = {}
  BY DEF Loaded, Validate
<1>2. /\ c.num \in [{"write_timeout", "handler_timeout", "max_concurrency", "dedupe_size"} -> Int]
      /\ c.num.write_timeout # 0 /\ c.num.handler_timeout # 0
  BY DEF Loaded, IsConfig
<1>3. c.num.max_concurrency \in 1..500
  BY <1>1 DEF validateServer, When
<1>4. c.num.dedupe_size <= 1000000
  BY <1>1, <1>2 DEF validateLimits, When
<1>5. ~(c.num.handler_timeout > 0 /\ c.num.write_timeout > 0 /\ c.num.handler_timeout > c.num.write_timeout)
  BY <1>1 DEF validateLimits, When
<1>6. WithinLimits(c)
  BY <1>3, <1>4 DEF WithinLimits
<1> QED  BY <1>2, <1>5, <1>6

LEMMA LoadedIsConfig ==
  ASSUME NEW c, Loaded(c)
  PROVE  /\ c # NoConfig /\ IsConfig(c)
         /\ DOMAIN c.insts \subseteq Nat \ {0}
         /\ \A p \in DOMAIN c.insts : IsInstance(c.insts[p]) /\ c.insts[p].name \in InstanceName
<1>1. c.insts \in Seq(Items(c.insts)) /\ IsConfig(c)
  BY DEF Loaded, IsConfig
<1>2. DOMAIN c.insts \subseteq Nat \ {0}
  BY <1>1
<1>3. \A p \in DOMAIN c.insts : c.insts[p] \in Items(c.insts)
  BY DEF Items
<1>4. "write_timeout" \in DOMAIN c.num
  BY DEF Loaded, IsConfig
<1>5. c # NoConfig
  BY <1>4 DEF NoConfig
<1> QED  BY <1>1, <1>2, <1>3, <1>5 DEF Loaded, IsConfig

\* Two instances of a kind whose names Load compares have different names.
LEMMA LoadedNames ==
  ASSUME NEW c, Loaded(c), NEW p \in DOMAIN c.insts, NEW q \in DOMAIN c.insts, p # q,
         c.insts[p].kind = c.insts[q].kind,
         c.insts[p].kind \in KindsOfLoad
  PROVE  c.insts[p].name # c.insts[q].name
<1>1. checkDuplicateName(c, c.insts[p].kind) = {}
  <2>1. UNION {checkDuplicateName(c, kind) : kind \in KindsOfLoad} \subseteq Validate(c)
    BY DEF Validate
  <2>2. Validate(c) = {}
    BY DEF Loaded
  <2> QED  BY <2>1, <2>2
<1>2. p \in Nat /\ q \in Nat
  BY LoadedIsConfig
<1> QED  BY <1>1, <1>2 DEF checkDuplicateName, When

\* A failed build of an instance of a loaded configuration.
LEMMA LoadedBuilds ==
  ASSUME NEW c, Loaded(c), NEW p \in DOMAIN c.insts
  PROVE  /\ c.insts[p].kind \in KindsOfLoad => Refused(c.insts[p], Unchecked \cup UncheckedByLoad) = {}
         /\ runValidation(c) => Refused(c.insts[p], Unchecked) = {}
<1> DEFINE i == c.insts[p]
<1>1. IsInstance(i) /\ i \in Items(c.insts)
  BY LoadedIsConfig DEF Items
<1>2. i.kind \in KindsOfLoad => validateInstance(i) = {}
  BY <1>1 DEF Loaded, Validate
<1>3. "kafka" \notin KindsOfLoad
  BY DEF KindsOfLoad, validateSCM, validateNotifiers
<1>4. ASSUME i.kind \in KindsOfLoad PROVE Refused(i, Unchecked \cup UncheckedByLoad) = {}
  <2>1. \A x \in Build(Mended(i)).err : Excused(i, x)
    BY <1>1, <1>2, <1>3, <1>4, RefusalExcused
  <2> QED  BY <2>1 DEF Refused, Excused
<1>5. ASSUME runValidation(c) PROVE Refused(i, Unchecked) = {}
  <2>1. applyDefaults(c).insts = c.insts /\ ValidateAll(applyDefaults(c)) = {}
    BY <1>5, DefaultsFacts DEF runValidation, Loaded
  <2>2. structTags(i) = {}
    BY <1>1, <2>1 DEF ValidateAll
  <2>3. i.kind \in KindsOfValidateAll => validateInstance(i) = {}
    BY <1>1, <2>1 DEF ValidateAll
  <2>4. i.kind \in KindsOfLoad \cup KindsOfValidateAll \cup {"kafka"}
    BY <1>1, Kinds DEF KindsOfLoad, KindsOfValidateAll, validateSCM, validateNotifiers, validateNotifierInstances
  <2>5. i.kind # "kafka" => validateInstance(i) = {}
    BY <1>2, <2>3, <2>4
  <2>6. \A x \in Build(Mended(i)).err : Excused(i, x)
    BY <1>1, <2>2, <2>5, RefusalExcused
  <2> QED  BY <2>2, <2>6 DEF Refused, Excused
<1> QED  BY <1>4, <1>5

-----------------------------------------------------------------------------
(* The inductive invariant.                                                *)

LEMMA FileKnown ==
  ASSUME TypeOK
  PROVE  file \in Contents
<1>1. CASE edits = 0
  BY <1>1 DEF TypeOK, Contents
<1>2. CASE edits # 0
  <2>1. edits \in 1..Len(Files) /\ file \in Files[edits]
    BY <1>2, ConfigAssumption DEF TypeOK
  <2>2. edits \in DOMAIN Files
    BY <2>1, ConfigAssumption
  <2>3. Files[edits] \in Items(Files)
    BY <2>2 DEF Items
  <2> QED  BY <2>1, <2>3 DEF Contents
<1> QED  BY <1>1, <1>2

LEMMA InvInit ==
  ASSUME Init
  PROVE  IInv
<1>1. DOMAIN NoConfig.insts = {}
  BY DEF NoConfig
<1>2. TypeOK
  BY <1>1, ConfigAssumption DEF Init, TypeOK
<1>3. Stages /\ Registries
  BY ConfigAssumption DEF Init, Stages, Registries, Starting, InBuild, MadeFrom
<1>4. AcceptedBuilds /\ OpenAccounted
  BY DEF Init, AcceptedBuilds, OpenAccounted, Backed
<1> QED  BY <1>2, <1>3, <1>4 DEF IInv

LEMMA EditStep ==
  ASSUME IInv, edits < Len(Files), NEW c \in Files[edits + 1], EditFile(c)
  PROVE  IInv'
<1> USE DEF IInv, EditFile, building
<1>1. TypeOK'
  <2>1. edits' \in 0..Len(Files) /\ edits' # 0 /\ file' \in Files[edits']
    BY ConfigAssumption DEF TypeOK
  <2> QED  BY <2>1 DEF TypeOK
<1>2. Stages'
  BY DEF Stages, Starting, InBuild, SameButWarned
<1>3. Registries'
  BY DEF Registries, InBuild, Backed
<1>4. AcceptedBuilds'
  BY DEF AcceptedBuilds
<1>5. OpenAccounted'
  BY DEF OpenAccounted, Backed
<1> QED  BY <1>1, <1>2, <1>3, <1>4, <1>5

LEMMA BeginStep ==
  ASSUME IInv, Begin
  PROVE  IInv'
<1> USE DEF IInv, Begin, building
<1>1. TypeOK'
  BY DEF TypeOK
<1>2. Stages'
  BY DEF Stages, Starting, InBuild, SameButWarned
<1>3. Registries'
  BY DEF Registries, InBuild, Backed
<1>4. AcceptedBuilds'
  BY DEF AcceptedBuilds
<1>5. OpenAccounted'
  BY DEF OpenAccounted, Backed
<1> QED  BY <1>1, <1>2, <1>3, <1>4, <1>5

\* Giving up, before anything was opened or with what was opened accounted
\* for by a failed build.
LEMMA LoadFailsStep ==
  ASSUME IInv, LoadFails
  PROVE  IInv'
<1> USE DEF IInv, LoadFails, GiveUp, building
<1>1. TypeOK'
  BY DEF TypeOK
<1>2. Stages'
  BY DEF Stages, Starting, InBuild, SameButWarned
<1>3. Registries'
  BY DEF Registries, InBuild
<1>4. AcceptedBuilds'
  BY DEF AcceptedBuilds
<1>5. OpenAccounted'
  BY DEF OpenAccounted, Backed, Stages, Starting
<1> QED  BY <1>1, <1>2, <1>3, <1>4, <1>5

LEMMA LoadSucceedsStep ==
  ASSUME IInv, LoadSucceeds
  PROVE  IInv'
<1> USE DEF IInv, LoadSucceeds
<1>1. Loaded(next') /\ next'.insts = file.insts
  BY FileKnown, AcceptedLoads
<1>2. builds \in Nat /\ MaxBuilds \in Nat /\ builds < MaxBuilds /\ builds' = builds + 1
  BY ConfigAssumption DEF TypeOK, Stages
<1>3. TypeOK'
  <2>1. builds' \in 0..MaxBuilds /\ failed' \subseteq 1..builds'
    BY <1>2 DEF TypeOK
  <2>2. \A h \in made' \cup cur' \cup old' : h \in Handler /\ h.build <= builds'
    BY <1>2 DEF TypeOK, Handler
  <2>3. \A r \in open' : r.build \in 1..builds' /\ r.what \in {"flusher", "connection", "writer"}
    BY <1>2 DEF TypeOK
  <2>4. todo' \subseteq DOMAIN next'.insts
    BY <1>1
  <2> QED  BY <2>1, <2>2, <2>3, <2>4 DEF TypeOK
<1>4. Stages'
  BY <1>1, <1>2 DEF Stages, Starting, InBuild, SameButWarned
<1>5. Registries'
  <2>1. MadeFrom(cur, live)'
    BY DEF Registries
  <2>2. MadeFrom(made', next') /\ Backed(made, next)'
    BY DEF MadeFrom, Backed
  <2>3. \A h \in cur' : h.build < builds'
    BY <1>2 DEF TypeOK, Handler
  <2>4. \A r \in open' : r.build # builds'
    BY <1>2 DEF TypeOK
  <2> QED  BY <2>1, <2>2, <2>3, <2>4 DEF Registries, InBuild
<1>6. AcceptedBuilds'
  BY DEF AcceptedBuilds
<1>7. OpenAccounted'
  BY DEF OpenAccounted, Backed
<1> QED  BY <1>3, <1>4, <1>5, <1>6, <1>7

\* One factory call that succeeds: what it opens belongs to a handler it
\* registers.
LEMMA BuildSucceedsStep ==
  ASSUME IInv, NEW p \in todo, BuildInstance(p), Build(next.insts[p]).err = {}
  PROVE  IInv'
<1> DEFINE b == Build(next.insts[p])
           new == {Registered(h, builds, p) : h \in b.handlers}
           opened == {Resource(builds, p, w) : w \in b.opens}
<1> USE DEF IInv
<1>1. /\ made' = made \cup new /\ todo' = todo \ {p} /\ open' = open \cup opened
      /\ at = "build"
      /\ UNCHANGED <<file, edits, at, boot, live, next, cur, old, builds, failed, why, warned>>
  BY DEF BuildInstance
<1>2. p \in DOMAIN next.insts /\ Loaded(next) /\ InBuild /\ builds > 0
  BY <1>1 DEF TypeOK, Stages, InBuild
<1>3. /\ p \in Nat /\ p # 0 /\ WellBuilt(next.insts[p], b)
      /\ next.insts[p].name \in InstanceName
  BY <1>2, LoadedIsConfig, EveryBuild
<1>4. builds \in 1..MaxBuilds
  BY <1>2, ConfigAssumption DEF TypeOK
<1>5. \A g \in new : /\ g \in Handler /\ g.build = builds /\ g.pos = p
                     /\ [name |-> g.name, dedupe |-> g.dedupe] \in b.handlers
  <2>1. ASSUME NEW h \in b.handlers
        PROVE  LET g == Registered(h, builds, p)
               IN  /\ g \in Handler /\ g.build = builds /\ g.pos = p
                   /\ [name |-> g.name, dedupe |-> g.dedupe] \in b.handlers
    BY <1>3, <1>4 DEF WellBuilt, Registered, Handler
  <2> QED  BY <2>1
<1>6. \A r \in opened : /\ r.build = builds /\ r.pos = p /\ r.what \in b.opens
                        /\ r.what \in {"flusher", "connection", "writer"}
  BY <1>3 DEF WellBuilt, Resource
<1>7. \A w \in b.opens : Resource(builds, p, w) \in opened
  OBVIOUS
<1>8. opened # {} => new # {}
  <2>1. opened # {} => b.opens # {}
    OBVIOUS
  <2>2. b.opens # {} => b.handlers # {}
    BY <1>3 DEF WellBuilt
  <2> QED  BY <2>1, <2>2
<1> HIDE DEF new, opened
<1>9. TypeOK'
  <2>1. \A h \in made' \cup cur' \cup old' : h \in Handler /\ h.build <= builds'
    <3>1. builds <= builds
      BY <1>4, ConfigAssumption
    <3>2. \A h \in made \cup cur \cup old : h \in Handler /\ h.build <= builds
      BY DEF TypeOK
    <3> QED  BY <1>1, <1>5, <3>1, <3>2
  <2>2. \A r \in open' : r.build \in 1..builds' /\ r.what \in {"flusher", "connection", "writer"}
    BY <1>1, <1>4, <1>6 DEF TypeOK
  <2> QED  BY <1>1, <2>1, <2>2 DEF TypeOK
<1>10. Stages'
  BY <1>1 DEF Stages, Starting, InBuild, SameButWarned
<1>11. Registries'
  <2>1. MadeFrom(cur, live)' /\ MadeFrom(made, next)'
    BY <1>1, <1>2, <1>3, <1>5 DEF Registries, MadeFrom
  <2>2. Backed(made, next)'
    <3>1. ASSUME NEW h \in made, h.pos # 0, NEW w \in Build(next.insts[h.pos]).opens
          PROVE  Resource(h.build, h.pos, w) \in open'
      BY <1>1, <1>2, <3>1 DEF Registries, Backed
    <3>2. ASSUME NEW h \in new, NEW w \in Build(next.insts[h.pos]).opens
          PROVE  Resource(h.build, h.pos, w) \in open'
      BY <1>1, <1>5, <1>7
    <3> QED  BY <1>1, <3>1, <3>2 DEF Backed
  <2>3. (\A h \in made' : h.build = builds') /\ (\A h \in cur' : h.build < builds')
    BY <1>1, <1>2, <1>5 DEF Registries
  <2>4. ASSUME NEW r \in open', r.build = builds' PROVE Owned(r, made')
    <3>1. CASE r \in open
      BY <1>1, <1>2, <2>4, <3>1 DEF Registries, Owned
    <3>2. CASE r \in opened
      <4>1. PICK g : g \in new
        BY <1>8, <3>2
      <4> QED  BY <1>1, <1>5, <1>6, <3>2, <4>1 DEF Owned
    <3> QED  BY <1>1, <3>1, <3>2
  <2> QED  BY <1>1, <2>1, <2>2, <2>3, <2>4 DEF Registries, InBuild
<1>12. AcceptedBuilds'
  BY <1>1 DEF AcceptedBuilds
<1>13. OpenAccounted'
  <2>1. ASSUME NEW r \in open' PROVE r.build \in failed \/ Owned(r, cur \cup old) \/ r.build = builds
    BY <1>1, <1>6 DEF OpenAccounted
  <2>2. Backed(cur, live)'
    BY <1>1 DEF OpenAccounted, Backed
  <2> QED  BY <1>1, <2>1, <2>2 DEF OpenAccounted
<1> QED  BY <1>9, <1>10, <1>11, <1>12, <1>13

\* One that fails.
LEMMA BuildFailsStep ==
  ASSUME IInv, NEW p \in todo, BuildInstance(p), Build(next.insts[p]).err # {}
  PROVE  IInv'
<1> DEFINE b == Build(next.insts[p])
           opened == {Resource(builds, p, w) : w \in b.opens}
<1> USE DEF IInv
<1>1. /\ IF Starting THEN at' = "exited" /\ open' = {} ELSE at' = "serve" /\ open' = open \cup opened
      /\ failed' = failed \cup {builds} /\ why' = why \cup {[inst |-> next.insts[p], of |-> next]}
      /\ at = "build"
      /\ UNCHANGED <<file, edits, boot, live, next, todo, made, cur, old, builds, warned>>
  BY DEF BuildInstance
<1>2. p \in DOMAIN next.insts /\ Loaded(next) /\ builds > 0
  BY <1>1 DEF TypeOK, Stages, InBuild
<1>3. WellBuilt(next.insts[p], b)
  BY <1>2, LoadedIsConfig, EveryBuild
<1>4. builds \in 1..MaxBuilds
  BY <1>2, ConfigAssumption DEF TypeOK
<1>5. \A r \in opened : r.build = builds /\ r.what \in {"flusher", "connection", "writer"}
  BY <1>3 DEF WellBuilt, Resource
<1> HIDE DEF opened, b
<1>6. TypeOK'
  <2>1. \A r \in open' : r.build \in 1..builds' /\ r.what \in {"flusher", "connection", "writer"}
    BY <1>1, <1>4, <1>5 DEF TypeOK
  <2>2. failed' \subseteq 1..builds' /\ at' \in {"exited", "serve"}
    BY <1>1, <1>4 DEF TypeOK
  <2> QED  BY <1>1, <2>1, <2>2 DEF TypeOK
<1>7. Stages'
  BY <1>1 DEF Stages, Starting, InBuild, SameButWarned
<1>8. Registries'
  BY <1>1 DEF Registries, InBuild
<1>9. AcceptedBuilds'
  <2>1. ASSUME NEW w \in why'
        PROVE  /\ w.inst.kind \in KindsOfLoad => Refused(w.inst, Unchecked \cup UncheckedByLoad) = {}
               /\ runValidation(w.of) => Refused(w.inst, Unchecked) = {}
    <3>1. CASE w \in why
      BY <3>1 DEF AcceptedBuilds
    <3>2. CASE w = [inst |-> next.insts[p], of |-> next]
      BY <1>2, <3>2, LoadedBuilds
    <3> QED  BY <1>1, <3>1, <3>2
  <2> QED  BY <2>1 DEF AcceptedBuilds
<1>10. OpenAccounted'
  <2>1. ASSUME NEW r \in open' PROVE r.build \in failed' \/ Owned(r, cur' \cup old')
    BY <1>1, <1>5 DEF OpenAccounted
  <2>2. Backed(cur, live)'
    BY <1>1 DEF OpenAccounted, Backed, Stages
  <2> QED  BY <2>1, <2>2 DEF OpenAccounted
<1> QED  BY <1>6, <1>7, <1>8, <1>9, <1>10

LEMMA BuildLastStep ==
  ASSUME IInv, BuildLast
  PROVE  IInv'
<1> DEFINE fails == next.acc.enabled /\ BuildAccumulator(next.acc, made) # {}
           acc == Registered([name |-> "accumulator", dedupe |-> FALSE], builds, 0)
<1> USE DEF IInv
<1>1. /\ at = "build"
      /\ UNCHANGED <<file, edits, boot, live, next, todo, cur, old, builds, why, warned>>
  BY DEF BuildLast
<1>2. Loaded(next) /\ builds > 0 /\ InBuild
  BY <1>1 DEF Stages, InBuild
<1>3. builds \in 1..MaxBuilds
  BY <1>2, ConfigAssumption DEF TypeOK
<1>4. AcceptedBuilds'
  BY <1>1 DEF AcceptedBuilds
<1>5. CASE fails
  <2>1. /\ failed' = failed \cup {builds} /\ made' = made
        /\ IF Starting THEN at' = "exited" /\ open' = {} ELSE at' = "serve" /\ open' = open
    BY <1>5 DEF BuildLast, GiveUp
  <2>2. TypeOK'
    BY <1>1, <1>3, <2>1 DEF TypeOK
  <2>3. Stages'
    BY <1>1, <2>1 DEF Stages, Starting, InBuild, SameButWarned
  <2>4. Registries'
    BY <1>1, <2>1 DEF Registries, InBuild
  <2>5. OpenAccounted'
    BY <1>1, <2>1 DEF OpenAccounted, Backed, Stages, Starting
  <2> QED  BY <1>4, <2>2, <2>3, <2>4, <2>5
<1>6. CASE ~fails
  <2>1. at' = "swap" /\ made' \in {made, made \cup {acc}} /\ open' = open /\ failed' = failed
    BY <1>6 DEF BuildLast
  <2>2. acc \in Handler /\ acc.build = builds /\ acc.pos = 0 /\ acc.dedupe = FALSE
    BY <1>3 DEF Handler, Registered
  <2> HIDE DEF acc
  <2>3. TypeOK'
    <3>1. \A h \in made' \cup cur' \cup old' : h \in Handler /\ h.build <= builds'
      BY <1>1, <1>3, <2>1, <2>2 DEF TypeOK
    <3> QED  BY <1>1, <2>1, <3>1 DEF TypeOK
  <2>4. Stages'
    BY <1>1, <1>2, <2>1 DEF Stages, Starting, InBuild, SameButWarned
  <2>5. Registries'
    <3>1. MadeFrom(cur, live)' /\ MadeFrom(made, next)' /\ Backed(made, next)'
      BY <1>1, <1>2, <2>1, <2>2 DEF Registries, MadeFrom, Backed
    <3>2. (\A h \in made' : h.build = builds') /\ (\A h \in cur' : h.build < builds')
      BY <1>1, <1>2, <2>1, <2>2 DEF Registries
    <3>3. \A r \in open' : r.build = builds' => Owned(r, made')
      BY <1>1, <1>2, <2>1 DEF Registries, Owned
    <3> QED  BY <2>1, <3>1, <3>2, <3>3 DEF Registries, InBuild
  <2>6. OpenAccounted'
    BY <1>1, <2>1 DEF OpenAccounted, Backed
  <2> QED  BY <1>4, <2>3, <2>4, <2>5, <2>6
<1> QED  BY <1>5, <1>6

LEMMA ServeStep ==
  ASSUME IInv, Serve
  PROVE  IInv'
<1> USE DEF IInv
<1>1. /\ at = "swap" /\ Starting /\ cur = {} /\ old = {} /\ Loaded(next)
      /\ UNCHANGED <<file, edits, next, todo, made, old, builds, failed, why, warned>>
  BY DEF Serve, building, Stages, InBuild
<1>2. AcceptedBuilds'
  BY <1>1 DEF AcceptedBuilds
<1>3. CASE at' = "exited" /\ open' = {} /\ UNCHANGED <<boot, live, cur>>
  <2>1. TypeOK'
    BY <1>1, <1>3 DEF TypeOK
  <2>2. Stages'
    BY <1>1, <1>3 DEF Stages, Starting, InBuild, SameButWarned
  <2>3. Registries'
    BY <1>1, <1>3 DEF Registries, InBuild
  <2>4. OpenAccounted'
    BY <1>1, <1>3 DEF OpenAccounted, Backed
  <2> QED  BY <1>2, <2>1, <2>2, <2>3, <2>4
<1>4. CASE at' = "serve" /\ boot' = next /\ live' = next /\ cur' = made /\ open' = open
  <2>1. TypeOK'
    BY <1>1, <1>4, LoadedNumbers DEF TypeOK
  <2>2. Stages'
    BY <1>1, <1>4, LoadedNumbers, LoadedIsConfig DEF Stages, Starting, InBuild, SameButWarned
  <2>3. Registries'
    BY <1>1, <1>4 DEF Registries, InBuild
  <2>4. OpenAccounted'
    <3>1. \A r \in open' : r.build \in failed' \/ Owned(r, cur' \cup old')
      BY <1>1, <1>4 DEF OpenAccounted, Registries, InBuild, Owned
    <3>2. Backed(cur, live)'
      BY <1>1, <1>4 DEF Registries, InBuild, Backed
    <3> QED  BY <3>1, <3>2 DEF OpenAccounted
  <2> QED  BY <1>2, <2>1, <2>2, <2>3, <2>4
<1> QED  BY <1>1, <1>3, <1>4 DEF Serve, GiveUp

\* What warnImmutableChanges covers of the settings read at the start.
LEMMA WarnedSettings ==
  ASSUME NEW from, NEW to, NEW s \in DOMAIN StartOnly, NEW x \in StartOnly[s] \ Silent, Val(from, x) # Val(to, x)
  PROVE  s \in warnImmutableChanges(from, to)
<1>1. s \in DOMAIN Compared /\ x \in Compared[s]
  BY DEF StartOnly, Silent, Compared
<1> QED  BY <1>1 DEF warnImmutableChanges

LEMMA SwapStep ==
  ASSUME IInv, Swap
  PROVE  IInv'
<1> USE DEF IInv
<1>1. /\ at = "swap" /\ ~Starting /\ Loaded(next) /\ Loaded(boot) /\ old = {} /\ InBuild
      /\ warned' = warnImmutableChanges(boot, next) /\ old' = cur /\ cur' = made /\ live' = next /\ at' = "close"
      /\ UNCHANGED <<file, edits, boot, next, todo, made, open, builds, failed, why>>
  BY DEF Swap, building, Stages, InBuild
<1>2. AcceptedBuilds'
  BY <1>1 DEF AcceptedBuilds
<1>3. warned' \subseteq DOMAIN Compared
  BY <1>1 DEF warnImmutableChanges, When, Compared
<1>4. TypeOK'
  BY <1>1, <1>3, LoadedNumbers DEF TypeOK
<1>5. SameButWarned'
  <2>1. boot.num.write_timeout # next.num.write_timeout => "server" \in warned'
    BY <1>1 DEF warnImmutableChanges, When
  <2>2. \A s \in DOMAIN StartOnly : \A x \in StartOnly[s] \ Silent : Val(boot, x) # Val(next, x) => s \in warned'
    BY <1>1, WarnedSettings
  <2>3. \/ next.num.handler_timeout <= boot.num.write_timeout
        \/ next.num.handler_timeout < 0 \/ boot.num.write_timeout < 0
        \/ "server" \in warned'
    BY <1>1, <2>1, LoadedNumbers
  <2> QED  BY <1>1, <2>1, <2>2, <2>3 DEF SameButWarned
<1>6. Stages'
  BY <1>1, <1>5 DEF Stages, Starting, InBuild
<1>7. Registries'
  BY <1>1 DEF Registries, InBuild
<1>8. OpenAccounted'
  <2>1. \A r \in open' : r.build \in failed' \/ Owned(r, cur' \cup old')
    BY <1>1 DEF OpenAccounted, Registries, Owned
  <2>2. Backed(cur, live)'
    BY <1>1 DEF Registries, Backed
  <2> QED  BY <2>1, <2>2 DEF OpenAccounted
<1> QED  BY <1>2, <1>4, <1>6, <1>7, <1>8

\* Closing what was replaced takes nothing from the handlers in use: they
\* are of a later build.
LEMMA CloseStep ==
  ASSUME IInv, CloseOld
  PROVE  IInv'
<1> USE DEF IInv
<1>1. /\ at = "close" /\ old' = {} /\ at' = "serve"
      /\ open' = {r \in open : \A h \in old : h.build # r.build \/ h.pos # r.pos}
      /\ UNCHANGED <<file, edits, boot, live, next, todo, made, cur, builds, failed, why, warned>>
  BY DEF CloseOld, building
<1>2. AcceptedBuilds'
  BY <1>1 DEF AcceptedBuilds
<1>3. TypeOK'
  BY <1>1 DEF TypeOK
<1>4. Stages'
  BY <1>1 DEF Stages, Starting, InBuild, SameButWarned
<1>5. Registries'
  BY <1>1 DEF Registries, InBuild
<1>6. OpenAccounted'
  <2>1. \A r \in open' : r.build \in failed' \/ Owned(r, cur' \cup old')
    BY <1>1 DEF OpenAccounted, Owned
  <2>2. ASSUME NEW g \in cur, g.pos # 0, NEW w \in Build(live.insts[g.pos]).opens
        PROVE  Resource(g.build, g.pos, w) \in open'
    <3>1. Resource(g.build, g.pos, w) \in open
      BY <2>2 DEF OpenAccounted, Backed
    <3>2. g.build = builds /\ builds \in Nat /\ \A h \in old : h.build < builds /\ h.build \in Nat
      BY <1>1, ConfigAssumption DEF Registries, TypeOK, Handler
    <3>3. \A h \in old : h.build # Resource(g.build, g.pos, w).build
      BY <3>2 DEF Resource
    <3> QED  BY <1>1, <3>1, <3>3
  <2> QED  BY <1>1, <2>1, <2>2 DEF OpenAccounted, Backed
<1> QED  BY <1>2, <1>3, <1>4, <1>5, <1>6

LEMMA InvStep ==
  ASSUME IInv, [Next]_vars
  PROVE  IInv'
<1>1. CASE UNCHANGED vars
  <2>1. UNCHANGED <<file, edits, at, boot, live, next, todo, made, cur, old, open, builds, failed, why, warned>>
    BY <1>1 DEF vars, building
  <2>2. TypeOK' /\ AcceptedBuilds'
    BY <2>1 DEF IInv, TypeOK, AcceptedBuilds
  <2>3. Stages' /\ Registries'
    BY <2>1 DEF IInv, Stages, Registries, Starting, InBuild, SameButWarned, Backed
  <2>4. OpenAccounted'
    BY <2>1 DEF IInv, OpenAccounted, Backed
  <2> QED  BY <2>2, <2>3, <2>4 DEF IInv
<1>2. CASE Next
  BY <1>2, EditStep, BeginStep, LoadFailsStep, LoadSucceedsStep, BuildSucceedsStep, BuildFailsStep,
     BuildLastStep, ServeStep, SwapStep, CloseStep DEF Next
<1> QED  BY <1>1, <1>2

LEMMA AlwaysInv == Spec => []IInv
  BY InvInit, InvStep, PTL DEF Spec

\* Every variable keeps its type, whatever files come: a registry holds only
\* handlers of builds that were made, and the configuration in use only
\* numbers within the limits of Load's validators.
THEOREM TypeCorrect == Spec => []TypeOK
  BY AlwaysInv, PTL DEF IInv

\* What Load accepts, the factories build, for every configuration file and
\* any sequence of reloads, but for what Unchecked and UncheckedByLoad name
\* and for what is missing outside the file.
THEOREM ValidatedFilesBuild == Spec => []AcceptedBuilds
  BY AlwaysInv, PTL DEF IInv

\* Nothing that a build opens is left without an owner unless the build
\* failed, and closing the replaced registry takes nothing from the new one.
THEOREM NothingLeaksBut == Spec => []OpenAccounted
  BY AlwaysInv, PTL DEF IInv

\* Two handlers share a dedupe key only in the ways KeyOfOne lists.
THEOREM DedupeKeysApart == Spec => []KeyOfOne
<1>1. ASSUME IInv PROVE KeyOfOne
  <2> SUFFICES ASSUME NEW g \in cur, NEW h \in cur, g.pos # h.pos, g.dedupe, h.dedupe, g.name = h.name,
                      g.name \notin FixedName,
                      live.insts[g.pos].kind = live.insts[h.pos].kind,
                      live.insts[g.pos].kind \in KindsOfLoad
               PROVE  FALSE
    BY DEF KeyOfOne
  <2>1. Loaded(live) /\ MadeFrom(cur, live)
    BY <1>1 DEF IInv, Stages, Registries, Starting
  <2>2. ASSUME NEW f \in cur, f.dedupe, f.name \notin FixedName
        PROVE  f.pos \in DOMAIN live.insts /\ f.name = live.insts[f.pos].name
    <3>1. /\ f.pos \in DOMAIN live.insts
          /\ [name |-> f.name, dedupe |-> f.dedupe] \in Build(live.insts[f.pos]).handlers
      BY <2>1, <2>2 DEF MadeFrom
    <3>2. WellBuilt(live.insts[f.pos], Build(live.insts[f.pos]))
      BY <2>1, <3>1, LoadedIsConfig, EveryBuild
    <3> QED  BY <2>2, <3>1, <3>2 DEF WellBuilt
  <2> QED  BY <2>1, <2>2, LoadedNames
<1> QED  BY <1>1, AlwaysInv, PTL

\* After any number of reloads, failed ones included, what runs differs from
\* what a start on the last accepted file would run only in what the last
\* successful reload warned of and in what warnImmutableChanges leaves out.
THEOREM ReloadedAsRestarted == Spec => []AsRestarted
<1>1. ASSUME IInv PROVE AsRestarted
  BY <1>1 DEF IInv, Stages, AsRestarted, Starting
<1> QED  BY <1>1, AlwaysInv, PTL

=============================================================================
