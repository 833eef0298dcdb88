------------------------------- MODULE Config -------------------------------
(***************************************************************************)
(* A configuration file on its way to running handlers: config.Load, the   *)
(* -validate command, factory.BuildAll at start (newApp) and at reload     *)
(* (app.reload), what the build opens and the close of what it replaces.   *)
(*                                                                         *)
(* A configuration is a record [insts, acc, num, s]: instances in file     *)
(* order, the accumulator, the numbers validation compares, and s as in    *)
(* ConfigChecks for the settings outside the instances. Reload has the     *)
(* interleavings of a reload with requests and shutdown; here a reload is  *)
(* sequential, as in watchConfig's goroutine, and the configurations are   *)
(* real ones.                                                              *)
(***************************************************************************)
EXTENDS ConfigChecks, Integers, Sequences

CONSTANTS
  First,      \* configurations the program may be started on
  Files,      \* the configurations each change of the file may bring, in turn;
              \* its length bounds the changes
  MaxBuilds   \* bound on the calls of BuildAll

\* BuildAll's order.
BuildOrder ==
  <<"github", "gitlab", "bitbucket", "azure_devops", "gitea", "sourcehut",
    "slack", "teams", "discord", "pagerduty", "datadog", "webhook", "grafana", "sentry", "email",
    "mattermost", "telegram", "incidentio", "newrelic", "opsgenie", "honeycomb", "kafka", "nats",
    "rabbitmq", "redispubsub", "jira">>

\* What the YAML decoder makes of a file.
IsSettings(s) == s \in [DOMAIN s -> STRING]
IsAction(a) ==
  /\ a = [type |-> a.type, enabled |-> a.enabled, dedupe |-> a.dedupe, s |-> a.s]
  /\ a.type \in STRING /\ a.enabled \in BOOLEAN /\ a.dedupe \in BOOLEAN /\ IsSettings(a.s)
IsInstance(i) ==
  /\ i = [kind |-> i.kind, name |-> i.name, enabled |-> i.enabled, dedupe |-> i.dedupe, batch |-> i.batch,
          s |-> i.s, actions |-> i.actions]
  /\ i.kind \in Items(BuildOrder) /\ i.name \in STRING
  /\ i.enabled \in BOOLEAN /\ i.dedupe \in BOOLEAN /\ i.batch \in BOOLEAN /\ IsSettings(i.s)
  /\ i.actions \in Seq(Items(i.actions)) /\ \A a \in Items(i.actions) : IsAction(a)
IsConfig(c) ==
  /\ c = [insts |-> c.insts, acc |-> c.acc, num |-> c.num, s |-> c.s]
  /\ c.insts \in Seq(Items(c.insts)) /\ \A i \in Items(c.insts) : IsInstance(i)
  /\ c.acc.enabled \in BOOLEAN /\ IsSettings(c.s)
  /\ c.num \in [{"write_timeout", "handler_timeout", "max_concurrency", "dedupe_size"} -> Int]

\* Every content the file may have.
Contents == First \cup UNION Items(Files)

ASSUME ConfigAssumption ==
  /\ Files \in Seq(SUBSET UNION Items(Files)) /\ MaxBuilds \in Nat \ {0}
  /\ \A c \in Contents : IsConfig(c)

VARIABLES
  file,     \* the configuration on disk
  edits,    \* how often it was changed
  at,       \* where newApp or reload is
  boot,     \* the configuration the process started with: a.cfg
  live,     \* the configuration the chain was built from
  next,     \* the configuration being built
  todo,     \* the positions of its instances still to build
  made,     \* the registry being filled
  cur,      \* the registry in use
  old,      \* handlers still to close
  open,     \* goroutines and connections the builds opened
  builds,   \* calls of BuildAll
  failed,   \* the ones that failed
  why,      \* the instances that made them fail
  warned    \* sections the last reload warned of

building == <<next, todo, made>>
vars == <<file, edits, at, boot, live, building, cur, old, open, builds, failed, why, warned>>

NoConfig == [insts |-> <<>>, acc |-> [enabled |-> FALSE], num |-> [x \in {} |-> 0], s |-> [x \in {} |-> "none"]]

-----------------------------------------------------------------------------
(* config.Load and config.ValidateAll.                                     *)

validateInstance(i) ==
  CASE i.kind = "github" -> validateGitHubInstance(i)
    [] i.kind = "gitlab" -> validateGitLabInstance(i)
    [] i.kind = "bitbucket" -> validateBitbucketInstance(i)
    [] i.kind = "azure_devops" -> validateAzureInstance(i)
    [] i.kind = "gitea" -> validateGiteaInstance(i)
    [] i.kind = "sourcehut" -> validateSourceHutInstance(i)
    [] i.kind = "slack" -> validateSlackInstance(i)
    [] i.kind = "teams" -> validateTeamsInstance(i)
    [] i.kind = "discord" -> validateDiscordInstance(i)
    [] i.kind = "pagerduty" -> validatePagerDutyInstance(i)
    [] i.kind = "datadog" -> validateDatadogInstance(i)
    [] i.kind = "webhook" -> validateWebhookInstance(i)
    [] i.kind = "grafana" -> validateGrafanaInstance(i)
    [] i.kind = "sentry" -> validateSentryInstance(i)
    [] i.kind = "email" -> validateEmailInstance(i)
    [] i.kind = "mattermost" -> validateMattermostInstance(i)
    [] i.kind = "telegram" -> validateTelegramInstance(i)
    [] i.kind = "incidentio" -> validateIncidentIOInstance(i)
    [] i.kind = "newrelic" -> validateNewRelicInstance(i)
    [] i.kind = "opsgenie" -> validateOpsgenieInstance(i)
    [] i.kind = "honeycomb" -> validateHoneycombInstance(i)
    [] i.kind = "nats" -> validateNATSInstance(i)
    [] i.kind = "rabbitmq" -> validateRabbitMQInstance(i)
    [] i.kind = "redispubsub" -> validateRedisPubSubInstance(i)
    [] i.kind = "jira" -> validateJiraInstance(i)

\* A number of 0 stands for the default.
applyDefaults(c) ==
  LET default == [write_timeout |-> 10, handler_timeout |-> 10, max_concurrency |-> 100,
                  dedupe_size |-> 10000]
  IN  [c EXCEPT !.num = [x \in DOMAIN @ |-> IF @[x] = 0 THEN default[x] ELSE @[x]]]

\* Mutant: the number of concurrent handlers has no upper limit.
ConcurrencyUncapped(c) == When(c.num.max_concurrency < 1, {"max_concurrency"}) \cup Malformed(c, {"server.auth"})

validateServer(c) ==
  When(c.num.max_concurrency \notin 1..500, {"max_concurrency"}) \cup Malformed(c, {"server.auth"})

validateLimits(c) ==
  When(c.num.dedupe_size > 1000000, {"dedupe_size"}) \cup Malformed(c, {"dlq"})
  \cup When(/\ c.num.handler_timeout > 0 /\ c.num.write_timeout > 0
            /\ c.num.handler_timeout > c.num.write_timeout, {"handler_timeout"})

\* The instances Validate looks at: validateNotifiers leaves six kinds out.
\* A list must not give a name twice.
validateSCM == {"github", "gitlab", "bitbucket", "azure_devops", "gitea", "sourcehut"}
validateNotifiers ==
  {"slack", "teams", "email", "discord", "pagerduty", "datadog", "webhook", "grafana", "sentry",
   "mattermost", "opsgenie", "incidentio", "honeycomb"}

\* Mutant: names are compared between lists only.
DuplicatesAllowed(c, kind) == {}

checkDuplicateName(c, kind) ==
  When(\E j, k \in DOMAIN c.insts :
          j < k /\ c.insts[j].kind = kind /\ c.insts[k].kind = kind /\ c.insts[j].name = c.insts[k].name,
       {"name"})

KindsOfLoad == validateSCM \cup validateNotifiers \cup {"jira"}

\* Validate stops at the first error; it accepts when there is none.
Validate(c) ==
  validateServer(c) \cup validateLimits(c)
  \cup Malformed(c, {"logging", "store", "retry", "tracing", "server.tls"})
  \cup (UNION {validateInstance(i) : i \in {j \in Items(c.insts) : j.kind \in KindsOfLoad}})
  \cup UNION {checkDuplicateName(c, kind) : kind \in KindsOfLoad}

Accepts(c) == Validate(applyDefaults(c)) = {}

\* What only the struct tags require.
structTags(i) ==
  When(i.name = "none", {"name"}) \cup Malformed(i, {"encryption", "rate_limit"})
  \cup When(i.kind = "kafka", Missing(i, {"brokers"}))
  \cup UNION {When(a.type = "none", {"type"}) \cup When(i.kind # "jira", Malformed(a, {"mode"}))
                : a \in Items(i.actions)}

\* validateNotifierInstances leaves out Opsgenie and Kafka.
validateNotifierInstances ==
  {"slack", "teams", "discord", "pagerduty", "datadog", "webhook", "grafana", "sentry", "mattermost",
   "telegram", "incidentio", "newrelic", "honeycomb", "email", "nats", "rabbitmq", "redispubsub"}

KindsOfValidateAll == validateSCM \cup validateNotifierInstances \cup {"jira"}

ValidateAll(c) ==
  {x \in DOMAIN c.num \ {"write_timeout"} : c.num[x] < 0}
  \cup (UNION {structTags(i) : i \in Items(c.insts)})
  \cup UNION {validateInstance(i) : i \in {j \in Items(c.insts) : j.kind \in KindsOfValidateAll}}

\* The -validate command.
runValidation(c) == Accepts(c) /\ ValidateAll(applyDefaults(c)) = {}

-----------------------------------------------------------------------------
(* factory.BuildAll.                                                       *)

Build(i) ==
  CASE ~i.enabled -> [err |-> {}, opens |-> {}, handlers |-> {}]
    [] i.enabled /\ i.kind = "github" -> GitHubFactory(i)
    [] i.enabled /\ i.kind = "gitlab" -> GitLabFactory(i)
    [] i.enabled /\ i.kind = "bitbucket" -> BitbucketFactory(i)
    [] i.enabled /\ i.kind = "azure_devops" -> AzureFactory(i)
    [] i.enabled /\ i.kind = "gitea" -> GiteaFactory(i)
    [] i.enabled /\ i.kind = "sourcehut" -> SourceHutFactory(i)
    [] i.enabled /\ i.kind = "slack" -> SlackFactory(i)
    [] i.enabled /\ i.kind = "teams" -> TeamsFactory(i)
    [] i.enabled /\ i.kind = "discord" -> DiscordFactory(i)
    [] i.enabled /\ i.kind = "pagerduty" -> PagerDutyFactory(i)
    [] i.enabled /\ i.kind = "datadog" -> DatadogFactory(i)
    [] i.enabled /\ i.kind = "webhook" -> WebhookFactory(i)
    [] i.enabled /\ i.kind = "grafana" -> GrafanaFactory(i)
    [] i.enabled /\ i.kind = "sentry" -> SentryFactory(i)
    [] i.enabled /\ i.kind = "email" -> EmailFactory(i)
    [] i.enabled /\ i.kind = "mattermost" -> MattermostFactory(i)
    [] i.enabled /\ i.kind = "telegram" -> TelegramFactory(i)
    [] i.enabled /\ i.kind = "incidentio" -> IncidentIOFactory(i)
    [] i.enabled /\ i.kind = "newrelic" -> NewRelicFactory(i)
    [] i.enabled /\ i.kind = "opsgenie" -> OpsgenieFactory(i)
    [] i.enabled /\ i.kind = "honeycomb" -> HoneycombFactory(i)
    [] i.enabled /\ i.kind = "kafka" -> KafkaFactory(i)
    [] i.enabled /\ i.kind = "nats" -> NATSFactory(i)
    [] i.enabled /\ i.kind = "rabbitmq" -> RabbitMQFactory(i)
    [] i.enabled /\ i.kind = "redispubsub" -> RedisPubSubFactory(i)
    [] i.enabled /\ i.kind = "jira" -> JiraFactory(i)

\* BuildAll comes to the p-th instance of the file before the q-th: by kind,
\* then in the order of the file.
InBuildOrder(c, p, q) ==
  LET rank(k) == CHOOSE r \in DOMAIN BuildOrder : BuildOrder[r] = c.insts[k].kind
  IN  rank(p) < rank(q) \/ (rank(p) = rank(q) /\ p < q)

\* Registry.Lookup: the handlers of the name; the first of them is taken.
Lookup(reg, name) == {h \in reg : h.name = name}

\* BuildAccumulator: the provider is looked up among the handlers, by the
\* name the handler gives itself.
BuildAccumulator(acc, reg) ==
  When(acc.provider # "none" /\ Lookup(reg, acc.provider) = {}, {"provider"}) \cup CompileTemplate(acc, "template")

\* What an open goroutine or connection belongs to: a build and the position
\* of the instance.
Resource(b, p, what) == [build |-> b, pos |-> p, what |-> what]

\* A handler in a registry; the accumulator's has position 0.
Registered(h, b, p) == [name |-> h.name, dedupe |-> h.dedupe, build |-> b, pos |-> p]

Init ==
  /\ file \in First
  /\ edits = 0 /\ at = "off"
  /\ boot = NoConfig /\ live = NoConfig /\ next = NoConfig
  /\ todo = {} /\ made = {} /\ cur = {} /\ old = {} /\ open = {}
  /\ builds = 0 /\ failed = {} /\ why = {} /\ warned = {}

EditFile(c) ==
  /\ at \in {"off", "serve"} /\ c # file
  /\ file' = c
  /\ edits' = edits + 1
  /\ UNCHANGED <<at, boot, live, building, cur, old, open, builds, failed, why, warned>>

\* newApp, or reload by a signal or a file event.
Begin ==
  /\ builds < MaxBuilds /\ at \in {"off", "serve"}
  /\ at' = "load"
  /\ UNCHANGED <<file, edits, boot, live, building, cur, old, open, builds, failed, why, warned>>

Starting == boot = NoConfig

\* A start that fails ends the process; a reload that fails keeps what runs.
GiveUp == IF Starting THEN at' = "exited" /\ open' = {} ELSE at' = "serve" /\ open' = open

LoadFails ==
  /\ at = "load" /\ ~Accepts(file)
  /\ GiveUp
  /\ UNCHANGED <<file, edits, boot, live, building, cur, old, builds, failed, why, warned>>

LoadSucceeds ==
  /\ at = "load" /\ Accepts(file)
  /\ at' = "build"
  /\ next' = applyDefaults(file)
  /\ todo' = DOMAIN file.insts
  /\ made' = {}
  /\ builds' = builds + 1
  /\ UNCHANGED <<file, edits, boot, live, cur, old, open, failed, why, warned>>

\* One factory call and the registration of its handlers. An error is
\* returned at once; what this build opened stays open.
BuildInstance(p) ==
  /\ at = "build" /\ \A q \in todo \ {p} : InBuildOrder(next, p, q)
  /\ LET i == next.insts[p]
         b == Build(i)
         opened == open \cup {Resource(builds, p, w) : w \in b.opens}
     IN  IF b.err = {}
         THEN /\ made' = made \cup {Registered(h, builds, p) : h \in b.handlers}
              /\ todo' = todo \ {p}
              /\ open' = opened
              /\ UNCHANGED <<at, failed, why>>
         ELSE /\ IF Starting THEN at' = "exited" /\ open' = {} ELSE at' = "serve" /\ open' = opened
              /\ failed' = failed \cup {builds}
              /\ why' = why \cup {[inst |-> i, of |-> next]}
              /\ UNCHANGED <<todo, made>>
  /\ UNCHANGED <<file, edits, boot, live, next, cur, old, builds, warned>>

\* The accumulator comes last. No validator looks at it.
BuildLast ==
  /\ at = "build" /\ todo = {}
  /\ IF next.acc.enabled /\ BuildAccumulator(next.acc, made) # {}
     THEN GiveUp /\ failed' = failed \cup {builds} /\ made' = made
     ELSE /\ at' = "swap"
          /\ made' = IF next.acc.enabled
                     THEN made \cup {Registered([name |-> "accumulator", dedupe |-> FALSE], builds, 0)}
                     ELSE made
          /\ UNCHANGED <<open, failed>>
  /\ UNCHANGED <<file, edits, boot, live, next, todo, cur, old, builds, why, warned>>

\* newApp: the tracer, the store, the dead letter file or the auth secret
\* may be missing, which ends the process too.
Serve ==
  /\ at = "swap" /\ Starting
  /\ IF \E x \in {"logging", "tracing", "store", "dlq", "server.auth"} : Val(next, x) = "gone"
     THEN GiveUp /\ UNCHANGED <<boot, live, cur>>
     ELSE at' = "serve" /\ boot' = next /\ live' = next /\ cur' = made /\ open' = open
  /\ UNCHANGED <<file, edits, building, old, builds, failed, why, warned>>

\* The settings warnImmutableChanges compares, by section. It leaves out the
\* rest of server.auth, of store and of dlq, retry and dedupe_size.
Compared ==
  [server |-> {"server", "server.auth", "server.tls"},
   store |-> {"store"}, dlq |-> {"dlq"}, logging |-> {"logging"}, tracing |-> {"tracing"}]

\* Mutant: the dead letter queue's section is forgotten.
WarnWithoutDLQ(from, to) ==
  {s \in DOMAIN Compared \ {"dlq"} : \E x \in Compared[s] : Val(from, x) # Val(to, x)}
  \cup When(from.num.write_timeout # to.num.write_timeout, {"server"})

warnImmutableChanges(from, to) ==
  {s \in DOMAIN Compared : \E x \in Compared[s] : Val(from, x) # Val(to, x)}
  \cup When(from.num.write_timeout # to.num.write_timeout, {"server"})

\* reload compares with the configuration of the start, not the last one.
Swap ==
  /\ at = "swap" /\ ~Starting
  /\ warned' = warnImmutableChanges(boot, next)
  /\ old' = cur
  /\ cur' = made
  /\ live' = next
  /\ at' = "close"
  /\ UNCHANGED <<file, edits, boot, building, open, builds, failed, why>>

\* Mutant: the handlers of the new registry are closed.
CloseNew ==
  /\ at = "close"
  /\ open' = {r \in open : \A h \in cur : h.build # r.build \/ h.pos # r.pos}
  /\ old' = {}
  /\ at' = "serve"
  /\ UNCHANGED <<file, edits, boot, live, building, cur, builds, failed, why, warned>>

\* Close of every handler replaced.
CloseOld ==
  /\ at = "close"
  /\ open' = {r \in open : \A h \in old : h.build # r.build \/ h.pos # r.pos}
  /\ old' = {}
  /\ at' = "serve"
  /\ UNCHANGED <<file, edits, boot, live, building, cur, builds, failed, why, warned>>

Next ==
  \/ edits < Len(Files) /\ \E c \in Files[edits + 1] : EditFile(c)
  \/ Begin
  \/ LoadFails \/ LoadSucceeds
  \/ \E p \in todo : BuildInstance(p)
  \/ BuildLast
  \/ Serve \/ Swap \/ CloseOld

Spec == Init /\ [][Next]_vars

-----------------------------------------------------------------------------
(* Properties.                                                             *)

\* Handlers that give themselves a name of their provider, whatever the
\* instance is called.
FixedName ==
  {"slack", "teams", "discord", "mattermost", "pagerduty", "datadog", "webhook", "opsgenie",
   "newrelic", "honeycomb", "email", "jira", "azure-devops", "bitbucket-cloud", "bitbucket-server"}

InstanceName == {i.name : i \in UNION {Items(c.insts) : c \in Contents}}

Handler ==
  [name : FixedName \cup InstanceName \cup {"accumulator"}, dedupe : BOOLEAN, build : 1..MaxBuilds, pos : Nat]

WithinLimits(c) == c.num.max_concurrency \in 1..500 /\ c.num.dedupe_size <= 1000000

\* Every variable has its type; a registry holds only handlers of builds that
\* were made, and the configuration in use only numbers within Load's limits.
TypeOK ==
  /\ edits \in 0..Len(Files) /\ file \in (IF edits = 0 THEN First ELSE Files[edits])
  /\ at \in {"off", "load", "build", "swap", "close", "serve", "exited"}
  /\ builds \in 0..MaxBuilds /\ failed \subseteq 1..builds
  /\ todo \subseteq DOMAIN next.insts
  /\ \A h \in made \cup cur \cup old : h \in Handler /\ h.build <= builds
  /\ \A r \in open : r.build \in 1..builds /\ r.what \in {"flusher", "connection", "writer"}
  /\ warned \subseteq DOMAIN Compared
  /\ live # NoConfig => WithinLimits(live)

\* An instance as it would be if everything it names were there.
There(s) == [x \in DOMAIN s |-> IF s[x] = "gone" THEN "ok" ELSE s[x]]
MendedAction(a) == [a EXCEPT !.s = There(a.s)]
Mended(i) ==
  [i EXCEPT !.s = There(i.s), !.actions = [k \in DOMAIN i.actions |-> MendedAction(i.actions[k])]]

\* What neither Load nor the -validate command looks at, though the factory
\* refuses it: an oauth2 grant, an action's mode, two expressions, and the
\* condition of the types without GetWhen.
Unchecked ==
  {<<kind, "grant_type">> : kind \in {"gitlab", "gitea", "bitbucket"}}
  \cup {<<"pagerduty", "severity_expr">>, <<"sentry", "environment_expr">>, <<"sentry", "when">>,
        <<"grafana", "when">>, <<"grafana", "template">>, <<"grafana", "url">>,
        <<"telegram", "template">>, <<"discord", "webhook_url_file">>,
        <<"kafka", "topic">>, <<"kafka", "when">>}

\* What Load leaves to the struct tags, and the kinds it does not look at.
UncheckedByLoad ==
  {<<kind, "mode">> : kind \in validateSCM \ {"sourcehut"}} \cup {<<"email", "encryption">>}

Refused(i, gaps) == {x \in Build(Mended(i)).err : <<i.kind, x>> \notin gaps}

\* When BuildAll fails on a file that Load accepted, in newApp or in reload,
\* the reason is outside the file (a secret, a template file or a broker is
\* missing), a kind that validateNotifiers leaves out, or a setting that Load
\* does not look at and that is named above: for every other setting of
\* every kind, what passes the validator satisfies the factory. If the
\* -validate command said of the file that it is valid, the kinds that Load
\* leaves out and what it leaves to the struct tags are covered too.
AcceptedBuilds ==
  \A w \in why :
    /\ w.inst.kind \in KindsOfLoad => Refused(w.inst, Unchecked \cup UncheckedByLoad) = {}
    /\ runValidation(w.of) => Refused(w.inst, Unchecked) = {}

\* What an open goroutine or connection serves.
Owned(r, handlers) == \E h \in handlers : h.build = r.build /\ h.pos = r.pos

\* What the handlers of reg, built from c, have opened is open.
Backed(reg, c) ==
  \A h \in reg :
    h.pos # 0 => \A w \in Build(c.insts[h.pos]).opens : Resource(h.build, h.pos, w) \in open

\* A goroutine or connection is open only for a handler in use, for one that
\* reload is about to close, for the build in progress, or because its build
\* failed: BuildAll returns its first error without closing the handlers it
\* has already registered, and a factory returns WrapWithCEL's error without
\* closing the handler it was to wrap. And what the handlers in use have
\* opened is open.
OpenAccounted ==
  /\ \A r \in open :
       \/ r.build \in failed
       \/ Owned(r, cur \cup old)
       \/ at \in {"build", "swap"} /\ r.build = builds
  /\ Backed(cur, live)

\* The dedupe store keys an event by the handler's Name. Two handlers in use
\* that deduplicate and share a name, so that an event seen by one is dropped
\* by the other, belong to one instance, to kinds with a fixed name, to lists
\* of different kinds, or to a kind whose names Load does not compare.
KeyOfOne ==
  \A g, h \in cur :
    (g.pos # h.pos /\ g.dedupe /\ h.dedupe /\ g.name = h.name) =>
      \/ g.name \in FixedName
      \/ live.insts[g.pos].kind # live.insts[h.pos].kind
      \/ live.insts[g.pos].kind \notin KindsOfLoad

\* Settings newApp reads once, by the section a warning would name.
StartOnly ==
  [server |-> {"server", "server.auth", "server.auth.rest", "server.tls"}, store |-> {"store", "store.rest"},
   dlq |-> {"dlq", "dlq.rest"}, logging |-> {"logging"}, tracing |-> {"tracing"}, retry |-> {"retry"}]

\* Of these reload says nothing.
Silent == {"server.auth.rest", "store.rest", "dlq.rest", "retry"}

\* What runs against what a start on the last accepted file would run.
SameButWarned ==
  /\ \A s \in DOMAIN StartOnly : \A x \in StartOnly[s] \ Silent :
       Val(boot, x) # Val(live, x) => s \in warned
  /\ boot.num.write_timeout # live.num.write_timeout => "server" \in warned
  /\ \/ live.num.handler_timeout <= boot.num.write_timeout
     \/ live.num.handler_timeout < 0 \/ boot.num.write_timeout < 0
     \/ "server" \in warned

\* A process that has gone through any number of reloads, failed ones
\* included, differs from one started on its last accepted file only in
\* settings the last successful reload warned of, and in the ones
\* warnImmutableChanges leaves out: the server keeps the configuration it was
\* started with, and reload compares with that one. Load keeps
\* handler_timeout within write_timeout, so that the answer to an event is
\* written before the server gives the connection up; a reload takes only
\* the first of the two, and the pair that runs is in order all the same
\* unless the server section was warned of, or one of them means no limit.
AsRestarted == at = "serve" => SameButWarned

-----------------------------------------------------------------------------
(* The inductive strengthening of the properties.                          *)

\* A configuration that Load has returned, its defaults filled in.
Loaded(c) ==
  /\ IsConfig(c) /\ Validate(c) = {} /\ \A x \in DOMAIN c.num : c.num[x] # 0
  /\ \A i \in Items(c.insts) : i.name \in InstanceName

InBuild == at \in {"build", "swap"}

\* Nothing serves before the start has succeeded, and only a reload that is
\* closing has replaced handlers left.
Stages ==
  /\ at = "load" => builds < MaxBuilds
  /\ InBuild => Loaded(next) /\ builds > 0
  /\ Starting => cur = {} /\ live = NoConfig /\ at \notin {"serve", "close"}
  /\ ~Starting => Loaded(boot) /\ Loaded(live) /\ SameButWarned
  /\ at # "close" => old = {}

\* The handlers of reg are what the factories make of the instances of c.
MadeFrom(reg, c) ==
  \A h \in reg :
    IF h.pos = 0 THEN ~h.dedupe
    ELSE /\ h.pos \in DOMAIN c.insts
         /\ [name |-> h.name, dedupe |-> h.dedupe] \in Build(c.insts[h.pos]).handlers

\* A registry is of one build, later than the one it replaces, and what the
\* build in progress has opened belongs to handlers it has registered.
Registries ==
  /\ MadeFrom(cur, live)
  /\ InBuild => /\ MadeFrom(made, next) /\ Backed(made, next)
                /\ \A h \in made : h.build = builds
                /\ \A h \in cur : h.build < builds
                /\ \A r \in open : r.build = builds => Owned(r, made)
  /\ at = "close" => (\A h \in cur : h.build = builds) /\ (\A h \in old : h.build < builds)

IInv == TypeOK /\ Stages /\ Registries /\ AcceptedBuilds /\ OpenAccounted
=============================================================================
