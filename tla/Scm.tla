-------------------------------- MODULE Scm --------------------------------
(***************************************************************************)
(* internal/notifier/scm: the action handlers that report runs to GitHub,  *)
(* GitLab, Gitea, Bitbucket, Azure DevOps and SourceHut as comments,       *)
(* threads, incidents, deployments, check runs, commit statuses and        *)
(* labels. They keep no state of their own (but for GitHub's label cache): *)
(* what they did before they find out from the provider, in calls of which *)
(* each may fail, with or without having had its effect, and between which *)
(* other relays, other events and people act on the same page.             *)
(*                                                                         *)
(* A page is a pull request, issue or commit with the handlers that write  *)
(* to it. An event that an action's condition or filter denies, or that    *)
(* the handler skips (other provider, no PR number, no commit) or refuses  *)
(* at once (text too long), changes nothing and is left out. A key is what *)
(* a handler tells its items apart by: the run of a comment, thread or     *)
(* incident, the commit and environment or context of a deployment or      *)
(* status.                                                                 *)
(***************************************************************************)
EXTENDS Naturals, Sequences, FiniteSetsExt

CONSTANTS
  Keys,       \* runs, or commits with their context
  Workers,    \* goroutines of all relays that handle events of the page
  States,     \* the run states that occur, of AllStates
  Page,       \* how many comments a listing returns at most
  Names,      \* label names
  Add,        \* LabelSet.Render: the labels to add in each state,
  Remove,     \* and those to remove
  Coloured,   \* labels configured with a colour
  Long,       \* names over the provider's limit
  Existing,   \* labels the repository has at first
  LabelPage,  \* how many labels a listing returns at most
  MaxEvents,  \* bound on the events handled
  MaxFaults   \* bound on failing calls and on what people do to the page

AllStates == {"pending", "running", "success", "failure", "error", "canceled"}

ASSUME ScmAssumption ==
  /\ Keys # {} /\ States \subseteq AllStates
  /\ Page \in Nat \ {0} /\ LabelPage \in Nat
  /\ Add \in [States -> SUBSET Names] /\ Remove \in [States -> SUBSET Names]
  /\ Coloured \subseteq Names /\ Long \subseteq Names /\ Existing \subseteq Names
  /\ MaxEvents \in Nat /\ MaxFaults \in Nat

-----------------------------------------------------------------------------
(* What a state is called at each provider.                                *)

githubStateMap ==
  [pending |-> "pending", running |-> "pending", success |-> "success",
   failure |-> "failure", error |-> "error", canceled |-> "error"]

checkRunState ==
  [pending |-> "queued", running |-> "in_progress", success |-> "success",
   failure |-> "failure", error |-> "failure", canceled |-> "cancelled"]

githubDeploymentState ==
  [pending |-> "queued", running |-> "in_progress", success |-> "success",
   failure |-> "failure", error |-> "error", canceled |-> "inactive"]

mapStateToGitLab ==
  [pending |-> "pending", running |-> "running", success |-> "success",
   failure |-> "failed", error |-> "failed", canceled |-> "canceled"]

\* GitLab's deployments know no pending: the handler skips the event.
deploymentStatus ==
  [running |-> "running", success |-> "success", failure |-> "failed",
   error |-> "failed", canceled |-> "canceled"]

giteaStateMap ==
  [pending |-> "pending", running |-> "pending", success |-> "success",
   failure |-> "failure", error |-> "error", canceled |-> "error"]

bitbucketCloudStateMap ==
  [pending |-> "INPROGRESS", running |-> "INPROGRESS", success |-> "SUCCESSFUL",
   failure |-> "FAILED", error |-> "FAILED", canceled |-> "STOPPED"]

bitbucketServerStateMap ==
  [pending |-> "INPROGRESS", running |-> "INPROGRESS", success |-> "SUCCESSFUL",
   failure |-> "FAILED", error |-> "FAILED", canceled |-> "FAILED"]

azureStateMap ==
  [pending |-> "pending", running |-> "pending", success |-> "succeeded",
   failure |-> "failed", error |-> "error", canceled |-> "error"]

sourcehutStateMap ==
  [pending |-> "pending", running |-> "running", success |-> "success",
   failure |-> "failed", error |-> "failed", canceled |-> "cancelled"]

\* The text of a comment is known by the state of the event it was rendered
\* from.
Rendered == [s \in AllStates |-> s]

\* Incidents are opened by two states and closed by one; others are skipped.
incidentState == [failure |-> "failure", error |-> "error", success |-> "success"]

-----------------------------------------------------------------------------
(* The handlers. does: the way the handler finds its item. cut: is its     *)
(* listing one page? again: does its client repeat a call that failed?     *)
(* words: what it shows for the states it acts on.                         *)

Handler(action, does, cut, again, words) ==
  [action |-> action, does |-> does, cut |-> cut, again |-> again, words |-> words]

\* BaseClient.Do, behind the Bitbucket and SourceHut handlers, repeats POSTs
\* too; so does the GitLab SDK.
DoWithRetryPolicy == TRUE
NoRetry == FALSE

\* Mode of a comment handler: create is the default.
NormalizeMode(mode) == IF mode = "upsert" THEN "upsert" ELSE "create"

GitHubPRComment(mode) == Handler("pr_comment", NormalizeMode(mode), TRUE, NoRetry, Rendered)
GitHubIssueComment(mode) == Handler("issue_comment", NormalizeMode(mode), TRUE, NoRetry, Rendered)
GitHubCommitComment == Handler("commit_comment", "create", TRUE, NoRetry, Rendered)
\* The discussion's node ID is looked up first.
GitHubDiscussionComment == Handler("discussion_comment", "lookup", TRUE, NoRetry, Rendered)
GitHubCheckRun == Handler("check_run", "create", TRUE, NoRetry, checkRunState)
GitHubDeployment == Handler("deployment_status", "deploy", TRUE, NoRetry, githubDeploymentState)
GitHubStatus == Handler("commit_status", "put", TRUE, NoRetry, githubStateMap)

GitLabMRComment(mode) ==
  Handler("pr_comment", NormalizeMode(mode), TRUE, DoWithRetryPolicy, Rendered)
GitLabIssueComment(mode) ==
  Handler("issue_comment", NormalizeMode(mode), TRUE, DoWithRetryPolicy, Rendered)
GitLabCommitComment(mode) ==
  Handler("commit_comment", NormalizeMode(mode), TRUE, DoWithRetryPolicy, Rendered)
GitLabDiscussion == Handler("discussion_comment", "thread", TRUE, DoWithRetryPolicy, Rendered)
GitLabIncident == Handler("incident_create", "incident", FALSE, DoWithRetryPolicy, incidentState)
GitLabDeployment ==
  Handler("deployment_status", "create", TRUE, DoWithRetryPolicy, deploymentStatus)
GitLabStatus == Handler("commit_status", "put", TRUE, DoWithRetryPolicy, mapStateToGitLab)

GiteaPRComment(mode) == Handler("pr_comment", NormalizeMode(mode), TRUE, NoRetry, Rendered)
GiteaIssueComment(mode) == Handler("issue_comment", NormalizeMode(mode), TRUE, NoRetry, Rendered)
GiteaStatus == Handler("commit_status", "put", TRUE, NoRetry, giteaStateMap)

CloudComment(mode) ==
  Handler("pr_comment", NormalizeMode(mode), TRUE, DoWithRetryPolicy, Rendered)
CloudStatus == Handler("commit_status", "put", TRUE, DoWithRetryPolicy, bitbucketCloudStateMap)
\* Bitbucket Server's comments know no upsert.
ServerComment == Handler("pr_comment", "create", TRUE, DoWithRetryPolicy, Rendered)
ServerStatus == Handler("commit_status", "put", TRUE, DoWithRetryPolicy, bitbucketServerStateMap)

\* GetThreads returns all threads of the pull request.
AzureComment(mode) == Handler("pr_comment", NormalizeMode(mode), FALSE, NoRetry, Rendered)
AzureStatus == Handler("commit_status", "put", TRUE, NoRetry, azureStateMap)

\* A build job per event stands for the status; its log has the word.
SourceHutStatus == Handler("commit_status", "create", TRUE, DoWithRetryPolicy, sourcehutStateMap)

\* Label handlers differ in what they do first, in what a failed removal
\* means, in which labels they make in the repository, and in how many calls
\* attach them.
LabelHandler(first, removes, makes, attaches, again) ==
  [action |-> "label", does |-> first, removes |-> removes, makes |-> makes,
   attaches |-> attaches, again |-> again, words |-> Rendered]

GitHubLabel == LabelHandler("remove", "strict", "coloured", "once", NoRetry)
GitLabLabel == LabelHandler("labels", "with add", "missing", "once", DoWithRetryPolicy)
GiteaLabel == LabelHandler("labels", "lenient", "missing", "once", NoRetry)
AzureLabel == LabelHandler("remove", "lenient", "none", "each", NoRetry)

Modes == {"", "create", "upsert"}

\* The pages of the model: each with one handler, or with two that must not
\* mistake each other's comments for their own.
Pages ==
  {{f} : f \in UNION {{GitHubPRComment(m), GitHubIssueComment(m), GitLabMRComment(m),
                       GitLabIssueComment(m), GitLabCommitComment(m), GiteaPRComment(m),
                       GiteaIssueComment(m), CloudComment(m), AzureComment(m)} : m \in Modes}}
  \cup {{f} : f \in {GitHubCommitComment, GitHubDiscussionComment, GitHubCheckRun,
                     GitHubDeployment, GitHubStatus, GitLabDiscussion, GitLabIncident,
                     GitLabDeployment, GitLabStatus, GiteaStatus, CloudStatus,
                     ServerComment, ServerStatus, AzureStatus, SourceHutStatus,
                     GitHubLabel, GitLabLabel, GiteaLabel, AzureLabel}}
  \cup {{GitHubPRComment("upsert"), GitHubIssueComment("upsert")},
        {GitLabMRComment("upsert"), GitLabDiscussion}}

-----------------------------------------------------------------------------
VARIABLES
  on,       \* the handlers configured for the page
  items,    \* what the page shows, oldest first
  labels,   \* the labels on the issue or pull request
  repo,     \* the repository's labels: "absent", "plain" or "coloured"
  cache,    \* labelCache: labels GitHub's handler need not look up again
  work,     \* the Handle call each worker is in
  latest,   \* for the properties: the state last reported, if nothing since
  excused,  \* for the properties: where a second item has an explanation
  events, faults

vars == <<on, items, labels, repo, cache, work, latest, excused, events, faults>>

Item(by, key, shows) ==
  [by |-> by, key |-> key, shows |-> shows, open |-> TRUE, live |-> TRUE]

Idle == [at |-> "idle"]

\* Labels belong to the page, whatever the run.
PageKey == CHOOSE k \in Keys : TRUE
Slots == {h.action : h \in on} \X Keys
Slot(w) == <<work[w].h.action, work[w].key>>

Init ==
  /\ on \in Pages
  /\ items = <<>>
  /\ labels = Existing
  /\ repo = [n \in Names |-> IF n \in Existing THEN "plain" ELSE "absent"]
  /\ cache = {}
  /\ work = [w \in Workers |-> Idle]
  /\ latest = [s \in Slots |-> "none"]
  /\ excused = {}
  /\ events = 0 /\ faults = 0

-----------------------------------------------------------------------------
(* How a call moves on.                                                    *)

At(w, step) == work[w].at = step
Goto(w, step) == work' = [work EXCEPT ![w].at = step] /\ UNCHANGED latest

\* The call goes on with item i, with a loop over names.
With(w, step, i) == work' = [work EXCEPT ![w].at = step, ![w].found = i] /\ UNCHANGED latest
Todo(w, step, names) == work' = [work EXCEPT ![w].at = step, ![w].todo = names] /\ UNCHANGED latest

\* Handle returns nil: what it reports stands unless another call of the same
\* slot ran meanwhile or something was given up on the way.
Return(w) ==
  /\ work' = [work EXCEPT ![w] = Idle]
  /\ latest' = IF work[w].ran = "alone" THEN [latest EXCEPT ![Slot(w)] = work[w].state] ELSE latest

\* Handle returns an error, or its relay is killed.
Fail(w) ==
  /\ work' = [work EXCEPT ![w] = Idle]
  /\ UNCHANGED latest

Fault == faults < MaxFaults /\ faults' = faults + 1

\* A call that failed is an error of the handler, unless the client repeats it.
Refused(w) == Fault /\ (Fail(w) \/ (work[w].h.again /\ UNCHANGED <<work, latest>>))

\* Nothing is claimed of what a call reports that had a rival, lost its item
\* or gave something up.
Disturbed(w) == [work[w] EXCEPT !.ran = "disturbed"]

Excuse(w) == excused' = excused \cup {Slot(w)}

FirstStep(h) ==
  CASE h.does \in {"create", "deploy"} -> "create"
    [] h.does \in {"upsert", "thread", "incident"} -> "list"
    [] OTHER -> h.does

\* Handle is entered for an event it acts on. A call of the same slot that is
\* already running makes both of them rivals.
Start(w, h, k, s) ==
  LET rivals == {v \in Workers : ~At(v, "idle") /\ Slot(v) = <<h.action, k>>}
      call == [at |-> FirstStep(h), h |-> h, key |-> k, state |-> s,
               ran |-> IF rivals = {} THEN "alone" ELSE "disturbed",
               found |-> 0, known |-> {}, label |-> "",
               todo |-> IF FirstStep(h) = "remove" THEN Remove[s] ELSE {}]
  IN  /\ At(w, "idle") /\ events < MaxEvents
      /\ h.action = "label" => k = PageKey
      /\ work' = [v \in Workers |-> IF v = w THEN call
                                    ELSE IF v \in rivals THEN Disturbed(v)
                                    ELSE work[v]]
      /\ latest' = [latest EXCEPT ![<<h.action, k>>] = "none"]
      /\ excused' = IF rivals = {} THEN excused ELSE excused \cup {<<h.action, k>>}
      /\ events' = events + 1
      /\ UNCHANGED <<on, items, labels, repo, cache, faults>>

-----------------------------------------------------------------------------
(* Comments, threads, incidents, deployments and statuses.                 *)

Live == {i \in DOMAIN items : items[i].live}

\* Marker(runID, action): the hidden text an item of this call carries. The
\* label of an incident and the context of a status do the same.
HasMarker(w, i) == items[i].by = work[w].h.action /\ items[i].key = work[w].key

\* Only open incidents are asked for.
Marked(w) ==
  {i \in Live : HasMarker(w, i) /\ (work[w].h.does = "incident" => items[i].open)}

\* What a listing returns: everything, or one page of the oldest or newest.
Listing(w, newest) ==
  {i \in Live : \/ ~work[w].h.cut
                \/ Cardinality({j \in Live : IF newest THEN j >= i ELSE j <= i}) <= Page}

\* resolveDiscussionNodeID
Lookup(w) ==
  /\ At(w, "lookup")
  /\ \/ Goto(w, "create") /\ UNCHANGED faults
     \/ Refused(w)
  /\ UNCHANGED <<on, items, labels, repo, cache, excused, events>>

\* Mutant: an event other than success opens a thread or an incident anew.
DecideOpens(w, i) ==
  CASE work[w].h.does = "upsert" -> With(w, IF i = 0 THEN "create" ELSE "edit", i)
    [] work[w].h.does # "upsert" /\ work[w].state # "success" -> With(w, "create", i)
    [] work[w].h.does # "upsert" /\ work[w].state = "success" ->
         IF i # 0 THEN With(w, "settle", i)
         ELSE IF work[w].h.does = "thread" THEN With(w, "create", i) ELSE Return(w)

\* What the handler does about the item i it found (0: none).
Decide(w, i) ==
  LET s == work[w].state
  IN  CASE work[w].h.does = "upsert"   -> With(w, IF i = 0 THEN "create" ELSE "edit", i)
        [] work[w].h.does = "thread"   -> IF i = 0 THEN With(w, "create", i)
                                          ELSE IF s = "success" THEN With(w, "settle", i)
                                          ELSE Return(w)
        [] work[w].h.does = "incident" -> IF s = "success" /\ i # 0 THEN With(w, "settle", i)
                                          ELSE IF s # "success" /\ i = 0 THEN With(w, "create", i)
                                          ELSE Return(w)

\* findMarkedComment, findDiscussion, findIncidentsByLabel. Comments and
\* threads are created when the listing fails; an incident is not.
List(w) ==
  /\ At(w, "list")
  /\ \/ \E newest \in BOOLEAN :
          LET m == Marked(w) \cap Listing(w, newest)
          IN  /\ Decide(w, IF m = {} THEN 0 ELSE IF newest THEN Max(m) ELSE Min(m))
              /\ IF m = {} /\ Marked(w) # {} THEN Excuse(w) ELSE UNCHANGED excused
              /\ UNCHANGED faults
     \/ /\ work[w].h.does # "incident"
        /\ Fault /\ Decide(w, 0) /\ Excuse(w)
     \/ /\ work[w].h.does = "incident"
        /\ Refused(w) /\ UNCHANGED excused
  /\ UNCHANGED <<on, items, labels, repo, cache, events>>

\* Mutant: the relay's own name of the state goes out.
ShowsRaw(w) == work[w].state

Shows(w) == work[w].h.words[work[w].state]

\* A deployment shows a state once it is given one.
Created(w) ==
  Item(work[w].h.action, work[w].key, IF work[w].h.does = "deploy" THEN "none" ELSE Shows(w))

\* Mutant: the thread created for a success is left open, the deployment
\* without a status.
AfterCreateReturns(w, i) == Return(w)

\* What follows the creation of item i.
AfterCreate(w, i) ==
  CASE work[w].h.does = "thread" /\ work[w].state = "success" -> With(w, "settle", i)
    [] work[w].h.does = "deploy" -> With(w, "status", i)
    [] OTHER -> Return(w)

\* The POST. It may fail before or after it had its effect; a client that
\* then repeats it makes a second item. (An incident refused as such is
\* tried once more as an issue: that too is the repetition.)
Create(w) ==
  /\ At(w, "create")
  /\ \/ /\ items' = Append(items, Created(w))
        /\ AfterCreate(w, Len(items) + 1)
        /\ UNCHANGED <<excused, faults>>
     \/ Refused(w) /\ UNCHANGED <<items, excused>>
     \/ /\ Refused(w)
        /\ items' = Append(items, Created(w))
        /\ IF work[w].h.again THEN Excuse(w) ELSE UNCHANGED excused
  /\ UNCHANGED <<on, labels, repo, cache, events>>

\* GitHub answers that there is such a deployment: the newest is looked up.
FindExistingDeployment(w) ==
  /\ At(w, "create") /\ work[w].h.does = "deploy"
  /\ \/ Marked(w) # {} /\ With(w, "status", Max(Marked(w))) /\ UNCHANGED faults
     \/ Marked(w) = {} /\ Fail(w) /\ UNCHANGED faults
     \/ Refused(w)
  /\ UNCHANGED <<on, items, labels, repo, cache, excused, events>>

\* Mutant: every thread of the relay is resolved, whichever run it is about.
UpdateResolvesAll(w) ==
  LET resolve == At(w, "settle") /\ work[w].h.does = "thread"
      i == work[w].found
  IN  /\ work[w].at \in {"edit", "status", "settle"} /\ items[i].live
      /\ items' = [j \in DOMAIN items |->
                     IF resolve /\ items[j].by = work[w].h.action THEN [items[j] EXCEPT !.open = FALSE]
                     ELSE IF j # i THEN items[j]
                     ELSE IF At(w, "settle") THEN [items[j] EXCEPT !.open = FALSE]
                     ELSE [items[j] EXCEPT !.shows = Shows(w)]]
      /\ Return(w)
      /\ UNCHANGED <<on, labels, repo, cache, excused, events, faults>>

\* The PUT or PATCH on the item found or created: the new body (edit), the
\* deployment's status (status), or the thread resolved or the incident
\* closed (settle). It fails on an item that is gone.
Update(w) ==
  LET i == work[w].found
      new == IF At(w, "settle") THEN [items[i] EXCEPT !.open = FALSE]
                                ELSE [items[i] EXCEPT !.shows = Shows(w)]
  IN  /\ work[w].at \in {"edit", "status", "settle"}
      /\ \/ items[i].live /\ items' = [items EXCEPT ![i] = new] /\ Return(w) /\ UNCHANGED faults
         \/ ~items[i].live /\ Fail(w) /\ UNCHANGED <<items, faults>>
         \/ Refused(w) /\ UNCHANGED items
         \/ items[i].live /\ items' = [items EXCEPT ![i] = new] /\ Refused(w)
      /\ UNCHANGED <<on, labels, repo, cache, excused, events>>

\* A commit status replaces the one of the same commit and context.
Put(w) ==
  LET put == items' = IF Marked(w) = {} THEN Append(items, Created(w))
                      ELSE [items EXCEPT ![Max(Marked(w))].shows = Shows(w)]
  IN  /\ At(w, "put")
      /\ \/ put /\ Return(w) /\ UNCHANGED faults
         \/ Refused(w) /\ UNCHANGED items
         \/ put /\ Refused(w)
      /\ UNCHANGED <<on, labels, repo, cache, excused, events>>

-----------------------------------------------------------------------------
(* Labels.                                                                 *)

\* The step after a loop over labels has ended. GitLab goes through attach
\* even if there is nothing to add; Azure makes no labels.
Turn(w) ==
  LET h == work[w].h
      add == Add[work[w].state]
  IN  /\ work[w].at \in {"remove", "make", "each"} /\ work[w].todo = {}
      /\ IF At(w, "remove") /\ add # {}
         THEN Todo(w, IF h.makes = "none" THEN "each" ELSE "make", add)
         ELSE IF At(w, "make") THEN Todo(w, "attach", {})
         ELSE Return(w)
      /\ UNCHANGED <<on, items, labels, repo, cache, excused, events, faults>>

\* GitLab and Gitea list the repository's labels, one page of them, GitLab
\* only if it is to add some and after it validated all names.
ListLabels(w) ==
  LET s == work[w].state
      valid == (Add[s] \cup Remove[s]) \cap Long = {}
      there == {n \in Names : repo[n] # "absent"}
      gitlab == work[w].h.removes = "with add"
  IN  /\ At(w, "labels")
      /\ \/ gitlab /\ ~valid /\ Fail(w) /\ UNCHANGED faults
         \/ gitlab /\ valid /\ Add[s] = {} /\ Todo(w, "attach", {}) /\ UNCHANGED faults
         \/ /\ gitlab => Add[s] # {} /\ valid
            /\ \E known \in kSubset(Min({LabelPage, Cardinality(there)}), there) :
                 work' = [work EXCEPT ![w].at = IF gitlab THEN "make" ELSE "remove",
                                      ![w].todo = IF gitlab THEN Add[s] ELSE Remove[s],
                                      ![w].known = known,
                                      ![w].ran = IF known = there THEN work[w].ran
                                                  ELSE "disturbed"]
            /\ UNCHANGED <<latest, faults>>
         \/ (gitlab => Add[s] # {} /\ valid) /\ Refused(w)
      /\ UNCHANGED <<on, items, labels, repo, cache, excused, events>>

\* The removal of one label. GitHub's handler stops at an error, the others
\* go on; Gitea's skips a label it did not see in the listing.
RemoveLabel(w, n) ==
  LET h == work[w].h
  IN  /\ At(w, "remove") /\ n \in work[w].todo
      /\ \/ n \in Long /\ Fail(w) /\ UNCHANGED <<labels, faults>>
         \/ /\ n \notin Long
            /\ labels' = IF h.makes = "missing" /\ n \notin work[w].known THEN labels
                         ELSE labels \ {n}
            /\ Todo(w, "remove", work[w].todo \ {n}) /\ UNCHANGED faults
         \/ /\ n \notin Long /\ Fault
            /\ labels' \in {labels, labels \ {n}}
            /\ IF h.removes = "strict" THEN Fail(w)
               ELSE /\ work' = [work EXCEPT ![w].todo = work[w].todo \ {n}, ![w].ran = "disturbed"]
                    /\ UNCHANGED latest
      /\ UNCHANGED <<on, items, repo, cache, excused, events>>

\* ensureLabelExists of GitHub looks up each coloured label that is not in
\* its cache, and corrects its colour; GitLab and Gitea go by the listing.
MakeLabel(w, n) ==
  LET h == work[w].h
      next == Todo(w, "make", work[w].todo \ {n})
      skip == IF h.makes = "coloured" THEN n \notin Coloured \/ n \in cache
              ELSE n \in work[w].known
  IN  /\ At(w, "make") /\ n \in work[w].todo
      /\ \/ n \in Long /\ Fail(w) /\ UNCHANGED <<repo, cache, faults>>
         \/ n \notin Long /\ skip /\ next /\ UNCHANGED <<repo, cache, faults>>
         \/ /\ n \notin Long /\ ~skip
            /\ IF h.makes = "coloured" /\ repo[n] # "absent"
               THEN /\ repo' = [repo EXCEPT ![n] = "coloured"]
                    /\ cache' = cache \cup {n}
                    /\ next
               ELSE /\ work' = [work EXCEPT ![w].at = "new", ![w].label = n]
                    /\ UNCHANGED <<repo, cache, latest>>
            /\ UNCHANGED faults
         \/ /\ n \notin Long /\ ~skip /\ h.makes = "coloured"
            /\ Refused(w) /\ UNCHANGED <<repo, cache>>
      /\ UNCHANGED <<on, items, labels, excused, events>>

\* CreateLabel. A name that exists by now is refused; Gitea accepts it.
NewLabel(w) ==
  LET n == work[w].label
      made == repo' = [repo EXCEPT ![n] = IF repo[n] # "absent" THEN repo[n]
                                          ELSE IF n \in Coloured THEN "coloured" ELSE "plain"]
  IN  /\ At(w, "new")
      /\ \/ /\ repo[n] = "absent" \/ work[w].h = GiteaLabel
            /\ made
            /\ cache' = IF work[w].h.makes = "coloured" THEN cache \cup {n} ELSE cache
            /\ Todo(w, "make", work[w].todo \ {n}) /\ UNCHANGED faults
         \/ /\ repo[n] # "absent" /\ work[w].h # GiteaLabel
            /\ Fail(w) /\ UNCHANGED <<repo, cache, faults>>
         \/ (made \/ UNCHANGED repo) /\ Refused(w) /\ UNCHANGED cache
      /\ UNCHANGED <<on, items, labels, excused, events>>

\* Mutant: removal after addition.
AttachThenRemove(w) ==
  /\ At(w, "attach")
  /\ labels' = (labels \cup Add[work[w].state]) \ Remove[work[w].state]
  /\ Return(w)
  /\ UNCHANGED <<on, items, repo, cache, excused, events, faults>>

\* The call that adds all labels, in GitLab's case removing others at once;
\* which of the two wins for a label in both lists is GitLab's to say. A
\* label that the repository lacks is made, without a colour.
Attach(w) ==
  LET add == Add[work[w].state]
      remove == IF work[w].h.removes = "with add" THEN Remove[work[w].state] ELSE {}
      attached == /\ labels' \in {(labels \ remove) \cup add, (labels \cup add) \ remove}
                  /\ repo' = [n \in Names |-> IF n \in add /\ repo[n] = "absent" THEN "plain"
                                              ELSE repo[n]]
  IN  /\ At(w, "attach")
      /\ \/ attached /\ Return(w) /\ UNCHANGED faults
         \/ (attached \/ UNCHANGED <<labels, repo>>) /\ Refused(w)
      /\ UNCHANGED <<on, items, cache, excused, events>>

\* Azure adds label by label.
AttachEach(w, n) ==
  /\ At(w, "each") /\ n \in work[w].todo
  /\ \/ n \in Long /\ Fail(w) /\ UNCHANGED <<labels, faults>>
     \/ /\ n \notin Long
        /\ labels' = labels \cup {n}
        /\ Todo(w, "each", work[w].todo \ {n}) /\ UNCHANGED faults
     \/ n \notin Long /\ labels' \in {labels, labels \cup {n}} /\ Refused(w)
  /\ UNCHANGED <<on, items, repo, cache, excused, events>>

-----------------------------------------------------------------------------
(* What people do to the page meanwhile.                                   *)

Comments ==
  /\ Fault
  /\ items' = Append(items, Item("person", PageKey, "none"))
  /\ UNCHANGED <<on, labels, repo, cache, work, latest, excused, events>>

Deletes(i) ==
  LET slot == <<items[i].by, items[i].key>>
  IN  /\ Fault /\ items[i].live
      /\ items' = [items EXCEPT ![i].live = FALSE]
      /\ latest' = IF slot \in Slots THEN [latest EXCEPT ![slot] = "none"] ELSE latest
      /\ work' = [w \in Workers |-> IF ~At(w, "idle") /\ Slot(w) = slot
                                    THEN Disturbed(w) ELSE work[w]]
      /\ UNCHANGED <<on, labels, repo, cache, excused, events>>

Next ==
  \/ \E w \in Workers :
       \/ \E h \in on, k \in Keys : \E s \in States \cap DOMAIN h.words : Start(w, h, k, s)
       \/ Lookup(w) \/ List(w) \/ Create(w) \/ FindExistingDeployment(w) \/ Update(w) \/ Put(w)
       \/ ListLabels(w) \/ Turn(w) \/ NewLabel(w) \/ Attach(w)
       \/ \E n \in Names : RemoveLabel(w, n) \/ MakeLabel(w, n) \/ AttachEach(w, n)
  \/ Comments
  \/ \E i \in DOMAIN items : Deletes(i)

Spec == Init /\ [][Next]_vars

-----------------------------------------------------------------------------
(* Properties.                                                             *)

\* What each word tells a reader.
Verdict(word) ==
  CASE word \in {"success", "SUCCESSFUL", "succeeded"} -> "good"
    [] word \in {"failure", "error", "failed", "FAILED", "STOPPED", "canceled", "cancelled",
                 "inactive"} -> "bad"
    [] OTHER -> "unfinished"

Words == UNION {{h.words[s] : s \in DOMAIN h.words} : h \in on}
Shown ==
  [by : {h.action : h \in on} \cup {"person"}, key : Keys, shows : Words \cup {"none"},
   open : BOOLEAN, live : BOOLEAN]

\* The steps of a handler that finds its item, or begins with its labels, in
\* each of the ways.
Procedure ==
  [create |-> {"create"}, lookup |-> {"lookup", "create"}, deploy |-> {"create", "status"},
   upsert |-> {"list", "create", "edit"}, thread |-> {"list", "create", "settle"},
   incident |-> {"list", "create", "settle"}, put |-> {"put"},
   remove |-> {"remove", "make", "new", "attach", "each"},
   labels |-> {"labels", "remove", "make", "new", "attach"}]

Calls ==
  [at : UNION {Procedure[does] : does \in DOMAIN Procedure}, h : on, key : Keys, state : States,
   ran : {"alone", "disturbed"}, found : Nat, known : SUBSET Names, label : Names \cup {""},
   todo : SUBSET Names]

IsCall(c) ==
  /\ c \in Calls /\ c.at \in Procedure[c.h.does] /\ c.state \in DOMAIN c.h.words
  /\ c.at \in {"edit", "status", "settle"} => c.found \in DOMAIN items
  /\ c.at = "new" => c.label \in Names
  /\ c.h.action = "label" => c.key = PageKey

IsItem(item) ==
  item.by # "person" =>
    \E h \in on : /\ h.action = item.by
                  /\ item.shows \in {h.words[s] : s \in DOMAIN h.words} \cup {"none"}

\* The state is well formed: a call is at a step of its handler's procedure,
\* an item was found where one exists, and what an item shows is a word its
\* handler's provider knows, never the relay's own name of the state.
TypeOK ==
  /\ on \in Pages
  /\ items \in Seq(Shown) /\ \A i \in DOMAIN items : IsItem(items[i])
  /\ labels \subseteq Names /\ cache \subseteq Names
  /\ repo \in [Names -> {"absent", "plain", "coloured"}]
  /\ work \in [Workers -> Calls \cup {Idle}] /\ \A w \in Workers : ~At(w, "idle") => IsCall(work[w])
  /\ latest \in [Slots -> AllStates \cup {"none"}]
  /\ excused \subseteq Slots
  /\ events \in Nat /\ faults \in Nat

ItemsOf(slot) == {i \in Live : items[i].by = slot[1] /\ items[i].key = slot[2]}
HandlerOf(slot) == CHOOSE h \in on : h.action = slot[1]

\* upsert.go: comments are "idempotent across retries, restarts and multiple
\* replicas". A run has more than one comment, thread or open incident on a
\* page only where that has an explanation: two calls for it overlapped, the
\* listing failed or did not reach the first item, or a client repeated a
\* POST that had its effect. A failed call followed by a new event, a relay
\* that dies between its calls or another run's items are none.
DuplicatesExplained ==
  \A slot \in Slots \ excused :
    CASE HandlerOf(slot).does \in {"upsert", "thread"} -> Cardinality(ItemsOf(slot)) <= 1
      [] HandlerOf(slot).does = "incident" ->
           Cardinality({i \in ItemsOf(slot) : items[i].open}) <= 1
      [] OTHER -> TRUE

\* Once Handle has returned nil without rivals, and until the next event, the
\* page tells what it was given: some comment, check, deployment or status of
\* the run or commit has the verdict of that state; a thread exists and is
\* resolved after success; an incident is open after a failure, and after
\* success none is, unless there were two.
Reflected ==
  \A slot \in Slots :
    LET s == latest[slot]
        its == ItemsOf(slot)
    IN  (s # "none" /\ slot[1] # "label") =>
          CASE HandlerOf(slot).does = "thread" ->
                 \E i \in its : s = "success" => ~items[i].open
            [] HandlerOf(slot).does = "incident" ->
                 IF s = "success" THEN slot \in excused \/ \A i \in its : ~items[i].open
                 ELSE \E i \in its : items[i].open
            [] OTHER -> \E i \in its : Verdict(items[i].shows) = Verdict(s)

\* A handler changes no item but those of its own action and run or commit,
\* and takes none away: another handler's comments, another run's and
\* people's stay as they are, whichever item a listing brings up, and what
\* disappears from the page has been deleted by a person.
OwnItemsOnly ==
  [][\A i \in DOMAIN items :
       items'[i] # items[i] =>
         \/ Deletes(i)
         \/ /\ items'[i].live = items[i].live
            /\ \E w \in Workers :
                 ~At(w, "idle") /\ Slot(w) = <<items[i].by, items[i].key>>]_vars

\* labels.go: "removal runs before addition so overlapping names converge".
\* After a label call that went through, whatever earlier calls left half
\* done, the issue has every label to add, none of those to remove but the
\* ones it is also to add (of these GitLab decides), and all labels that no
\* list names.
LabelsConverge ==
  \A slot \in Slots :
    LET s == latest[slot]
    IN  (slot[1] = "label" /\ s # "none") =>
          /\ Add[s] \ Remove[s] \subseteq labels
          /\ (Remove[s] \ Add[s]) \cap labels = {}
          /\ HandlerOf(slot) # GitLabLabel => Add[s] \subseteq labels
          /\ Existing \ (UNION {Remove[t] : t \in States}) \subseteq labels

-----------------------------------------------------------------------------
(* The inductive strengthening of the properties.                          *)

Active(w) == ~At(w, "idle")

\* Calls that overlap on a slot are disturbed and excuse it, and while one
\* runs nothing is reported of its slot.
Rivals ==
  \A w \in Workers : Active(w) =>
    /\ latest[Slot(w)] = "none"
    /\ \A v \in Workers \ {w} :
         Active(v) /\ Slot(v) = Slot(w) => work[w].ran = "disturbed" /\ Slot(w) \in excused

\* The item a call has found or made is one of its slot. An incident is
\* created for a failure; what is resolved or closed is so for a success.
Found ==
  \A w \in Workers :
    /\ work[w].at \in {"edit", "status", "settle"} => HasMarker(w, work[w].found)
    /\ At(w, "settle") => work[w].state = "success"
    /\ (At(w, "create") /\ work[w].h.does = "incident") => work[w].state # "success"

\* One item, or one open incident, in each slot that is not excused.
OneIn(slot) ==
  \A i, j \in ItemsOf(slot) :
    \/ i = j
    \/ HandlerOf(slot).does \notin {"upsert", "thread", "incident"}
    \/ HandlerOf(slot).does = "incident" /\ ~(items[i].open /\ items[j].open)

AtMostOne == \A slot \in Slots \ excused : OneIn(slot)

\* A call is about to create an item only where there is none, and closes
\* the only incident that is open.
VacantFor(w) ==
  /\ (At(w, "create") /\ work[w].h.does \in {"upsert", "thread"}) => ItemsOf(Slot(w)) = {}
  /\ (At(w, "create") /\ work[w].h.does = "incident") =>
       \A i \in ItemsOf(Slot(w)) : ~items[i].open
  /\ (At(w, "settle") /\ work[w].h.does = "incident") =>
       \A i \in ItemsOf(Slot(w)) : items[i].open => i = work[w].found

Vacant == \A w \in Workers : (Active(w) /\ Slot(w) \notin excused) => VacantFor(w)

\* How far a label call without rivals has come.
Progress(w) ==
  LET s == work[w].state
      h == work[w].h
  IN  /\ At(w, "remove") =>
           /\ (Remove[s] \ work[w].todo) \cap labels = {}
           /\ h.makes = "missing" => labels \subseteq work[w].known
      /\ (work[w].at \in {"make", "new", "attach", "each"} /\ h.removes # "with add") =>
           Remove[s] \cap labels \subseteq Add[s]
      /\ At(w, "each") => Add[s] \ work[w].todo \subseteq labels

\* The label handlers take their steps in turn, remove what their lists name
\* and attach what the repository has or is made to have.
LabelCall(w) ==
  /\ At(w, "remove") =>
       work[w].h.removes # "with add" /\ work[w].todo \subseteq Remove[work[w].state]
  /\ At(w, "each") => work[w].h.makes = "none" /\ work[w].todo \subseteq Add[work[w].state]
  /\ work[w].ran = "alone" => Progress(w)

Labelling ==
  /\ \A w \in Workers : (Active(w) /\ work[w].h.action = "label") => LabelCall(w)
  /\ \A slot \in Slots : (slot[1] = "label" /\ latest[slot] # "none") => slot[2] = PageKey
  /\ Existing \ (UNION {Remove[t] : t \in States}) \subseteq labels
  /\ (\A h \in on : h.action = "label" => h.makes # "none") => \A n \in labels : repo[n] # "absent"

IInv ==
  /\ TypeOK /\ Rivals /\ Found /\ AtMostOne /\ Vacant /\ Reflected /\ Labelling /\ LabelsConverge

=============================================================================
