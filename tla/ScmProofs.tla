----------------------------- MODULE ScmProofs -----------------------------
(***************************************************************************)
(* Proofs about Scm, for every page, every number of workers, keys, labels *)
(* and events, every page size and every failure. The invariant is IInv of *)
(* Scm: calls that overlap on a slot know it (Rivals), a call works on an  *)
(* item of its own slot (Found), creates one only where none is (Vacant)   *)
(* and a label call has done what its step says (Labelling). A step of one *)
(* call leaves the other slots alone (Own), so that each action has only   *)
(* its own slot to restore (Mine). New calls and what people do are cases  *)
(* of one lemma (Meanwhile).                                               *)
(***************************************************************************)
EXTENDS Scm, FiniteSetTheorems, NaturalsInduction, WellFoundedInduction, TLAPS

-----------------------------------------------------------------------------
(* The handlers.                                                           *)

Told(words) ==
  \A s \in DOMAIN words : s \in AllStates /\ Verdict(words[s]) = Verdict(s)

HandlerFacts(h) ==
  /\ h.action # "person" /\ h.does \in DOMAIN Procedure /\ h.again \in BOOLEAN
  /\ Told(h.words)
  /\ h.action = "label" => h \in {GitHubLabel, GitLabLabel, GiteaLabel, AzureLabel}
  /\ h.action # "label" => h.does \notin {"remove", "labels"}

\* Each provider's word for a state has the verdict of the state.
LEMMA WordsTell ==
  /\ Told(githubStateMap) /\ Told(checkRunState) /\ Told(githubDeploymentState)
  /\ Told(mapStateToGitLab) /\ Told(deploymentStatus) /\ Told(giteaStateMap)
  /\ Told(bitbucketCloudStateMap) /\ Told(bitbucketServerStateMap) /\ Told(azureStateMap)
  /\ Told(sourcehutStateMap) /\ Told(Rendered) /\ Told(incidentState)
<1>1. Told(githubStateMap)
  BY DEF Told, githubStateMap, AllStates, Verdict
<1>2. Told(checkRunState)
  BY DEF Told, checkRunState, AllStates, Verdict
<1>3. Told(githubDeploymentState)
  BY DEF Told, githubDeploymentState, AllStates, Verdict
<1>4. Told(mapStateToGitLab)
  BY DEF Told, mapStateToGitLab, AllStates, Verdict
<1>5. Told(deploymentStatus)
  BY DEF Told, deploymentStatus, AllStates, Verdict
<1>6. Told(giteaStateMap)
  BY DEF Told, giteaStateMap, AllStates, Verdict
<1>7. Told(bitbucketCloudStateMap)
  BY DEF Told, bitbucketCloudStateMap, AllStates, Verdict
<1>8. Told(bitbucketServerStateMap)
  BY DEF Told, bitbucketServerStateMap, AllStates, Verdict
<1>9. Told(azureStateMap)
  BY DEF Told, azureStateMap, AllStates, Verdict
<1>10. Told(sourcehutStateMap)
  BY DEF Told, sourcehutStateMap, AllStates, Verdict
<1>11. Told(Rendered)
  BY DEF Told, Rendered
<1>12. Told(incidentState)
  BY DEF Told, incidentState, AllStates, Verdict
<1> QED
  BY <1>1, <1>2, <1>3, <1>4, <1>5, <1>6, <1>7, <1>8, <1>9, <1>10, <1>11, <1>12

\* A page has one handler per action.
LEMMA HandlerIsOne ==
  ASSUME NEW action, NEW does, NEW cut, NEW again, NEW words, action \notin {"person", "label"},
         does \in {"create", "lookup", "deploy", "upsert", "thread", "incident", "put"},
         again \in BOOLEAN, Told(words)
  PROVE  HandlerFacts(Handler(action, does, cut, again, words))
  BY DEF HandlerFacts, Handler, Procedure

\* A label page has one label handler.
LEMMA LabelHandlerIsOne ==
  \A h \in {GitHubLabel, GitLabLabel, GiteaLabel, AzureLabel} : HandlerFacts(h)
<1>1. HandlerFacts(GitHubLabel)
  BY WordsTell DEF HandlerFacts, GitHubLabel, LabelHandler, Procedure, NoRetry
<1>2. HandlerFacts(GitLabLabel)
  BY WordsTell DEF HandlerFacts, GitLabLabel, LabelHandler, Procedure, DoWithRetryPolicy
<1>3. HandlerFacts(GiteaLabel)
  BY WordsTell DEF HandlerFacts, GiteaLabel, LabelHandler, Procedure, NoRetry
<1>4. HandlerFacts(AzureLabel)
  BY WordsTell DEF HandlerFacts, AzureLabel, LabelHandler, Procedure, NoRetry
<1> QED
  BY <1>1, <1>2, <1>3, <1>4

\* What every handler of every page has in common, and that two handlers of
\* a page have different actions.
LEMMA HandlersOfPages ==
  ASSUME NEW page \in Pages
  PROVE  /\ \A h \in page : HandlerFacts(h)
         /\ \A g, h \in page : g.action = h.action => g = h
<1>m. \A m \in Modes : NormalizeMode(m) \in {"create", "upsert"}
  BY DEF NormalizeMode
<1>1. \A m \in Modes : HandlerFacts(GitHubPRComment(m)) /\ HandlerFacts(GitHubIssueComment(m))
  BY <1>m, WordsTell, HandlerIsOne DEF GitHubPRComment, GitHubIssueComment, NoRetry
<1>2. \A m \in Modes : HandlerFacts(GitLabMRComment(m)) /\ HandlerFacts(GitLabIssueComment(m))
  BY <1>m, WordsTell, HandlerIsOne DEF GitLabMRComment, GitLabIssueComment, DoWithRetryPolicy
<1>3. \A m \in Modes : HandlerFacts(GitLabCommitComment(m)) /\ HandlerFacts(CloudComment(m))
  BY <1>m, WordsTell, HandlerIsOne DEF GitLabCommitComment, CloudComment, DoWithRetryPolicy
<1>4. \A m \in Modes : /\ HandlerFacts(GiteaPRComment(m)) /\ HandlerFacts(GiteaIssueComment(m))
                       /\ HandlerFacts(AzureComment(m))
  BY <1>m, WordsTell, HandlerIsOne DEF GiteaPRComment, GiteaIssueComment, AzureComment, NoRetry
<1>5. /\ HandlerFacts(GitHubCommitComment) /\ HandlerFacts(GitHubDiscussionComment)
      /\ HandlerFacts(GitHubCheckRun) /\ HandlerFacts(GitHubDeployment) /\ HandlerFacts(GitHubStatus)
  BY WordsTell, HandlerIsOne
  DEF GitHubCommitComment, GitHubDiscussionComment, GitHubCheckRun, GitHubDeployment, GitHubStatus,
      NoRetry
<1>6. /\ HandlerFacts(GitLabDiscussion) /\ HandlerFacts(GitLabIncident)
      /\ HandlerFacts(GitLabDeployment) /\ HandlerFacts(GitLabStatus)
  BY WordsTell, HandlerIsOne
  DEF GitLabDiscussion, GitLabIncident, GitLabDeployment, GitLabStatus, DoWithRetryPolicy
<1>7. /\ HandlerFacts(GiteaStatus) /\ HandlerFacts(AzureStatus)
  BY WordsTell, HandlerIsOne DEF GiteaStatus, AzureStatus, NoRetry
<1>8. /\ HandlerFacts(CloudStatus) /\ HandlerFacts(ServerComment) /\ HandlerFacts(ServerStatus)
      /\ HandlerFacts(SourceHutStatus)
  BY WordsTell, HandlerIsOne DEF CloudStatus, ServerComment, ServerStatus, SourceHutStatus,
     DoWithRetryPolicy
<1>9. \A h \in page : HandlerFacts(h)
  <2>u. "upsert" \in Modes
    BY DEF Modes
  <2> QED
    BY <1>1, <1>2, <1>3, <1>4, <1>5, <1>6, <1>7, <1>8, <2>u, LabelHandlerIsOne DEF Pages
<1>10. \A g, h \in page : g.action = h.action => g = h
  <2>1. CASE page = {GitHubPRComment("upsert"), GitHubIssueComment("upsert")}
    <3>1. /\ GitHubPRComment("upsert").action = "pr_comment"
          /\ GitHubIssueComment("upsert").action = "issue_comment"
      BY DEF GitHubPRComment, GitHubIssueComment, Handler
    <3> QED
      BY <2>1, <3>1
  <2>2. CASE page = {GitLabMRComment("upsert"), GitLabDiscussion}
    <3>1. /\ GitLabMRComment("upsert").action = "pr_comment"
          /\ GitLabDiscussion.action = "discussion_comment"
      BY DEF GitLabMRComment, GitLabDiscussion, Handler
    <3> QED
      BY <2>2, <3>1
  <2>3. CASE \E f : page = {f}
    BY <2>3
  <2> QED
    BY <2>1, <2>2, <2>3 DEF Pages
<1> QED
  BY <1>9, <1>10

\* The label handlers: the two that read the repository's labels first make
\* the missing ones; only GitLab's leaves the removal to the last call; only
\* Azure's attaches label by label and makes none.
LEMMA LabelHandlers ==
  ASSUME NEW h \in {GitHubLabel, GitLabLabel, GiteaLabel, AzureLabel}
  PROVE  /\ h.does \in {"remove", "labels"}
         /\ h.does = "labels" => h.makes = "missing"
         /\ h.does = "remove" => h.makes # "missing" /\ h.removes # "with add"
         /\ h.removes = "with add" <=> h = GitLabLabel
         /\ h.action = "label"
<1>1. /\ GitHubLabel.does = "remove" /\ GitHubLabel.makes = "coloured"
      /\ GitHubLabel.removes = "strict" /\ GitHubLabel.action = "label"
  BY DEF GitHubLabel, LabelHandler
<1>2. /\ GitLabLabel.does = "labels" /\ GitLabLabel.makes = "missing"
      /\ GitLabLabel.removes = "with add" /\ GitLabLabel.action = "label"
  BY DEF GitLabLabel, LabelHandler
<1>3. /\ GiteaLabel.does = "labels" /\ GiteaLabel.makes = "missing"
      /\ GiteaLabel.removes = "lenient" /\ GiteaLabel.action = "label"
  BY DEF GiteaLabel, LabelHandler
<1>4. /\ AzureLabel.does = "remove" /\ AzureLabel.makes = "none"
      /\ AzureLabel.removes = "lenient" /\ AzureLabel.action = "label"
  BY DEF AzureLabel, LabelHandler
<1> QED
  BY <1>1, <1>2, <1>3, <1>4

-----------------------------------------------------------------------------
(* The greatest and the least of finitely many numbers.                    *)

\* A set of natural numbers has a least member.
LEMMA LeastExists ==
  ASSUME NEW S \in SUBSET Nat, S # {}
  PROVE  \E x \in S : \A y \in S : x =< y
<1>1. IsWellFoundedOn(OpToRel(<, Nat), Nat)
  BY NatLessThanWellFounded
<1>2. PICK x \in S : \A y \in S : <<y, x>> \notin OpToRel(<, Nat)
  BY <1>1, WFMin
<1>3. \A y \in S : ~(y < x)
  BY <1>2 DEF OpToRel
<1> QED
  BY <1>3

\* Max and Min of a bounded set of natural numbers are members of it.
LEMMA MaxMin ==
  ASSUME NEW n \in Nat, NEW S \in SUBSET (1..n), S # {}
  PROVE  Max(S) \in S /\ Min(S) \in S
<1>s. S \in SUBSET Nat /\ \E y \in S : y \in Nat /\ y >= 1
  <2>1. PICK y : y \in S
    OBVIOUS
  <2>2. y \in 1..n /\ 1..n \subseteq Nat
    BY <2>1
  <2>3. y \in Nat /\ y >= 1
    BY <2>2
  <2> QED
    BY <2>1, <2>2, <2>3
<1>1. Min(S) \in S
  <2>1. \E x \in S : \A y \in S : x =< y
    BY <1>s, LeastExists
  <2> QED
    BY <2>1 DEF Min
<1>2. \E x \in S : \A y \in S : x >= y
  <2> DEFINE Above == {m \in Nat : \A y \in S : m >= y}
  <2>1. n \in Above
    OBVIOUS
  <2>2. PICK m \in Above : \A k \in Above : m =< k
    BY <2>1, LeastExists
  <2>3. m \in S
    <3>1. SUFFICES ASSUME m \notin S PROVE FALSE
      OBVIOUS
    <3>2. m # 0
      BY <1>s
    <3>3. m - 1 \in Above
      BY <3>1, <3>2
    <3> QED
      BY <2>2, <3>3
  <2> QED
    BY <2>3
<1> QED
  BY <1>1, <1>2 DEF Max

-----------------------------------------------------------------------------
(* Calls.                                                                  *)

Reflects(slot) ==
  LET s == latest[slot]
      its == ItemsOf(slot)
  IN  (s # "none" /\ slot[1] # "label") =>
        CASE HandlerOf(slot).does = "thread" ->
               \E i \in its : s = "success" => ~items[i].open
          [] HandlerOf(slot).does = "incident" ->
               IF s = "success" THEN slot \in excused \/ \A i \in its : ~items[i].open
               ELSE \E i \in its : items[i].open
          [] OTHER -> \E i \in its : Verdict(items[i].shows) = Verdict(s)

Converges(slot) ==
  LET s == latest[slot]
  IN  (slot[1] = "label" /\ s # "none") =>
        /\ Add[s] \ Remove[s] \subseteq labels
        /\ (Remove[s] \ Add[s]) \cap labels = {}
        /\ HandlerOf(slot) # GitLabLabel => Add[s] \subseteq labels
        /\ Existing \ (UNION {Remove[t] : t \in States}) \subseteq labels

Call(w, at, ran, found, known, label, todo) ==
  [at |-> at, h |-> work[w].h, key |-> work[w].key, state |-> work[w].state, ran |-> ran,
   found |-> found, known |-> known, label |-> label, todo |-> todo]

\* The handler of a slot is the one its action names.
LEMMA HandlerOfSlot ==
  ASSUME on \in Pages, NEW h \in on, NEW k \in Keys
  PROVE  <<h.action, k>> \in Slots /\ HandlerOf(<<h.action, k>>) = h
<1>1. \A g \in on : g.action = h.action => g = h
  BY HandlersOfPages
<1> QED
  BY <1>1 DEF Slots, HandlerOf

\* What is known of a call that is running.
LEMMA CallOf ==
  ASSUME TypeOK, NEW w \in Workers, ~At(w, "idle")
  PROVE  /\ IsCall(work[w])
         /\ work[w] = Call(w, work[w].at, work[w].ran, work[w].found, work[w].known,
                           work[w].label, work[w].todo)
         /\ work[w].h \in on /\ work[w].key \in Keys /\ work[w].state \in States
         /\ work[w].ran \in {"alone", "disturbed"}
         /\ work[w].found \in Nat /\ work[w].known \in SUBSET Names
         /\ work[w].label \in Names \cup {""} /\ work[w].todo \in SUBSET Names
         /\ work[w].at \in Procedure[work[w].h.does] /\ work[w].state \in DOMAIN work[w].h.words
         /\ HandlerFacts(work[w].h)
         /\ Slot(w) \in Slots /\ HandlerOf(Slot(w)) = work[w].h
<1>1. IsCall(work[w])
  BY DEF TypeOK
<1>2. work[w] \in Calls
  BY <1>1 DEF IsCall
<1>3. /\ work[w].h \in on /\ work[w].key \in Keys /\ work[w].state \in States
      /\ work[w].ran \in {"alone", "disturbed"}
      /\ work[w].found \in Nat /\ work[w].known \in SUBSET Names
      /\ work[w].label \in Names \cup {""} /\ work[w].todo \in SUBSET Names
  BY <1>2 DEF Calls
<1>4. work[w] = Call(w, work[w].at, work[w].ran, work[w].found, work[w].known,
                     work[w].label, work[w].todo)
  BY <1>2 DEF Calls, Call
<1>5. HandlerFacts(work[w].h)
  BY <1>3, HandlersOfPages DEF TypeOK
<1>6. Slot(w) \in Slots /\ HandlerOf(Slot(w)) = work[w].h
  BY <1>3, HandlerOfSlot DEF TypeOK, Slot
<1>7. work[w].at \in Procedure[work[w].h.does] /\ work[w].state \in DOMAIN work[w].h.words
  BY <1>1 DEF IsCall
<1> QED
  BY <1>1, <1>3, <1>4, <1>5, <1>6, <1>7

\* What a step of w does to the calls and to what is last reported.
Advance(w) ==
  /\ work' \in [Workers -> Calls \cup {Idle}]
  /\ \A v \in Workers \ {w} : work'[v] = work[v]
  /\ \/ work'[w] = Idle
     \/ /\ work'[w] \in Calls /\ work'[w].at \in Procedure[work[w].h.does]
        /\ work'[w].at = "new" => work'[w].label \in Names
        /\ work'[w].h = work[w].h /\ work'[w].key = work[w].key /\ work'[w].state = work[w].state
        /\ work'[w].ran = "alone" => work[w].ran = "alone"
  /\ \/ latest' = latest
     \/ /\ work[w].ran = "alone" /\ work'[w] = Idle
        /\ latest' = [latest EXCEPT ![Slot(w)] = work[w].state]

\* A step of a procedure is one of the steps of Calls.
LEMMA Steps ==
  ASSUME NEW does \in DOMAIN Procedure, NEW step \in Procedure[does]
  PROVE  step \in UNION {Procedure[d] : d \in DOMAIN Procedure}
  OBVIOUS

\* A call that goes on as the record c.
LEMMA Moved ==
  ASSUME TypeOK, NEW w \in Workers, NEW c \in Calls,
         c.at \in Procedure[work[w].h.does], c.at = "new" => c.label \in Names,
         c.h = work[w].h, c.key = work[w].key, c.state = work[w].state, c.ran = "alone" => work[w].ran = "alone",
         work' = [work EXCEPT ![w] = c], latest' = latest
  PROVE  Advance(w) /\ work'[w] = c
<1>1. work \in [Workers -> Calls \cup {Idle}]
  BY DEF TypeOK
<1>2. work'[w] = c /\ \A v \in Workers \ {w} : work'[v] = work[v]
  BY <1>1
<1>3. work' \in [Workers -> Calls \cup {Idle}]
  BY <1>1
<1> QED
  BY <1>2, <1>3 DEF Advance

\* A call that ends, with an error or without.
LEMMA Left ==
  ASSUME TypeOK, NEW w \in Workers, ~At(w, "idle"), Fail(w) \/ Return(w)
  PROVE  Advance(w) /\ work'[w] = Idle
<1>1. work \in [Workers -> Calls \cup {Idle}] /\ work' = [work EXCEPT ![w] = Idle]
  BY DEF TypeOK, Fail, Return
<1>2. /\ work'[w] = Idle /\ \A v \in Workers \ {w} : work'[v] = work[v]
      /\ work' \in [Workers -> Calls \cup {Idle}]
  BY <1>1
<1>3. \/ latest' = latest
      \/ work[w].ran = "alone" /\ latest' = [latest EXCEPT ![Slot(w)] = work[w].state]
  BY DEF Fail, Return
<1> QED
  BY <1>2, <1>3 DEF Advance

\* A call that is repeated by its client.
LEMMA Stayed ==
  ASSUME TypeOK, NEW w \in Workers, ~At(w, "idle"), work' = work, latest' = latest
  PROVE  Advance(w) /\ work'[w] = work[w]
<1>1. work \in [Workers -> Calls \cup {Idle}]
  BY DEF TypeOK
<1>2. IsCall(work[w])
  BY CallOf
<1> QED
  BY <1>1, <1>2 DEF Advance, IsCall

\* A provider's call that fails.
LEMMA RefusedOr ==
  ASSUME TypeOK, NEW w \in Workers, ~At(w, "idle"), Refused(w)
  PROVE  /\ Advance(w) /\ latest' = latest /\ faults' \in Nat
         /\ \/ work'[w] = Idle
            \/ work[w].h.again /\ work'[w] = work[w]
<1>1. faults' \in Nat
  BY DEF TypeOK, Refused, Fault
<1>2. latest' = latest
  BY DEF Refused, Fail
<1>3. CASE Fail(w)
  BY <1>1, <1>2, <1>3, Left
<1>4. CASE work[w].h.again /\ UNCHANGED <<work, latest>>
  BY <1>1, <1>2, <1>4, Stayed
<1> QED
  BY <1>3, <1>4 DEF Refused

Skips(w, todo) ==
  work' = [work EXCEPT ![w].todo = todo, ![w].ran = "disturbed"] /\ latest' = latest
ToMake(w, at, label) ==
  work' = [work EXCEPT ![w].at = at, ![w].label = label] /\ latest' = latest
Lists(w, at, todo, known, ran) ==
  /\ work' = [work EXCEPT ![w].at = at, ![w].todo = todo, ![w].known = known, ![w].ran = ran]
  /\ latest' = latest

\* The ways a call goes on, with the record it becomes.
LEMMA Went ==
  ASSUME TypeOK, NEW w \in Workers, ~At(w, "idle"),
         NEW at \in Procedure[work[w].h.does],
         at # "new", Goto(w, at)
  PROVE  /\ Advance(w) /\ latest' = latest
         /\ work'[w] = Call(w, at, work[w].ran, work[w].found, work[w].known,
                                 work[w].label, work[w].todo)
<1>1. work \in [Workers -> Calls \cup {Idle}]
  BY DEF TypeOK
<1>2. work[w] = Call(w, work[w].at, work[w].ran, work[w].found, work[w].known,
                     work[w].label, work[w].todo)
  BY CallOf
<1>3. work' = [work EXCEPT ![w] = [work[w] EXCEPT !.at = at]]
  BY <1>1 DEF Goto
<1>4. [work[w] EXCEPT !.at = at] =
        Call(w, at, work[w].ran, work[w].found, work[w].known, work[w].label, work[w].todo)
  BY <1>2 DEF Call
<1>5. work' = [work EXCEPT ![w] = Call(w, at, work[w].ran, work[w].found, work[w].known,
                                     work[w].label, work[w].todo)]
  <2>1. [work[w] EXCEPT !.at = at] =
          Call(w, at, work[w].ran, work[w].found, work[w].known, work[w].label, work[w].todo)
    BY <1>4
  <2> QED
    BY <1>3, <2>1
<1>6. /\ work[w].ran \in {"alone", "disturbed"}
      /\ work[w].found \in Nat /\ work[w].known \in SUBSET Names
      /\ work[w].label \in Names \cup {""} /\ work[w].todo \in SUBSET Names
      /\ work[w].h \in on /\ work[w].key \in Keys /\ work[w].state \in States
      /\ work[w].at \in Procedure[work[w].h.does]
      /\ work[w].at = "new" => work[w].label \in Names
      /\ work[w].h.does \in DOMAIN Procedure
  BY CallOf DEF IsCall, HandlerFacts
<1>7. PICK c : c = Call(w, at, work[w].ran, work[w].found, work[w].known,
                        work[w].label, work[w].todo)
  OBVIOUS
<1>8. /\ c.at = at /\ c.label = work[w].label /\ c.ran = work[w].ran
      /\ c.h = work[w].h /\ c.key = work[w].key /\ c.state = work[w].state
  BY <1>7 DEF Call
<1>9. c \in Calls
  <2>1. at \in UNION {Procedure[does] : does \in DOMAIN Procedure}
    BY <1>6, Steps
  <2> QED
    BY <2>1, <1>6, <1>7 DEF Call, Calls
<1>10. c.ran = "alone" => work[w].ran = "alone"
  BY <1>8
<1>11. latest' = latest
  BY DEF Goto
<1> QED
  BY <1>5, <1>6, <1>7, <1>8, <1>9, <1>10, <1>11, Moved

\* A call that goes on with an item.
LEMMA WentWith ==
  ASSUME TypeOK, NEW w \in Workers, ~At(w, "idle"),
         NEW at \in Procedure[work[w].h.does],
         NEW found \in Nat,
         at # "new", With(w, at, found)
  PROVE  /\ Advance(w) /\ latest' = latest
         /\ work'[w] = Call(w, at, work[w].ran, found, work[w].known,
                                 work[w].label, work[w].todo)
<1>1. work \in [Workers -> Calls \cup {Idle}]
  BY DEF TypeOK
<1>2. work[w] = Call(w, work[w].at, work[w].ran, work[w].found, work[w].known,
                     work[w].label, work[w].todo)
  BY CallOf
<1>3. work' = [work EXCEPT ![w] = [work[w] EXCEPT !.at = at, !.found = found]]
  BY <1>1 DEF With
<1>4. [work[w] EXCEPT !.at = at] =
        Call(w, at, work[w].ran, work[w].found, work[w].known, work[w].label, work[w].todo)
  BY <1>2 DEF Call
<1>5. [Call(w, at, work[w].ran, work[w].found, work[w].known, work[w].label, work[w].todo)
        EXCEPT !.found = found] =
        Call(w, at, work[w].ran, found, work[w].known, work[w].label, work[w].todo)
  BY DEF Call
<1>6. [work[w] EXCEPT !.at = at, !.found = found] =
        [[work[w] EXCEPT !.at = at] EXCEPT !.found = found]
  OBVIOUS
<1>7. work' = [work EXCEPT ![w] = Call(w, at, work[w].ran, found, work[w].known,
                                     work[w].label, work[w].todo)]
  <2>1. [work[w] EXCEPT !.at = at, !.found = found] =
          Call(w, at, work[w].ran, found, work[w].known, work[w].label, work[w].todo)
    BY <1>4, <1>5, <1>6
  <2> QED
    BY <1>3, <2>1
<1>8. /\ work[w].ran \in {"alone", "disturbed"}
      /\ work[w].found \in Nat /\ work[w].known \in SUBSET Names
      /\ work[w].label \in Names \cup {""} /\ work[w].todo \in SUBSET Names
      /\ work[w].h \in on /\ work[w].key \in Keys /\ work[w].state \in States
      /\ work[w].at \in Procedure[work[w].h.does]
      /\ work[w].at = "new" => work[w].label \in Names
      /\ work[w].h.does \in DOMAIN Procedure
  BY CallOf DEF IsCall, HandlerFacts
<1>9. PICK c : c = Call(w, at, work[w].ran, found, work[w].known, work[w].label, work[w].todo)
  OBVIOUS
<1>10. /\ c.at = at /\ c.label = work[w].label /\ c.ran = work[w].ran
       /\ c.h = work[w].h /\ c.key = work[w].key /\ c.state = work[w].state
  BY <1>9 DEF Call
<1>11. c \in Calls
  <2>1. at \in UNION {Procedure[does] : does \in DOMAIN Procedure}
    BY <1>8, Steps
  <2> QED
    BY <2>1, <1>8, <1>9 DEF Call, Calls
<1>12. c.ran = "alone" => work[w].ran = "alone"
  BY <1>10
<1>13. latest' = latest
  BY DEF With
<1> QED
  BY <1>7, <1>8, <1>9, <1>10, <1>11, <1>12, <1>13, Moved

\* A call that goes on with names to work off.
LEMMA WentTodo ==
  ASSUME TypeOK, NEW w \in Workers, ~At(w, "idle"),
         NEW at \in Procedure[work[w].h.does],
         NEW todo \in SUBSET Names,
         at # "new", Todo(w, at, todo)
  PROVE  /\ Advance(w) /\ latest' = latest
         /\ work'[w] = Call(w, at, work[w].ran, work[w].found, work[w].known,
                                 work[w].label, todo)
<1>1. work \in [Workers -> Calls \cup {Idle}]
  BY DEF TypeOK
<1>2. work[w] = Call(w, work[w].at, work[w].ran, work[w].found, work[w].known,
                     work[w].label, work[w].todo)
  BY CallOf
<1>3. work' = [work EXCEPT ![w] = [work[w] EXCEPT !.at = at, !.todo = todo]]
  BY <1>1 DEF Todo
<1>4. [work[w] EXCEPT !.at = at] =
        Call(w, at, work[w].ran, work[w].found, work[w].known, work[w].label, work[w].todo)
  BY <1>2 DEF Call
<1>5. [Call(w, at, work[w].ran, work[w].found, work[w].known, work[w].label, work[w].todo)
        EXCEPT !.todo = todo] =
        Call(w, at, work[w].ran, work[w].found, work[w].known, work[w].label, todo)
  BY DEF Call
<1>6. [work[w] EXCEPT !.at = at, !.todo = todo] =
        [[work[w] EXCEPT !.at = at] EXCEPT !.todo = todo]
  OBVIOUS
<1>7. work' = [work EXCEPT ![w] = Call(w, at, work[w].ran, work[w].found, work[w].known,
                                     work[w].label, todo)]
  <2>1. [work[w] EXCEPT !.at = at, !.todo = todo] =
          Call(w, at, work[w].ran, work[w].found, work[w].known, work[w].label, todo)
    BY <1>4, <1>5, <1>6
  <2> QED
    BY <1>3, <2>1
<1>8. /\ work[w].ran \in {"alone", "disturbed"}
      /\ work[w].found \in Nat /\ work[w].known \in SUBSET Names
      /\ work[w].label \in Names \cup {""} /\ work[w].todo \in SUBSET Names
      /\ work[w].h \in on /\ work[w].key \in Keys /\ work[w].state \in States
      /\ work[w].at \in Procedure[work[w].h.does]
      /\ work[w].at = "new" => work[w].label \in Names
      /\ work[w].h.does \in DOMAIN Procedure
  BY CallOf DEF IsCall, HandlerFacts
<1>9. PICK c : c = Call(w, at, work[w].ran, work[w].found, work[w].known, work[w].label, todo)
  OBVIOUS
<1>10. /\ c.at = at /\ c.label = work[w].label /\ c.ran = work[w].ran
       /\ c.h = work[w].h /\ c.key = work[w].key /\ c.state = work[w].state
  BY <1>9 DEF Call
<1>11. c \in Calls
  <2>1. at \in UNION {Procedure[does] : does \in DOMAIN Procedure}
    BY <1>8, Steps
  <2> QED
    BY <2>1, <1>8, <1>9 DEF Call, Calls
<1>12. c.ran = "alone" => work[w].ran = "alone"
  BY <1>10
<1>13. latest' = latest
  BY DEF Todo
<1> QED
  BY <1>7, <1>8, <1>9, <1>10, <1>11, <1>12, <1>13, Moved

\* A call that goes on although a removal failed.
LEMMA Skipped ==
  ASSUME TypeOK, NEW w \in Workers, ~At(w, "idle"),
         NEW todo \in SUBSET Names,
         Skips(w, todo)
  PROVE  /\ Advance(w) /\ latest' = latest
         /\ work'[w] = Call(w, work[w].at, "disturbed", work[w].found, work[w].known,
                                 work[w].label, todo)
<1>1. work \in [Workers -> Calls \cup {Idle}]
  BY DEF TypeOK
<1>2. work[w] = Call(w, work[w].at, work[w].ran, work[w].found, work[w].known,
                     work[w].label, work[w].todo)
  BY CallOf
<1>3. work' = [work EXCEPT ![w] = [work[w] EXCEPT !.todo = todo, !.ran = "disturbed"]]
  BY <1>1 DEF Skips
<1>4. [work[w] EXCEPT !.todo = todo] =
        Call(w, work[w].at, work[w].ran, work[w].found, work[w].known, work[w].label, todo)
  BY <1>2 DEF Call
<1>5. [Call(w, work[w].at, work[w].ran, work[w].found, work[w].known, work[w].label, todo)
        EXCEPT !.ran = "disturbed"] =
        Call(w, work[w].at, "disturbed", work[w].found, work[w].known, work[w].label, todo)
  BY DEF Call
<1>6. [work[w] EXCEPT !.todo = todo, !.ran = "disturbed"] =
        [[work[w] EXCEPT !.todo = todo] EXCEPT !.ran = "disturbed"]
  OBVIOUS
<1>7. work' = [work EXCEPT ![w] = Call(w, work[w].at, "disturbed", work[w].found, work[w].known,
                                     work[w].label, todo)]
  <2>1. [work[w] EXCEPT !.todo = todo, !.ran = "disturbed"] =
          Call(w, work[w].at, "disturbed", work[w].found, work[w].known, work[w].label, todo)
    BY <1>4, <1>5, <1>6
  <2> QED
    BY <1>3, <2>1
<1>8. /\ work[w].ran \in {"alone", "disturbed"}
      /\ work[w].found \in Nat /\ work[w].known \in SUBSET Names
      /\ work[w].label \in Names \cup {""} /\ work[w].todo \in SUBSET Names
      /\ work[w].h \in on /\ work[w].key \in Keys /\ work[w].state \in States
      /\ work[w].at \in Procedure[work[w].h.does]
      /\ work[w].at = "new" => work[w].label \in Names
      /\ work[w].h.does \in DOMAIN Procedure
  BY CallOf DEF IsCall, HandlerFacts
<1>9. PICK c : c = Call(w, work[w].at, "disturbed", work[w].found, work[w].known,
                        work[w].label, todo)
  OBVIOUS
<1>10. /\ c.at = work[w].at /\ c.label = work[w].label /\ c.ran = "disturbed"
       /\ c.h = work[w].h /\ c.key = work[w].key /\ c.state = work[w].state
  BY <1>9 DEF Call
<1>11. c \in Calls
  <2>1. work[w].at \in UNION {Procedure[does] : does \in DOMAIN Procedure}
    BY <1>8, Steps
  <2> QED
    BY <2>1, <1>8, <1>9 DEF Call, Calls
<1>12. c.ran = "alone" => work[w].ran = "alone"
  BY <1>10
<1>13. latest' = latest
  BY DEF Skips
<1> QED
  BY <1>7, <1>8, <1>9, <1>10, <1>11, <1>12, <1>13, Moved

\* A call that goes on to make a label.
LEMMA WentToMake ==
  ASSUME TypeOK, NEW w \in Workers, ~At(w, "idle"),
         NEW at \in Procedure[work[w].h.does],
         NEW label \in Names,
         ToMake(w, at, label)
  PROVE  /\ Advance(w) /\ latest' = latest
         /\ work'[w] = Call(w, at, work[w].ran, work[w].found, work[w].known,
                                 label, work[w].todo)
<1>1. work \in [Workers -> Calls \cup {Idle}]
  BY DEF TypeOK
<1>2. work[w] = Call(w, work[w].at, work[w].ran, work[w].found, work[w].known,
                     work[w].label, work[w].todo)
  BY CallOf
<1>3. work' = [work EXCEPT ![w] = [work[w] EXCEPT !.at = at, !.label = label]]
  BY <1>1 DEF ToMake
<1>4. [work[w] EXCEPT !.at = at] =
        Call(w, at, work[w].ran, work[w].found, work[w].known, work[w].label, work[w].todo)
  BY <1>2 DEF Call
<1>5. [Call(w, at, work[w].ran, work[w].found, work[w].known, work[w].label, work[w].todo)
        EXCEPT !.label = label] =
        Call(w, at, work[w].ran, work[w].found, work[w].known, label, work[w].todo)
  BY DEF Call
<1>6. [work[w] EXCEPT !.at = at, !.label = label] =
        [[work[w] EXCEPT !.at = at] EXCEPT !.label = label]
  OBVIOUS
<1>7. work' = [work EXCEPT ![w] = Call(w, at, work[w].ran, work[w].found, work[w].known,
                                     label, work[w].todo)]
  <2>1. [work[w] EXCEPT !.at = at, !.label = label] =
          Call(w, at, work[w].ran, work[w].found, work[w].known, label, work[w].todo)
    BY <1>4, <1>5, <1>6
  <2> QED
    BY <1>3, <2>1
<1>8. /\ work[w].ran \in {"alone", "disturbed"}
      /\ work[w].found \in Nat /\ work[w].known \in SUBSET Names
      /\ work[w].label \in Names \cup {""} /\ work[w].todo \in SUBSET Names
      /\ work[w].h \in on /\ work[w].key \in Keys /\ work[w].state \in States
      /\ work[w].at \in Procedure[work[w].h.does]
      /\ work[w].at = "new" => work[w].label \in Names
      /\ work[w].h.does \in DOMAIN Procedure
  BY CallOf DEF IsCall, HandlerFacts
<1>9. PICK c : c = Call(w, at, work[w].ran, work[w].found, work[w].known, label, work[w].todo)
  OBVIOUS
<1>10. /\ c.at = at /\ c.label = label /\ c.ran = work[w].ran
       /\ c.h = work[w].h /\ c.key = work[w].key /\ c.state = work[w].state
  BY <1>9 DEF Call
<1>11. c \in Calls
  <2>1. at \in UNION {Procedure[does] : does \in DOMAIN Procedure}
    BY <1>8, Steps
  <2> QED
    BY <2>1, <1>8, <1>9 DEF Call, Calls
<1>12. c.ran = "alone" => work[w].ran = "alone"
  BY <1>10
<1>13. latest' = latest
  BY DEF ToMake
<1> QED
  BY <1>7, <1>8, <1>9, <1>10, <1>11, <1>12, <1>13, Moved

\* A call that has read the repository's labels.
LEMMA Listed ==
  ASSUME TypeOK, NEW w \in Workers, ~At(w, "idle"),
         NEW at \in Procedure[work[w].h.does],
         NEW todo \in SUBSET Names,
         NEW known \in SUBSET Names,
         NEW ran \in {work[w].ran, "disturbed"},
         at # "new", Lists(w, at, todo, known, ran)
  PROVE  /\ Advance(w) /\ latest' = latest
         /\ work'[w] = Call(w, at, ran, work[w].found, known, work[w].label, todo)
<1>1. work \in [Workers -> Calls \cup {Idle}]
  BY DEF TypeOK
<1>2. work[w] = Call(w, work[w].at, work[w].ran, work[w].found, work[w].known,
                     work[w].label, work[w].todo)
  BY CallOf
<1>3. work' = [work EXCEPT ![w] = [work[w] EXCEPT !.at = at, !.todo = todo, !.known = known, !.ran = ran]]
  BY <1>1 DEF Lists
<1>4. [work[w] EXCEPT !.at = at] =
        Call(w, at, work[w].ran, work[w].found, work[w].known, work[w].label, work[w].todo)
  BY <1>2 DEF Call
<1>5. [Call(w, at, work[w].ran, work[w].found, work[w].known, work[w].label, work[w].todo)
        EXCEPT !.todo = todo] =
        Call(w, at, work[w].ran, work[w].found, work[w].known, work[w].label, todo)
  BY DEF Call
<1>6. [Call(w, at, work[w].ran, work[w].found, work[w].known, work[w].label, todo)
        EXCEPT !.known = known] =
        Call(w, at, work[w].ran, work[w].found, known, work[w].label, todo)
  BY DEF Call
<1>7. [Call(w, at, work[w].ran, work[w].found, known, work[w].label, todo) EXCEPT !.ran = ran] =
        Call(w, at, ran, work[w].found, known, work[w].label, todo)
  BY DEF Call
<1>8. [work[w] EXCEPT !.at = at, !.todo = todo, !.known = known, !.ran = ran] =
        [[[[work[w] EXCEPT !.at = at] EXCEPT !.todo = todo] EXCEPT !.known = known] EXCEPT !.ran = ran]
  OBVIOUS
<1>9. work' = [work EXCEPT ![w] = Call(w, at, ran, work[w].found, known, work[w].label, todo)]
  <2>1. [work[w] EXCEPT !.at = at, !.todo = todo, !.known = known, !.ran = ran] =
          Call(w, at, ran, work[w].found, known, work[w].label, todo)
    BY <1>4, <1>5, <1>6, <1>7, <1>8
  <2> QED
    BY <1>3, <2>1
<1>10. /\ work[w].ran \in {"alone", "disturbed"}
       /\ work[w].found \in Nat /\ work[w].known \in SUBSET Names
       /\ work[w].label \in Names \cup {""} /\ work[w].todo \in SUBSET Names
       /\ work[w].h \in on /\ work[w].key \in Keys /\ work[w].state \in States
       /\ work[w].at \in Procedure[work[w].h.does]
       /\ work[w].at = "new" => work[w].label \in Names
       /\ work[w].h.does \in DOMAIN Procedure
  BY CallOf DEF IsCall, HandlerFacts
<1>11. PICK c : c = Call(w, at, ran, work[w].found, known, work[w].label, todo)
  OBVIOUS
<1>12. /\ c.at = at /\ c.label = work[w].label /\ c.ran = ran
       /\ c.h = work[w].h /\ c.key = work[w].key /\ c.state = work[w].state
  BY <1>11 DEF Call
<1>13. c \in Calls
  <2>1. at \in UNION {Procedure[does] : does \in DOMAIN Procedure}
    BY <1>10, Steps
  <2> QED
    BY <2>1, <1>10, <1>11 DEF Call, Calls
<1>14. c.ran = "alone" => work[w].ran = "alone"
  BY <1>12
<1>15. latest' = latest
  BY DEF Lists
<1> QED
  BY <1>9, <1>10, <1>11, <1>12, <1>13, <1>14, <1>15, Moved

-----------------------------------------------------------------------------
(* What a step of one call leaves alone.                                   *)

\* Whatever it does to the items, those of other slots stay as they are.
ItemStep(w) ==
  /\ items' \in Seq(Shown) /\ DOMAIN items \subseteq DOMAIN items'
  /\ \A i \in DOMAIN items : items'[i].by = items[i].by /\ items'[i].key = items[i].key
  /\ \A i \in DOMAIN items' : IsItem(items'[i])
  /\ \A i \in DOMAIN items' :
       <<items'[i].by, items'[i].key>> # Slot(w) => i \in DOMAIN items /\ items'[i] = items[i]

FoundHere(w) ==
  work'[w].at \in {"edit", "status", "settle"} =>
    /\ work'[w].found \in DOMAIN items'
    /\ items'[work'[w].found].by = work[w].h.action
    /\ items'[work'[w].found].key = work[w].key

Own(w) ==
  /\ Advance(w) /\ ItemStep(w) /\ FoundHere(w) /\ on' = on
  /\ excused' = excused \/ excused' = excused \cup {Slot(w)}
  /\ labels' \subseteq Names /\ cache' \subseteq Names
  /\ repo' \in [Names -> {"absent", "plain", "coloured"}]
  /\ events' \in Nat /\ faults' \in Nat

\* What depends on the handlers of the page alone.
LEMMA SamePage ==
  ASSUME on' = on
  PROVE  /\ Slots' = Slots /\ Calls' = Calls /\ Shown' = Shown
         /\ \A slot : HandlerOf(slot)' = HandlerOf(slot)
         /\ \A item : IsItem(item)' = IsItem(item)
  BY DEF Slots, Calls, Shown, Words, HandlerOf, IsItem

\* A step of one call keeps the types.
LEMMA OwnTypes ==
  ASSUME TypeOK, NEW w \in Workers, ~At(w, "idle"), Own(w)
  PROVE  TypeOK'
<1>1. on' = on /\ Slots' = Slots /\ Calls' = Calls /\ Shown' = Shown
  BY SamePage DEF Own
<1>2. on' \in Pages
  BY <1>1 DEF TypeOK
<1>3. items' \in Seq(Shown)' /\ \A i \in DOMAIN items' : IsItem(items[i])'
  <2>1. items' \in Seq(Shown) /\ \A i \in DOMAIN items' : IsItem(items'[i])
    BY DEF Own, ItemStep
  <2> QED
    BY <1>1, <2>1 DEF IsItem
<1>4. work' \in [Workers -> Calls' \cup {Idle}]
  BY <1>1 DEF Own, Advance
<1>5. ASSUME NEW v \in Workers, ~At(v, "idle")'
      PROVE  IsCall(work[v])'
  <2>1. DOMAIN items \subseteq DOMAIN items'
    BY DEF Own, ItemStep
  <2>2. CASE v = w
    <3>1. work'[w] # Idle
      BY <1>5, <2>2 DEF At, Idle
    <3>2. /\ work'[w] \in Calls /\ work'[w].at \in Procedure[work[w].h.does]
          /\ work'[w].at = "new" => work'[w].label \in Names
          /\ work'[w].h = work[w].h /\ work'[w].key = work[w].key /\ work'[w].state = work[w].state
      BY <3>1 DEF Own, Advance
    <3>3. IsCall(work[w])
      BY CallOf
    <3>4. work'[w].at \in {"edit", "status", "settle"} => work'[w].found \in DOMAIN items'
      BY DEF Own, FoundHere
    <3> QED
      BY <1>1, <2>2, <3>2, <3>3, <3>4 DEF IsCall
  <2>3. CASE v # w
    <3>1. work'[v] = work[v]
      BY <2>3 DEF Own, Advance
    <3>2. IsCall(work[v])
      BY <1>5, <3>1, CallOf DEF At
    <3> QED
      BY <1>1, <2>1, <3>1, <3>2 DEF IsCall
  <2> QED
    BY <2>2, <2>3
<1>6. latest' \in [Slots' -> AllStates \cup {"none"}]
  <2>1. latest \in [Slots -> AllStates \cup {"none"}]
    BY DEF TypeOK
  <2>2. work[w].state \in AllStates
    BY CallOf, ScmAssumption
  <2> QED
    BY <1>1, <2>1, <2>2 DEF Own, Advance
<1>7. excused' \subseteq Slots'
  BY <1>1, CallOf DEF TypeOK, Own
<1>8. /\ labels' \subseteq Names /\ cache' \subseteq Names
      /\ repo' \in [Names -> {"absent", "plain", "coloured"}]
      /\ events' \in Nat /\ faults' \in Nat
  BY DEF Own
<1> QED
  BY <1>2, <1>3, <1>4, <1>5, <1>6, <1>7, <1>8 DEF TypeOK

\* A step of one call makes no rivals.
LEMMA OwnRivals ==
  ASSUME TypeOK, Rivals, NEW w \in Workers, ~At(w, "idle"), Own(w)
  PROVE  Rivals'
<1>1. SUFFICES ASSUME NEW v \in Workers, Active(v)'
               PROVE  /\ latest'[Slot(v)'] = "none"
                      /\ \A u \in Workers \ {v} : Active(u)' /\ Slot(u)' = Slot(v)' =>
                           work'[v].ran = "disturbed" /\ Slot(v)' \in excused'
  BY DEF Rivals
\* Who is running has been so before, in the same slot.
<1>2. ASSUME NEW u \in Workers, Active(u)'
      PROVE  /\ Active(u) /\ Slot(u)' = Slot(u)
             /\ work[u].ran = "disturbed" => work'[u].ran = "disturbed"
  <2>1. CASE u = w
    <3>1. work'[w] # Idle
      BY <1>2, <2>1 DEF Active, At, Idle
    <3>2. /\ work'[w] \in Calls /\ work'[w].h = work[w].h /\ work'[w].key = work[w].key
          /\ work'[w].ran = "alone" => work[w].ran = "alone"
      BY <3>1 DEF Own, Advance
    <3>3. work'[w].ran \in {"alone", "disturbed"}
      BY <3>2 DEF Calls
    <3> QED
      BY <2>1, <3>2, <3>3 DEF Active, Slot
  <2>2. CASE u # w
    BY <1>2, <2>2 DEF Own, Advance, Active, Slot, At
  <2> QED
    BY <2>1, <2>2
<1>3. excused \subseteq excused'
  BY DEF Own
<1>4. latest[Slot(v)] = "none" /\ Slot(v)' = Slot(v) /\ Slot(v) \in Slots
  BY <1>1, <1>2, CallOf DEF Rivals, Active
<1>5. latest'[Slot(v)] = "none"
  <2>1. SUFFICES ASSUME latest' # latest PROVE latest'[Slot(v)] = "none"
    BY <1>4
  <2>2. /\ work[w].ran = "alone" /\ work'[w] = Idle
        /\ latest' = [latest EXCEPT ![Slot(w)] = work[w].state]
    BY <2>1 DEF Own, Advance
  <2>3. v # w
    BY <1>1, <2>2 DEF Active, At, Idle
  <2>4. Slot(v) # Slot(w)
    BY <1>1, <1>2, <2>2, <2>3 DEF Rivals, Active
  <2>5. latest \in [Slots -> AllStates \cup {"none"}]
    BY DEF TypeOK
  <2> QED
    BY <1>4, <2>2, <2>4, <2>5
<1>6. ASSUME NEW u \in Workers \ {v}, Active(u)', Slot(u)' = Slot(v)'
      PROVE  work'[v].ran = "disturbed" /\ Slot(v)' \in excused'
  <2>1. /\ Active(u) /\ Active(v) /\ Slot(u) = Slot(v) /\ Slot(v)' = Slot(v)
        /\ work[v].ran = "disturbed" => work'[v].ran = "disturbed"
    BY <1>1, <1>2, <1>6
  <2>2. work[v].ran = "disturbed" /\ Slot(v) \in excused
    BY <2>1 DEF Rivals
  <2> QED
    BY <1>3, <2>1, <2>2
<1> QED
  BY <1>4, <1>5, <1>6

\* A step of one call leaves what the others found.
LEMMA OwnFound ==
  ASSUME TypeOK, Found, NEW w \in Workers, ~At(w, "idle"), Own(w),
         work'[w].at = "settle" => work[w].state = "success",
         (work'[w].at = "create" /\ work[w].h.does = "incident") => work[w].state # "success"
  PROVE  Found'
<1>1. SUFFICES ASSUME NEW v \in Workers
      PROVE  /\ work'[v].at \in {"edit", "status", "settle"} => HasMarker(v, work[v].found)'
             /\ work'[v].at = "settle" => work'[v].state = "success"
             /\ (work'[v].at = "create" /\ work'[v].h.does = "incident") =>
                  work'[v].state # "success"
  BY DEF Found, At
<1>2. CASE v = w
  <2>1. CASE work'[w] = Idle
    BY <1>2, <2>1 DEF Idle
  <2>2. CASE work'[w] # Idle
    <3>1. work'[w].h = work[w].h /\ work'[w].key = work[w].key /\ work'[w].state = work[w].state
      BY <2>2 DEF Own, Advance
    <3>2. FoundHere(w)
      BY DEF Own
    <3> QED
      BY <1>2, <3>1, <3>2 DEF HasMarker, FoundHere
  <2> QED
    BY <2>1, <2>2
<1>3. CASE v # w
  <2>1. work'[v] = work[v]
    BY <1>3 DEF Own, Advance
  <2>2. ASSUME work[v].at \in {"edit", "status", "settle"}
        PROVE  /\ HasMarker(v, work[v].found)
               /\ work[v].found \in DOMAIN items
    BY <2>2, CallOf DEF Found, IsCall, At
  <2>3. \A i \in DOMAIN items : items'[i].by = items[i].by /\ items'[i].key = items[i].key
    BY DEF Own, ItemStep
  <2> QED
    BY <2>1, <2>2, <2>3 DEF Found, HasMarker, At
<1> QED
  BY <1>2, <1>3

\* What holds of a slot goes on holding while its items, and what is known of
\* it, stay the same.
LEMMA SlotUntouched ==
  ASSUME NEW slot, on' = on, ItemsOf(slot)' = ItemsOf(slot),
         \A i \in ItemsOf(slot) : items'[i] = items[i]
  PROVE  /\ OneIn(slot) => OneIn(slot)'
         /\ (Reflects(slot) /\ latest'[slot] = latest[slot] /\ excused \subseteq excused') =>
              Reflects(slot)'
<1>1. HandlerOf(slot)' = HandlerOf(slot)
  BY SamePage
<1>2. OneIn(slot) => OneIn(slot)'
  BY <1>1 DEF OneIn
<1>3. ASSUME Reflects(slot), latest'[slot] = latest[slot], excused \subseteq excused'
      PROVE  Reflects(slot)'
  <2>1. SUFFICES ASSUME latest[slot] # "none", slot[1] # "label"
                 PROVE  Reflects(slot)'
    BY <1>3 DEF Reflects
  <2>2. CASE HandlerOf(slot).does = "thread"
    BY <1>1, <1>3, <2>1, <2>2 DEF Reflects
  <2>3. CASE HandlerOf(slot).does = "incident"
    BY <1>1, <1>3, <2>1, <2>3 DEF Reflects
  <2>4. CASE HandlerOf(slot).does \notin {"thread", "incident"}
    BY <1>1, <1>3, <2>1, <2>4 DEF Reflects
  <2> QED
    BY <2>2, <2>3, <2>4
<1> QED
  BY <1>2, <1>3

\* A step of one call leaves the items of the other slots.
LEMMA ItemsElsewhere ==
  ASSUME TypeOK, NEW w \in Workers, ItemStep(w), NEW slot \in Slots, slot # Slot(w)
  PROVE  ItemsOf(slot)' = ItemsOf(slot) /\ \A i \in ItemsOf(slot) : items'[i] = items[i]
<1>1. /\ DOMAIN items \subseteq DOMAIN items'
      /\ \A i \in DOMAIN items : items'[i].by = items[i].by /\ items'[i].key = items[i].key
      /\ \A i \in DOMAIN items' :
           <<items'[i].by, items'[i].key>> # Slot(w) => i \in DOMAIN items /\ items'[i] = items[i]
  BY DEF ItemStep
<1>2. slot = <<slot[1], slot[2]>>
  BY DEF Slots
<1>3. ASSUME NEW i \in DOMAIN items', items'[i].by = slot[1], items'[i].key = slot[2]
      PROVE  i \in DOMAIN items /\ items'[i] = items[i]
  BY <1>1, <1>2, <1>3
<1>4. \A i \in ItemsOf(slot) : items'[i] = items[i]
  BY <1>1, <1>3 DEF ItemsOf, Live
<1>5. ItemsOf(slot)' = ItemsOf(slot)
  BY <1>1, <1>3, <1>4 DEF ItemsOf, Live
<1> QED
  BY <1>4, <1>5

\* What is left to show of the slot a step is about.
Mine(w, here) ==
  /\ here \notin excused' => OneIn(here)'
  /\ (Active(w)' /\ here \notin excused') => VacantFor(w)'
  /\ latest' # latest => Reflects(here)'

\* What is left to show after a step on items, for all slots, is Mine.
LEMMA OwnItems ==
  ASSUME TypeOK, Rivals, AtMostOne, Vacant, Reflected, NEW w \in Workers, ~At(w, "idle"), Own(w),
         NEW here, here = Slot(w), Mine(w, here)
  PROVE  AtMostOne' /\ Vacant' /\ Reflected'
<1>1. /\ on' = on /\ Slots' = Slots /\ excused \subseteq excused'
      /\ excused' \subseteq excused \cup {here}
  BY SamePage DEF Own
<1>2. ASSUME NEW slot \in Slots, slot # here
      PROVE  /\ ItemsOf(slot)' = ItemsOf(slot) /\ \A i \in ItemsOf(slot) : items'[i] = items[i]
             /\ latest'[slot] = latest[slot]
  <2>1. ItemsOf(slot)' = ItemsOf(slot) /\ \A i \in ItemsOf(slot) : items'[i] = items[i]
    BY <1>2, ItemsElsewhere DEF Own
  <2>2. latest \in [Slots -> AllStates \cup {"none"}]
    BY DEF TypeOK
  <2>3. latest'[slot] = latest[slot]
    BY <1>2, <2>2 DEF Own, Advance
  <2> QED
    BY <2>1, <2>3
<1>3. AtMostOne'
  <2>1. SUFFICES ASSUME NEW slot \in Slots', slot \notin excused' PROVE OneIn(slot)'
    BY DEF AtMostOne
  <2>2. CASE slot = here
    BY <2>1, <2>2 DEF Mine
  <2>3. CASE slot # here
    <3>1. OneIn(slot)
      BY <1>1, <2>1 DEF AtMostOne
    <3> QED
      BY <1>1, <1>2, <2>1, <2>3, <3>1, SlotUntouched
  <2> QED
    BY <2>2, <2>3
<1>4. Reflected'
  <2>1. SUFFICES ASSUME NEW slot \in Slots' PROVE Reflects(slot)'
    BY DEF Reflected, Reflects
  <2>2. Reflects(slot)
    BY <1>1, <2>1 DEF Reflected, Reflects
  <2>3. CASE slot # here
    BY <1>1, <1>2, <2>1, <2>2, <2>3, SlotUntouched
  <2>4. CASE slot = here /\ latest' # latest
    BY <2>4 DEF Mine
  <2>5. CASE slot = here /\ latest' = latest
    <3>1. latest'[slot] = "none"
      BY <2>5 DEF Rivals, Active
    <3> QED
      BY <3>1 DEF Reflects
  <2> QED
    BY <2>3, <2>4, <2>5
<1>5. Vacant'
  <2>1. SUFFICES ASSUME NEW v \in Workers, Active(v)', Slot(v)' \notin excused' PROVE VacantFor(v)'
    BY DEF Vacant
  <2>2. CASE v = w
    <3>1. work'[w] # Idle
      BY <2>1, <2>2 DEF Active, At, Idle
    <3>2. Slot(w)' = here
      BY <3>1 DEF Own, Advance, Slot
    <3> QED
      BY <2>1, <2>2, <3>2 DEF Mine
  <2>3. CASE v # w
    <3>1. work'[v] = work[v] /\ Slot(v)' = Slot(v)
      BY <2>3 DEF Own, Advance, Slot
    <3>2. Active(v) /\ Slot(v) \notin excused
      BY <1>1, <2>1, <3>1 DEF Active, At
    <3>3. Slot(v) # here
      BY <2>3, <3>2 DEF Rivals, Active
    <3>4. VacantFor(v) /\ Slot(v) \in Slots
      BY <3>2, CallOf DEF Vacant, Active
    <3>5. PICK slot : slot = Slot(v)
      OBVIOUS
    <3>6. ItemsOf(slot)' = ItemsOf(slot) /\ \A i \in ItemsOf(slot) : items'[i] = items[i]
      BY <1>2, <3>3, <3>4, <3>5
    <3>7. ItemsOf(Slot(v))' = ItemsOf(Slot(v))
      BY <3>1, <3>5, <3>6 DEF ItemsOf, Live
    <3> QED
      BY <3>1, <3>4, <3>5, <3>6, <3>7 DEF VacantFor, At
  <2> QED
    BY <2>2, <2>3
<1> QED
  BY <1>3, <1>4, <1>5

\* A step that is not about labels leaves them as they were asked for.
LEMMA LabelsUntouched ==
  ASSUME TypeOK, Labelling, LabelsConverge, NEW w \in Workers, ~At(w, "idle"), Own(w),
         work[w].h.action # "label", labels' = labels, repo' = repo
  PROVE  Labelling' /\ LabelsConverge'
<1>1. on' = on /\ Slots' = Slots
  BY SamePage DEF Own
<1>2. ASSUME NEW v \in Workers, Active(v)', work'[v].h.action = "label"
      PROVE  LabelCall(v)'
  <2>1. v # w
    BY <1>2 DEF Own, Advance, Active, At, Idle
  <2>2. work'[v] = work[v]
    BY <2>1 DEF Own, Advance
  <2>3. LabelCall(v)
    BY <1>2, <2>2 DEF Labelling, Active, At
  <2> QED
    BY <2>2, <2>3 DEF LabelCall, Progress, At
<1>l. \A slot \in Slots : slot[1] = "label" => latest'[slot] = latest[slot]
  <2>1. latest \in [Slots -> AllStates \cup {"none"}] /\ Slot(w)[1] # "label"
    BY DEF TypeOK, Slot
  <2> QED
    BY <2>1 DEF Own, Advance
<1>3. Labelling'
  BY <1>1, <1>2, <1>l DEF Labelling
<1>4. LabelsConverge'
  <2>1. SUFFICES ASSUME NEW slot \in Slots', slot[1] = "label" PROVE Converges(slot)'
    BY DEF LabelsConverge, Converges
  <2>2. latest'[slot] = latest[slot] /\ HandlerOf(slot)' = HandlerOf(slot)
    BY <1>1, <1>l, <2>1, SamePage
  <2>3. Converges(slot)
    BY <1>1, <2>1 DEF LabelsConverge, Converges
  <2> QED
    BY <2>2, <2>3 DEF Converges
<1> QED
  BY <1>3, <1>4

\* A step that changes no item.
LEMMA ItemsAlone ==
  ASSUME TypeOK, NEW w \in Workers, items' = items, on' = on
  PROVE  ItemStep(w)
  BY DEF TypeOK, ItemStep

-----------------------------------------------------------------------------
(* Comments, threads, incidents, deployments and statuses.                 *)

\* Which handlers come to which steps.
LEMMA StepsOf ==
  ASSUME TypeOK, NEW w \in Workers, ~At(w, "idle")
  PROVE  LET h == work[w].h
             at == work[w].at
         IN  /\ h.does \in {"remove", "labels"} <=> h.action = "label"
             /\ at \in {"lookup", "list", "create", "edit", "status", "settle", "put"} =>
                  h.action # "label"
             /\ at \in {"labels", "remove", "make", "new", "attach", "each"} => h.action = "label"
             /\ at = "lookup" => h.does = "lookup"
             /\ at = "list" => h.does \in {"upsert", "thread", "incident"}
             /\ at = "create" =>
                  h.does \in {"create", "lookup", "deploy", "upsert", "thread", "incident"}
             /\ at = "edit" => h.does = "upsert"
             /\ at = "status" => h.does = "deploy"
             /\ at = "settle" => h.does \in {"thread", "incident"}
             /\ at = "put" => h.does = "put"
             /\ at = "labels" => h.does = "labels"
             /\ at = "each" => h.does = "remove"
<1>1. /\ work[w].at \in Procedure[work[w].h.does] /\ work[w].h.does \in DOMAIN Procedure
      /\ work[w].h.action = "label" =>
           work[w].h \in {GitHubLabel, GitLabLabel, GiteaLabel, AzureLabel}
      /\ work[w].h.action # "label" => work[w].h.does \notin {"remove", "labels"}
  BY CallOf DEF HandlerFacts
<1>2. work[w].h.action = "label" => work[w].h.does \in {"remove", "labels"}
  BY <1>1, LabelHandlers
<1> QED
  BY <1>1, <1>2 DEF Procedure

Purpose(w) ==
  /\ work'[w].at = "settle" => work[w].state = "success"
  /\ (work'[w].at = "create" /\ work[w].h.does = "incident") => work[w].state # "success"

\* The parts of the invariant that a step on items must restore.
LEMMA ItemCall ==
  ASSUME IInv, NEW w \in Workers, ~At(w, "idle"), work[w].h.action # "label",
         Advance(w), ItemStep(w), FoundHere(w), Purpose(w),
         NEW here, here = Slot(w), Mine(w, here),
         excused' = excused \/ excused' = excused \cup {Slot(w)}, faults' \in Nat,
         UNCHANGED <<on, labels, repo, cache, events>>
  PROVE  IInv'
<1>1. /\ TypeOK /\ Rivals /\ Found /\ AtMostOne /\ Vacant /\ Reflected /\ Labelling
      /\ LabelsConverge
  BY DEF IInv
<1>2. Own(w)
  BY <1>1 DEF Own, TypeOK
<1>3. TypeOK' /\ Rivals'
  BY <1>1, <1>2, OwnTypes, OwnRivals
<1>4. Found'
  BY <1>1, <1>2, OwnFound DEF Purpose
<1>5. AtMostOne' /\ Vacant' /\ Reflected'
  BY <1>1, <1>2, OwnItems
<1>6. Labelling' /\ LabelsConverge'
  BY <1>1, <1>2, LabelsUntouched
<1> QED
  BY <1>3, <1>4, <1>5, <1>6 DEF IInv

\* What holds of the items of a slot holds in the next state if they do not
\* change.
LEMMA StillVacant ==
  ASSUME NEW w, NEW here, here = Slot(w), items' = items, work'[w] = work[w], VacantFor(w)
  PROVE  VacantFor(w)'
<1>1. ItemsOf(Slot(w))' = ItemsOf(Slot(w))
  BY DEF ItemsOf, Live, Slot
<1> QED
  BY <1>1 DEF VacantFor, At

\* A call that fails without effect: Handle returns the error, or the client
\* tries once more.
LEMMA NoEffect ==
  ASSUME IInv, NEW w \in Workers, ~At(w, "idle"), work[w].h.action # "label",
         Advance(w), latest' = latest, work'[w] = Idle \/ work'[w] = work[w],
         faults' \in Nat, UNCHANGED <<on, items, labels, repo, cache, excused, events>>
  PROVE  IInv'
<1>1. TypeOK /\ Found /\ AtMostOne /\ Vacant
  BY DEF IInv
<1>2. PICK here : here = Slot(w)
  OBVIOUS
<1>3. here \in Slots
  BY <1>1, <1>2, CallOf
<1>4. ItemStep(w)
  BY <1>1, ItemsAlone
<1>5. FoundHere(w) /\ Purpose(w)
  <2>1. CASE work'[w] = Idle
    BY <2>1 DEF FoundHere, Purpose, Idle
  <2>2. CASE work'[w] = work[w]
    BY <1>1, <2>2, CallOf DEF FoundHere, Purpose, Found, HasMarker, IsCall, At
  <2> QED
    BY <2>1, <2>2
<1>6. Mine(w, here)
  <2>1. here \notin excused' => OneIn(here)'
    <3>1. ItemsOf(here)' = ItemsOf(here)
      BY DEF ItemsOf, Live
    <3>2. here \notin excused' => OneIn(here)
      BY <1>1, <1>3 DEF AtMostOne
    <3> QED
      BY <3>1, <3>2, SlotUntouched
  <2>2. (Active(w)' /\ here \notin excused') => VacantFor(w)'
    <3>1. CASE work'[w] = Idle
      BY <3>1 DEF Active, At, Idle
    <3>2. CASE work'[w] = work[w]
      BY <1>1, <1>2, <3>2, StillVacant DEF Vacant, Active
    <3> QED
      BY <3>1, <3>2
  <2> QED
    BY <2>1, <2>2 DEF Mine
<1> QED
  BY <1>2, <1>4, <1>5, <1>6, ItemCall

\* The look-up of a discussion's node ID keeps the invariant.
LEMMA LookupStep ==
  ASSUME IInv, NEW w \in Workers, Lookup(w)
  PROVE  IInv'
<1>1. TypeOK /\ AtMostOne /\ ~At(w, "idle") /\ faults \in Nat
  BY DEF IInv, TypeOK, Lookup, At
<1>2. work[w].h.action # "label" /\ work[w].h.does = "lookup"
  BY <1>1, StepsOf DEF Lookup, At
<1>3. CASE Refused(w)
  BY <1>1, <1>2, <1>3, RefusedOr, NoEffect DEF Lookup
<1>4. CASE Goto(w, "create") /\ UNCHANGED faults
  <2>1. "create" \in Procedure[work[w].h.does] /\ "create" # "new"
    BY <1>2 DEF Procedure
  <2>2. /\ Advance(w) /\ latest' = latest
        /\ work'[w] = Call(w, "create", work[w].ran, work[w].found, work[w].known,
                           work[w].label, work[w].todo)
    BY <1>1, <1>4, <2>1, Went
  <2>3. work'[w].at = "create" /\ work'[w].h = work[w].h
    BY <2>2 DEF Call
  <2>4. PICK here : here = Slot(w)
    OBVIOUS
  <2>5. FoundHere(w) /\ Purpose(w) /\ ItemStep(w)
    BY <1>1, <1>2, <2>3, ItemsAlone DEF FoundHere, Purpose, Lookup
  <2>6. Mine(w, here)
    <3>1. ItemsOf(here)' = ItemsOf(here) /\ excused' = excused /\ on' = on /\ items' = items
      BY DEF ItemsOf, Live, Lookup
    <3>2. here \notin excused' => OneIn(here)'
      BY <1>1, <2>4, <3>1, SlotUntouched, CallOf DEF AtMostOne
    <3>3. VacantFor(w)'
      BY <1>2, <2>3 DEF VacantFor, At
    <3> QED
      BY <2>2, <3>2, <3>3 DEF Mine
  <2> QED
    BY <1>1, <1>2, <1>4, <2>2, <2>4, <2>5, <2>6, ItemCall DEF Lookup
<1> QED
  BY <1>3, <1>4 DEF Lookup

\* What is known of an item on the page.
LEMMA ShownFields ==
  ASSUME TypeOK, NEW i \in DOMAIN items
  PROVE  /\ items[i] \in Shown /\ IsItem(items[i])
         /\ items[i].by \in {h.action : h \in on} \cup {"person"} /\ items[i].key \in Keys
         /\ items[i].shows \in Words \cup {"none"}
         /\ items[i].open \in BOOLEAN /\ items[i].live \in BOOLEAN
         /\ DOMAIN items = 1..Len(items) /\ Len(items) \in Nat
<1>1. items \in Seq(Shown) /\ IsItem(items[i])
  BY DEF TypeOK
<1>2. items[i] \in Shown
  BY <1>1
<1> QED
  BY <1>1, <1>2 DEF Shown

\* The page after a new item of w's call.
LEMMA Appended ==
  ASSUME TypeOK, NEW w \in Workers, ~At(w, "idle"), on' = on,
         items' = Append(items, Created(w)), NEW here, here = Slot(w)
  PROVE  /\ ItemStep(w)
         /\ DOMAIN items' = DOMAIN items \cup {Len(items) + 1} /\ Len(items) + 1 \in Nat \ {0}
         /\ Len(items) + 1 \notin DOMAIN items
         /\ \A i \in DOMAIN items : items'[i] = items[i]
         /\ items'[Len(items) + 1] = Created(w)
         /\ ItemsOf(here)' = ItemsOf(here) \cup {Len(items) + 1}
         /\ Created(w).open /\ Created(w).by = work[w].h.action /\ Created(w).key = work[w].key
         /\ work[w].h.does # "deploy" => Created(w).shows = Shows(w)
<1> DEFINE n == Len(items) + 1
<1>1. items \in Seq(Shown) /\ Len(items) \in Nat /\ DOMAIN items = 1..Len(items)
  BY DEF TypeOK
<1>2. /\ work[w].h \in on /\ work[w].key \in Keys /\ work[w].state \in DOMAIN work[w].h.words
      /\ work[w].h.action # "person"
  BY CallOf DEF HandlerFacts
<1>3. /\ Created(w).by = work[w].h.action /\ Created(w).key = work[w].key
      /\ Created(w).shows \in {Shows(w), "none"}
      /\ work[w].h.does # "deploy" => Created(w).shows = Shows(w)
  BY DEF Created, Item
<1>4. Created(w).open /\ Created(w).live
  BY DEF Created, Item
<1>5. Shows(w) \in Words /\ Shows(w) \in {work[w].h.words[s] : s \in DOMAIN work[w].h.words}
  BY <1>2 DEF Words, Shows
<1>6. Created(w) \in Shown
  <2>1. (IF work[w].h.does = "deploy" THEN "none" ELSE Shows(w)) \in Words \cup {"none"}
    BY <1>5
  <2> QED
    BY <1>2, <2>1 DEF Shown, Created, Item
<1>7. IsItem(Created(w))
  BY <1>2, <1>3, <1>5 DEF IsItem
<1>8. /\ items' \in Seq(Shown) /\ DOMAIN items' = DOMAIN items \cup {n}
      /\ n \notin DOMAIN items /\ n \in Nat \ {0}
  BY <1>1, <1>6
<1>9. items'[n] = Created(w) /\ \A i \in DOMAIN items : items'[i] = items[i]
  BY <1>1, <1>6
<1>10. \A i \in DOMAIN items' : IsItem(items'[i])
  BY <1>7, <1>8, <1>9 DEF TypeOK
<1>11. ItemStep(w)
  BY <1>3, <1>8, <1>9, <1>10 DEF ItemStep, Slot
<1>12. here[1] = work[w].h.action /\ here[2] = work[w].key
  BY DEF Slot
<1>13. ItemsOf(here)' = ItemsOf(here) \cup {n}
  BY <1>3, <1>4, <1>8, <1>9, <1>12 DEF ItemsOf, Live
<1> QED
  BY <1>3, <1>4, <1>8, <1>9, <1>11, <1>13

\* The page after a change to an item of w's slot.
LEMMA Changed ==
  ASSUME TypeOK, NEW w \in Workers, ~At(w, "idle"), on' = on,
         NEW i \in DOMAIN items, HasMarker(w, i), NEW new \in Shown, IsItem(new),
         new.by = items[i].by, new.key = items[i].key, new.live = items[i].live,
         items' = [items EXCEPT ![i] = new], NEW here, here = Slot(w)
  PROVE  /\ ItemStep(w) /\ DOMAIN items' = DOMAIN items
         /\ \A j \in DOMAIN items : j # i => items'[j] = items[j]
         /\ items'[i] = new
         /\ ItemsOf(here)' = ItemsOf(here)
<1>1. items \in Seq(Shown)
  BY DEF TypeOK
<1>2. /\ items' \in Seq(Shown) /\ DOMAIN items' = DOMAIN items /\ items'[i] = new
      /\ \A j \in DOMAIN items : j # i => items'[j] = items[j]
  BY <1>1
<1>3. \A j \in DOMAIN items' : IsItem(items'[j])
  BY <1>2 DEF TypeOK
<1>4. \A j \in DOMAIN items : /\ items'[j].by = items[j].by /\ items'[j].key = items[j].key
                              /\ items'[j].live = items[j].live
  BY <1>2
<1>5. ItemStep(w)
  BY <1>2, <1>3, <1>4 DEF ItemStep, Slot, HasMarker
<1>6. ItemsOf(here)' = ItemsOf(here)
  BY <1>2, <1>4 DEF ItemsOf, Live
<1> QED
  BY <1>2, <1>5, <1>6

\* The two changes of an item: what it shows, and that it is closed.
LEMMA Rewritten ==
  ASSUME TypeOK, NEW w \in Workers, ~At(w, "idle"), NEW i \in DOMAIN items, HasMarker(w, i),
         NEW new, new = [items[i] EXCEPT !.shows = Shows(w)]
  PROVE  /\ new \in Shown /\ IsItem(new) /\ new.by = items[i].by /\ new.key = items[i].key
         /\ new.live = items[i].live /\ new.open = items[i].open /\ new.shows = Shows(w)
<1>1. items[i] \in Shown /\ IsItem(items[i])
  BY ShownFields
<1>2. work[w].h \in on /\ work[w].state \in DOMAIN work[w].h.words
  BY CallOf
<1>3. Shows(w) \in Words /\ Shows(w) \in {work[w].h.words[s] : s \in DOMAIN work[w].h.words}
  BY <1>2 DEF Words, Shows
<1>4. /\ new.by = items[i].by /\ new.key = items[i].key /\ new.shows = Shows(w)
  BY <1>1 DEF Shown
<1>5. new.live = items[i].live /\ new.open = items[i].open
  BY <1>1 DEF Shown
<1>6. new \in Shown
  BY <1>1, <1>3 DEF Shown
<1>7. IsItem(new)
  BY <1>2, <1>3, <1>4 DEF IsItem, HasMarker
<1> QED
  BY <1>4, <1>5, <1>6, <1>7

\* The change that resolves a thread or closes an incident.
LEMMA Closed ==
  ASSUME TypeOK, NEW i \in DOMAIN items, NEW new, new = [items[i] EXCEPT !.open = FALSE]
  PROVE  /\ new \in Shown /\ IsItem(new) /\ new.by = items[i].by /\ new.key = items[i].key
         /\ new.live = items[i].live /\ ~new.open /\ new.shows = items[i].shows
<1>1. items[i] \in Shown /\ IsItem(items[i])
  BY ShownFields
<1>2. /\ new.by = items[i].by /\ new.key = items[i].key /\ new.shows = items[i].shows
  BY <1>1 DEF Shown
<1>3. new.live = items[i].live /\ ~new.open
  BY <1>1 DEF Shown
<1>4. new \in Shown
  BY <1>1 DEF Shown
<1>5. IsItem(new)
  BY <1>1, <1>2 DEF IsItem
<1> QED
  BY <1>2, <1>3, <1>4, <1>5

\* What a handler looks for are items of its slot.
LEMMA MarkedItems ==
  ASSUME TypeOK, NEW w \in Workers, ~At(w, "idle"), NEW here, here = Slot(w)
  PROVE  /\ Marked(w) \subseteq ItemsOf(here)
         /\ work[w].h.does # "incident" => Marked(w) = ItemsOf(here)
         /\ work[w].h.does = "incident" => Marked(w) = {i \in ItemsOf(here) : items[i].open}
         /\ \A i \in ItemsOf(here) : i \in DOMAIN items /\ i \in Nat \ {0} /\ HasMarker(w, i)
         /\ \A m \in SUBSET Marked(w) : m # {} => Max(m) \in m /\ Min(m) \in m
<1>1. DOMAIN items = 1..Len(items) /\ Len(items) \in Nat
  BY DEF TypeOK
<1>2. here[1] = work[w].h.action /\ here[2] = work[w].key
  BY DEF Slot
<1>3. \A i \in ItemsOf(here) : i \in DOMAIN items /\ i \in Nat \ {0} /\ HasMarker(w, i)
  BY <1>1, <1>2 DEF ItemsOf, Live, HasMarker
<1>4. /\ Marked(w) \subseteq ItemsOf(here)
      /\ work[w].h.does # "incident" => Marked(w) = ItemsOf(here)
      /\ work[w].h.does = "incident" => Marked(w) = {i \in ItemsOf(here) : items[i].open}
  BY <1>2 DEF Marked, ItemsOf, HasMarker
<1>5. ASSUME NEW m \in SUBSET Marked(w), m # {}
      PROVE  Max(m) \in m /\ Min(m) \in m
  <2>1. m \in SUBSET (1..Len(items))
    BY <1>1, <1>3, <1>4
  <2> QED
    BY <1>1, <1>5, <2>1, MaxMin
<1> QED
  BY <1>3, <1>4, <1>5

\* What makes a report stand.
LEMMA Reported ==
  ASSUME TypeOK, NEW w \in Workers, ~At(w, "idle"), on' = on, Return(w), latest' # latest,
         NEW here, here = Slot(w),
         work[w].h.does = "thread" =>
           \E i \in ItemsOf(here)' : work[w].state = "success" => ~items'[i].open,
         (work[w].h.does = "incident" /\ work[w].state = "success") =>
           here \in excused' \/ \A i \in ItemsOf(here)' : ~items'[i].open,
         (work[w].h.does = "incident" /\ work[w].state # "success") =>
           \E i \in ItemsOf(here)' : items'[i].open,
         work[w].h.does \notin {"thread", "incident"} =>
           \E i \in ItemsOf(here)' : items'[i].shows = Shows(w)
  PROVE  Reflects(here)'
<1>1. HandlerOf(here)' = work[w].h /\ here \in Slots
  BY CallOf, SamePage
<1>2. latest'[here] = work[w].state
  <2>1. latest' = [latest EXCEPT ![Slot(w)] = work[w].state]
    BY DEF Return
  <2>2. latest \in [Slots -> AllStates \cup {"none"}]
    BY DEF TypeOK
  <2> QED
    BY <1>1, <2>1, <2>2
<1>3. Verdict(Shows(w)) = Verdict(work[w].state)
  BY CallOf DEF HandlerFacts, Told, Shows
<1>4. CASE work[w].h.does = "thread"
  BY <1>1, <1>2, <1>4 DEF Reflects
<1>5. CASE work[w].h.does = "incident"
  BY <1>1, <1>2, <1>5 DEF Reflects
<1>6. CASE work[w].h.does \notin {"thread", "incident"}
  <2>1. \E i \in ItemsOf(here)' : Verdict(items'[i].shows) = Verdict(work[w].state)
    BY <1>3, <1>6
  <2> QED
    BY <1>1, <1>2, <1>6, <2>1 DEF Reflects
<1> QED
  BY <1>4, <1>5, <1>6

\* An item created in a slot without one is the only one.
LEMMA FirstOne ==
  ASSUME TypeOK, Vacant, NEW w \in Workers, At(w, "create"), on' = on,
         items' = Append(items, Created(w)), NEW here, here = Slot(w), here \notin excused
  PROVE  OneIn(here)'
<1>1. ~At(w, "idle")
  BY DEF At
<1>2. HandlerOf(here)' = work[w].h
  BY <1>1, CallOf, SamePage
<1>3. PICK n : n = Len(items) + 1
  OBVIOUS
<1>4. /\ ItemsOf(here)' = ItemsOf(here) \cup {n}
      /\ \A i \in DOMAIN items : items'[i] = items[i]
      /\ \A i \in ItemsOf(here) : i \in DOMAIN items
  BY <1>1, <1>3, Appended, MarkedItems
<1>5. VacantFor(w)
  BY <1>1 DEF Vacant, Active
<1>6. CASE work[w].h.does \in {"upsert", "thread"}
  <2>1. ItemsOf(here)' = {n}
    BY <1>4, <1>5, <1>6 DEF VacantFor
  <2> QED
    BY <2>1 DEF OneIn
<1>7. CASE work[w].h.does = "incident"
  <2>1. \A i \in ItemsOf(here) : ~items'[i].open
    BY <1>4, <1>5, <1>7 DEF VacantFor
  <2> QED
    BY <1>2, <1>4, <1>7, <2>1 DEF OneIn
<1>8. CASE work[w].h.does \notin {"upsert", "thread", "incident"}
  BY <1>2, <1>8 DEF OneIn
<1> QED
  BY <1>6, <1>7, <1>8

\* The POST keeps the invariant.
LEMMA CreateStep ==
  ASSUME IInv, NEW w \in Workers, Create(w)
  PROVE  IInv'
<1>1. /\ TypeOK /\ Found /\ AtMostOne /\ Vacant /\ ~At(w, "idle") /\ At(w, "create")
      /\ on' = on /\ UNCHANGED <<on, labels, repo, cache, events>>
  BY DEF IInv, Create, At
<1>2. work[w].h.action # "label" /\ (work[w].h.does = "incident" => work[w].state # "success")
  BY <1>1, StepsOf DEF Found, At
<1>3. PICK here : here = Slot(w)
  OBVIOUS
<1>4. PICK n : n = Len(items) + 1
  OBVIOUS
<1>5. CASE Refused(w) /\ UNCHANGED <<items, excused>>
  BY <1>1, <1>2, <1>5, RefusedOr, NoEffect
<1>6. CASE /\ Refused(w) /\ items' = Append(items, Created(w))
           /\ IF work[w].h.again THEN Excuse(w) ELSE UNCHANGED excused
  <2>1. /\ Advance(w) /\ latest' = latest /\ faults' \in Nat
        /\ work'[w] = Idle \/ (work[w].h.again /\ work'[w] = work[w])
    BY <1>1, <1>6, RefusedOr
  <2>2. ItemStep(w)
    BY <1>1, <1>3, <1>6, Appended
  <2>3. FoundHere(w) /\ Purpose(w)
    BY <1>1, <1>2, <2>1 DEF FoundHere, Purpose, At, Idle
  <2>4. excused' = excused \/ excused' = excused \cup {Slot(w)}
    BY <1>6 DEF Excuse
  <2>5. Mine(w, here)
    <3>1. here \notin excused' => OneIn(here)'
      BY <1>1, <1>3, <1>6, <2>4, FirstOne
    <3>2. (Active(w)' /\ here \notin excused') => VacantFor(w)'
      BY <1>3, <1>6, <2>1 DEF Active, At, Idle, Excuse
    <3> QED
      BY <2>1, <3>1, <3>2 DEF Mine
  <2> QED
    BY <1>1, <1>2, <1>3, <2>1, <2>2, <2>3, <2>4, <2>5, ItemCall
<1>7. CASE /\ items' = Append(items, Created(w)) /\ AfterCreate(w, Len(items) + 1)
           /\ UNCHANGED <<excused, faults>>
  <2>1. /\ ItemStep(w) /\ n \in DOMAIN items' /\ n \in Nat /\ items'[n] = Created(w)
        /\ n \in ItemsOf(here)'
        /\ Created(w).open /\ Created(w).by = work[w].h.action /\ Created(w).key = work[w].key
        /\ work[w].h.does # "deploy" => Created(w).shows = Shows(w)
    BY <1>1, <1>3, <1>4, <1>7, Appended
  <2>2. here \notin excused' => OneIn(here)'
    BY <1>1, <1>3, <1>7, FirstOne
  <2>3. faults' \in Nat
    BY <1>1, <1>7 DEF TypeOK
  <2>4. ASSUME NEW step \in {"settle", "status"}, With(w, step, n),
               step = "settle" => work[w].h.does = "thread" /\ work[w].state = "success",
               step = "status" => work[w].h.does = "deploy"
        PROVE  IInv'
    <3>1. step \in Procedure[work[w].h.does] /\ step # "new"
      BY <2>4 DEF Procedure
    <3>2. /\ Advance(w) /\ latest' = latest
          /\ work'[w] = Call(w, step, work[w].ran, n, work[w].known, work[w].label, work[w].todo)
      BY <1>1, <2>1, <2>4, <3>1, WentWith
    <3>3. work'[w].at = step /\ work'[w].found = n /\ work'[w].h = work[w].h
      BY <3>2 DEF Call
    <3>4. FoundHere(w) /\ Purpose(w)
      BY <2>1, <2>4, <3>3 DEF FoundHere, Purpose
    <3>5. VacantFor(w)'
      BY <2>4, <3>3 DEF VacantFor, At
    <3>6. Mine(w, here)
      BY <2>2, <3>2, <3>5 DEF Mine
    <3> QED
      BY <1>1, <1>2, <1>3, <1>7, <2>1, <2>3, <3>2, <3>4, <3>6, ItemCall
  <2>5. ASSUME Return(w), ~(work[w].h.does = "thread" /\ work[w].state = "success"),
               work[w].h.does # "deploy"
        PROVE  IInv'
    <3>1. Advance(w) /\ work'[w] = Idle
      BY <1>1, <2>5, Left
    <3>2. FoundHere(w) /\ Purpose(w) /\ ~Active(w)'
      BY <3>1 DEF FoundHere, Purpose, Idle, Active, At
    <3>3. latest' # latest => Reflects(here)'
      <4>1. SUFFICES ASSUME latest' # latest PROVE Reflects(here)'
        OBVIOUS
      <4>2. items'[n].open /\ items'[n].shows = Shows(w)
        BY <2>1, <2>5
      <4> QED
        BY <1>1, <1>2, <1>3, <2>1, <2>5, <4>1, <4>2, Reported
    <3>4. Mine(w, here)
      BY <2>2, <3>2, <3>3 DEF Mine
    <3> QED
      BY <1>1, <1>2, <1>3, <1>7, <2>1, <2>3, <3>1, <3>2, <3>4, ItemCall
  <2>6. CASE work[w].h.does = "thread" /\ work[w].state = "success"
    BY <1>4, <1>7, <2>4, <2>6 DEF AfterCreate
  <2>7. CASE work[w].h.does = "deploy"
    BY <1>4, <1>7, <2>4, <2>7 DEF AfterCreate
  <2>8. CASE /\ ~(work[w].h.does = "thread" /\ work[w].state = "success")
             /\ work[w].h.does # "deploy"
    <3>1. Return(w)
      BY <1>7, <2>8 DEF AfterCreate
    <3> QED
      BY <2>5, <2>8, <3>1
  <2> QED
    BY <2>6, <2>7, <2>8
<1> QED
  BY <1>5, <1>6, <1>7 DEF Create

\* What the handler does about the item it found, or about none: it found
\* none only if there is none, or with an excuse.
LEMMA Decided ==
  ASSUME IInv, NEW w \in Workers, At(w, "list"), NEW i \in Nat, Decide(w, i),
         i # 0 => i \in Marked(w), i = 0 => Slot(w) \in excused' \/ Marked(w) = {},
         excused' = excused \/ excused' = excused \cup {Slot(w)}, faults' \in Nat,
         UNCHANGED <<on, items, labels, repo, cache, events>>
  PROVE  IInv'
<1>1. TypeOK /\ AtMostOne /\ ~At(w, "idle")
  BY DEF IInv, At
<1>2. work[w].h.action # "label" /\ work[w].h.does \in {"upsert", "thread", "incident"}
  BY <1>1, StepsOf DEF At
<1>3. PICK here : here = Slot(w)
  OBVIOUS
<1>4. /\ Marked(w) \subseteq ItemsOf(here)
      /\ work[w].h.does # "incident" => Marked(w) = ItemsOf(here)
      /\ work[w].h.does = "incident" => Marked(w) = {j \in ItemsOf(here) : items[j].open}
      /\ \A j \in ItemsOf(here) : j \in DOMAIN items /\ HasMarker(w, j)
  BY <1>1, <1>3, MarkedItems
<1>5. ItemStep(w) /\ ItemsOf(here)' = ItemsOf(here)
  BY <1>1, ItemsAlone DEF ItemsOf, Live
<1>6. here \in Slots /\ HandlerOf(here) = work[w].h
  BY <1>1, <1>3, CallOf
<1>7. here \notin excused' => OneIn(here) /\ OneIn(here)'
  BY <1>1, <1>3, <1>5, <1>6, SlotUntouched DEF AtMostOne
<1>8. ASSUME NEW step \in {"create", "edit", "settle"}, With(w, step, i),
             step \in Procedure[work[w].h.does], (step = "create") = (i = 0),
             step = "settle" => work[w].state = "success",
             (step = "create" /\ work[w].h.does = "incident") => work[w].state # "success"
      PROVE  IInv'
  <2>1. /\ Advance(w) /\ latest' = latest
        /\ work'[w] = Call(w, step, work[w].ran, i, work[w].known, work[w].label, work[w].todo)
    BY <1>1, <1>8, WentWith
  <2>2. /\ work'[w].at = step /\ work'[w].found = i /\ work'[w].h = work[w].h
        /\ Slot(w)' = Slot(w)
    BY <2>1 DEF Call, Slot
  <2>3. FoundHere(w) /\ Purpose(w)
    BY <1>4, <1>8, <2>2 DEF FoundHere, Purpose, HasMarker
  <2>4. ASSUME here \notin excused' PROVE VacantFor(w)'
    <3>1. ItemsOf(Slot(w))' = ItemsOf(here)
      BY <1>3, <1>5, <2>2 DEF ItemsOf, Live
    <3>2. CASE i = 0
      <4>1. Marked(w) = {}
        BY <1>3, <2>4, <3>2
      <4> QED
        BY <1>4, <1>8, <2>2, <3>1, <3>2, <4>1 DEF VacantFor, At
    <3>3. CASE i # 0
      <4>1. i \in Marked(w)
        BY <3>3
      <4>2. work[w].h.does = "incident" => \A j \in ItemsOf(here) : items[j].open => j = i
        BY <1>4, <1>6, <1>7, <2>4, <4>1 DEF OneIn
      <4> QED
        BY <1>8, <2>2, <3>1, <3>3, <4>2 DEF VacantFor, At
    <3> QED
      BY <3>2, <3>3
  <2>5. Mine(w, here)
    BY <1>7, <2>1, <2>4 DEF Mine
  <2> QED
    BY <1>1, <1>2, <1>3, <1>5, <2>1, <2>3, <2>5, ItemCall
<1>9. ASSUME Return(w), work[w].h.does \in {"thread", "incident"},
             work[w].h.does = "thread" => i # 0 /\ work[w].state # "success",
             work[w].h.does = "incident" => (work[w].state = "success") = (i = 0)
      PROVE  IInv'
  <2>1. Advance(w) /\ work'[w] = Idle
    BY <1>1, <1>9, Left
  <2>2. FoundHere(w) /\ Purpose(w) /\ ~Active(w)'
    BY <2>1 DEF FoundHere, Purpose, Idle, Active, At
  <2>3. ASSUME latest' # latest PROVE Reflects(here)'
    <3>1. work[w].h.does = "thread" =>
            \E j \in ItemsOf(here)' : work[w].state = "success" => ~items'[j].open
      BY <1>4, <1>5, <1>9
    <3>2. (work[w].h.does = "incident" /\ work[w].state = "success") =>
            here \in excused' \/ \A j \in ItemsOf(here)' : ~items'[j].open
      BY <1>3, <1>4, <1>5, <1>9
    <3>3. (work[w].h.does = "incident" /\ work[w].state # "success") =>
            \E j \in ItemsOf(here)' : items'[j].open
      BY <1>4, <1>5, <1>9
    <3> QED
      BY <1>1, <1>3, <1>9, <2>3, <3>1, <3>2, <3>3, Reported
  <2>4. Mine(w, here)
    BY <1>7, <2>2, <2>3 DEF Mine
  <2> QED
    BY <1>1, <1>2, <1>3, <1>5, <2>1, <2>2, <2>4, ItemCall
<1>10. CASE work[w].h.does = "upsert"
  <2>1. CASE i = 0
    <3>1. With(w, "create", i) /\ "create" \in Procedure[work[w].h.does]
      BY <1>10, <2>1 DEF Decide, Procedure
    <3> QED
      BY <1>8, <1>10, <2>1, <3>1
  <2>2. CASE i # 0
    <3>1. With(w, "edit", i) /\ "edit" \in Procedure[work[w].h.does]
      BY <1>10, <2>2 DEF Decide, Procedure
    <3> QED
      BY <1>8, <1>10, <2>2, <3>1
  <2> QED
    BY <2>1, <2>2
<1>11. CASE work[w].h.does = "thread"
  <2>p. {"create", "settle"} \subseteq Procedure[work[w].h.does]
    BY <1>11 DEF Procedure
  <2>1. CASE i = 0
    <3>1. With(w, "create", i)
      BY <1>11, <2>1 DEF Decide
    <3> QED
      BY <1>8, <1>11, <2>p, <2>1, <3>1
  <2>2. CASE i # 0 /\ work[w].state = "success"
    <3>1. With(w, "settle", i)
      BY <1>11, <2>2 DEF Decide
    <3> QED
      BY <1>8, <1>11, <2>p, <2>2, <3>1
  <2>3. CASE i # 0 /\ work[w].state # "success"
    <3>1. Return(w)
      BY <1>11, <2>3 DEF Decide
    <3> QED
      BY <1>9, <1>11, <2>3, <3>1
  <2> QED
    BY <2>1, <2>2, <2>3
<1>12. CASE work[w].h.does = "incident"
  <2>p. {"create", "settle"} \subseteq Procedure[work[w].h.does]
    BY <1>12 DEF Procedure
  <2>1. CASE i = 0 /\ work[w].state # "success"
    <3>1. With(w, "create", i)
      BY <1>12, <2>1 DEF Decide
    <3> QED
      BY <1>8, <1>12, <2>p, <2>1, <3>1
  <2>2. CASE i # 0 /\ work[w].state = "success"
    <3>1. With(w, "settle", i)
      BY <1>12, <2>2 DEF Decide
    <3> QED
      BY <1>8, <1>12, <2>p, <2>2, <3>1
  <2>3. CASE (i = 0) = (work[w].state = "success")
    <3>1. Return(w)
      BY <1>12, <2>3 DEF Decide
    <3> QED
      BY <1>9, <1>12, <2>3, <3>1
  <2> QED
    BY <2>1, <2>2, <2>3
<1> QED
  BY <1>2, <1>10, <1>11, <1>12

\* The listing, with what is decided on it, keeps the invariant.
LEMMA ListStep ==
  ASSUME IInv, NEW w \in Workers, List(w)
  PROVE  IInv'
<1>1. /\ TypeOK /\ ~At(w, "idle") /\ At(w, "list") /\ faults \in Nat
      /\ UNCHANGED <<on, items, labels, repo, cache, events>>
  BY DEF IInv, TypeOK, List, At
<1>2. CASE \E newest \in BOOLEAN :
             LET m == Marked(w) \cap Listing(w, newest)
             IN  /\ Decide(w, IF m = {} THEN 0 ELSE IF newest THEN Max(m) ELSE Min(m))
                 /\ IF m = {} /\ Marked(w) # {} THEN Excuse(w) ELSE UNCHANGED excused
                 /\ UNCHANGED faults
  <2>1. PICK newest \in BOOLEAN :
             LET m == Marked(w) \cap Listing(w, newest)
             IN  /\ Decide(w, IF m = {} THEN 0 ELSE IF newest THEN Max(m) ELSE Min(m))
                 /\ IF m = {} /\ Marked(w) # {} THEN Excuse(w) ELSE UNCHANGED excused
                 /\ UNCHANGED faults
    BY <1>2
  <2>2. PICK m : m = Marked(w) \cap Listing(w, newest)
    OBVIOUS
  <2>3. PICK i : i = IF m = {} THEN 0 ELSE IF newest THEN Max(m) ELSE Min(m)
    OBVIOUS
  <2>4. PICK here : here = Slot(w)
    OBVIOUS
  <2>5. m # {} => i \in m
    BY <1>1, <2>2, <2>3, <2>4, MarkedItems
  <2>6. \A j \in Marked(w) : j \in Nat \ {0}
    BY <1>1, <2>4, MarkedItems
  <2>7. i \in Nat /\ (i # 0 => i \in Marked(w)) /\ (i = 0 => m = {})
    BY <2>2, <2>3, <2>5, <2>6
  <2>8. /\ Decide(w, i) /\ faults' = faults
        /\ IF m = {} /\ Marked(w) # {} THEN Excuse(w) ELSE UNCHANGED excused
    BY <2>1, <2>2, <2>3
  <2>9. /\ excused' = excused \/ excused' = excused \cup {Slot(w)}
        /\ i = 0 => Slot(w) \in excused' \/ Marked(w) = {}
    BY <2>7, <2>8 DEF Excuse
  <2> QED
    BY <1>1, <2>7, <2>8, <2>9, Decided
<1>3. CASE work[w].h.does # "incident" /\ Fault /\ Decide(w, 0) /\ Excuse(w)
  <2>1. /\ faults' \in Nat /\ excused' = excused \cup {Slot(w)} /\ Slot(w) \in excused'
    BY <1>1, <1>3 DEF Fault, Excuse
  <2> QED
    BY <1>1, <1>3, <2>1, Decided
<1>4. CASE work[w].h.does = "incident" /\ Refused(w) /\ UNCHANGED excused
  <2>1. work[w].h.action # "label"
    BY <1>1, StepsOf DEF At
  <2> QED
    BY <1>1, <1>4, <2>1, RefusedOr, NoEffect
<1> QED
  BY <1>2, <1>3, <1>4 DEF List

\* The look-up of an existing deployment keeps the invariant.
LEMMA FindExistingDeploymentStep ==
  ASSUME IInv, NEW w \in Workers, FindExistingDeployment(w)
  PROVE  IInv'
<1>1. /\ TypeOK /\ AtMostOne /\ ~At(w, "idle") /\ At(w, "create") /\ work[w].h.does = "deploy"
      /\ UNCHANGED <<on, items, labels, repo, cache, excused, events>> /\ faults \in Nat
  BY DEF IInv, TypeOK, FindExistingDeployment, At
<1>2. work[w].h.action # "label"
  BY <1>1, StepsOf DEF At
<1>3. CASE Refused(w)
  BY <1>1, <1>2, <1>3, RefusedOr, NoEffect
<1>4. CASE Fail(w) /\ UNCHANGED faults
  BY <1>1, <1>2, <1>4, Left, NoEffect DEF Fail
<1>5. CASE Marked(w) # {} /\ With(w, "status", Max(Marked(w))) /\ UNCHANGED faults
  <2>1. PICK here : here = Slot(w)
    OBVIOUS
  <2>2. PICK i : i = Max(Marked(w))
    OBVIOUS
  <2>3. i \in DOMAIN items /\ i \in Nat /\ HasMarker(w, i) /\ here \in Slots
    BY <1>1, <1>5, <2>1, <2>2, MarkedItems, CallOf
  <2>4. "status" \in Procedure[work[w].h.does] /\ "status" # "new"
    BY <1>1 DEF Procedure
  <2>5. /\ Advance(w) /\ latest' = latest
        /\ work'[w] = Call(w, "status", work[w].ran, i, work[w].known, work[w].label, work[w].todo)
    BY <1>1, <1>5, <2>2, <2>3, <2>4, WentWith
  <2>6. work'[w].at = "status" /\ work'[w].found = i /\ work'[w].h = work[w].h
    BY <2>5 DEF Call
  <2>7. FoundHere(w) /\ Purpose(w) /\ ItemStep(w)
    BY <1>1, <2>3, <2>6, ItemsAlone DEF FoundHere, Purpose, HasMarker
  <2>8. Mine(w, here)
    <3>1. here \notin excused' => OneIn(here)'
      BY <1>1, <2>3, SlotUntouched DEF AtMostOne, ItemsOf, Live
    <3>2. VacantFor(w)'
      BY <2>6 DEF VacantFor, At
    <3> QED
      BY <2>5, <3>1, <3>2 DEF Mine
  <2> QED
    BY <1>1, <1>2, <1>5, <2>1, <2>5, <2>7, <2>8, ItemCall
<1> QED
  BY <1>3, <1>4, <1>5 DEF FindExistingDeployment

\* The PUT or PATCH of an item keeps the invariant.
LEMMA UpdateStep ==
  ASSUME IInv, NEW w \in Workers, Update(w)
  PROVE  IInv'
<1> DEFINE i == work[w].found
           new == IF At(w, "settle") THEN [items[i] EXCEPT !.open = FALSE]
                                     ELSE [items[i] EXCEPT !.shows = Shows(w)]
<1>1. /\ TypeOK /\ Found /\ AtMostOne /\ Vacant /\ ~At(w, "idle") /\ faults \in Nat
      /\ work[w].at \in {"edit", "status", "settle"}
      /\ UNCHANGED <<on, labels, repo, cache, excused, events>>
  BY DEF IInv, TypeOK, Update, At
<1>2. /\ work[w].h.action # "label"
      /\ At(w, "settle") => work[w].h.does \in {"thread", "incident"} /\ work[w].state = "success"
      /\ ~At(w, "settle") => work[w].h.does \in {"upsert", "deploy"}
  BY <1>1, StepsOf DEF Found, At
<1>3. i \in DOMAIN items /\ HasMarker(w, i)
  BY <1>1, CallOf DEF Found, IsCall
<1>4. PICK here : here = Slot(w)
  OBVIOUS
<1>5. here \in Slots /\ HandlerOf(here) = work[w].h /\ HandlerOf(here)' = work[w].h
  BY <1>1, <1>4, CallOf, SamePage
<1>6. ASSUME items[i].live, items' = [items EXCEPT ![i] = new]
      PROVE  /\ ItemStep(w) /\ DOMAIN items' = DOMAIN items /\ ItemsOf(here)' = ItemsOf(here)
             /\ i \in ItemsOf(here)'
             /\ \A j \in ItemsOf(here) : items'[j].open => items[j].open
             /\ At(w, "settle") => ~items'[i].open
             /\ ~At(w, "settle") => items'[i].shows = Shows(w)
             /\ here \notin excused' => OneIn(here)'
             /\ items'[i].by = work[w].h.action /\ items'[i].key = work[w].key
  <2>1. PICK n : n = new
    OBVIOUS
  <2>n. items' = [items EXCEPT ![i] = n]
    BY <1>6, <2>1
  <2>2. CASE At(w, "settle")
    <3>1. n = [items[i] EXCEPT !.open = FALSE]
      BY <2>1, <2>2
    <3>2. /\ n \in Shown /\ IsItem(n) /\ n.by = items[i].by /\ n.key = items[i].key
          /\ n.live = items[i].live /\ ~n.open
      BY <1>1, <1>3, <3>1, Closed
    <3>3. /\ ItemStep(w) /\ DOMAIN items' = DOMAIN items /\ ItemsOf(here)' = ItemsOf(here)
          /\ items'[i] = n /\ \A j \in DOMAIN items : j # i => items'[j] = items[j]
      BY <1>1, <1>3, <1>4, <2>n, <3>2, Changed
    <3>4. i \in ItemsOf(here)
      BY <1>3, <1>4, <1>6 DEF ItemsOf, Live, HasMarker, Slot
    <3>5. \A j \in ItemsOf(here) : items'[j].open => items[j].open
      BY <3>2, <3>3 DEF ItemsOf, Live
    <3>6. here \notin excused' => OneIn(here)'
      BY <1>1, <1>5, <3>3, <3>5 DEF AtMostOne, OneIn
    <3> QED
      BY <1>3, <2>2, <3>2, <3>3, <3>4, <3>5, <3>6 DEF HasMarker
  <2>3. CASE ~At(w, "settle")
    <3>1. n = [items[i] EXCEPT !.shows = Shows(w)]
      BY <2>1, <2>3
    <3>2. /\ n \in Shown /\ IsItem(n) /\ n.by = items[i].by /\ n.key = items[i].key
          /\ n.live = items[i].live /\ n.open = items[i].open /\ n.shows = Shows(w)
      BY <1>1, <1>3, <3>1, Rewritten
    <3>3. /\ ItemStep(w) /\ DOMAIN items' = DOMAIN items /\ ItemsOf(here)' = ItemsOf(here)
          /\ items'[i] = n /\ \A j \in DOMAIN items : j # i => items'[j] = items[j]
      BY <1>1, <1>3, <1>4, <2>n, <3>2, Changed
    <3>4. i \in ItemsOf(here)
      BY <1>3, <1>4, <1>6 DEF ItemsOf, Live, HasMarker, Slot
    <3>5. \A j \in ItemsOf(here) : items'[j].open => items[j].open
      BY <3>2, <3>3 DEF ItemsOf, Live
    <3>6. here \notin excused' => OneIn(here)'
      BY <1>1, <1>5, <3>3, <3>5 DEF AtMostOne, OneIn
    <3> QED
      BY <1>3, <2>3, <3>2, <3>3, <3>4, <3>5, <3>6 DEF HasMarker
  <2> QED
    BY <2>2, <2>3
<1>7. CASE items[i].live /\ items' = [items EXCEPT ![i] = new] /\ Return(w) /\ UNCHANGED faults
  <2>1. Advance(w) /\ work'[w] = Idle /\ faults' \in Nat
    BY <1>1, <1>7, Left
  <2>2. FoundHere(w) /\ Purpose(w) /\ ~Active(w)'
    BY <2>1 DEF FoundHere, Purpose, Idle, Active, At
  <2>3. ASSUME latest' # latest PROVE Reflects(here)'
    <3>1. work[w].h.does = "thread" =>
            \E j \in ItemsOf(here)' : work[w].state = "success" => ~items'[j].open
      BY <1>2, <1>6, <1>7
    <3>2. (work[w].h.does = "incident" /\ work[w].state = "success") =>
            here \in excused' \/ \A j \in ItemsOf(here)' : ~items'[j].open
      <4>1. SUFFICES ASSUME work[w].h.does = "incident", here \notin excused'
                     PROVE  \A j \in ItemsOf(here)' : ~items'[j].open
        OBVIOUS
      <4>2. At(w, "settle") /\ VacantFor(w)
        BY <1>1, <1>2, <1>4, <4>1 DEF Vacant, Active
      <4>3. \A j \in ItemsOf(here) : items[j].open => j = i
        BY <1>4, <4>1, <4>2 DEF VacantFor
      <4> QED
        BY <1>6, <1>7, <4>2, <4>3
    <3>3. ~(work[w].h.does = "incident" /\ work[w].state # "success")
      BY <1>2
    <3>4. work[w].h.does \notin {"thread", "incident"} =>
            \E j \in ItemsOf(here)' : items'[j].shows = Shows(w)
      BY <1>2, <1>6, <1>7
    <3> QED
      BY <1>1, <1>4, <1>7, <2>3, <3>1, <3>2, <3>3, <3>4, Reported
  <2>4. Mine(w, here)
    BY <1>6, <1>7, <2>2, <2>3 DEF Mine
  <2> QED
    BY <1>1, <1>2, <1>4, <1>6, <1>7, <2>1, <2>2, <2>4, ItemCall
<1>8. CASE Fail(w) /\ UNCHANGED <<items, faults>>
  BY <1>1, <1>2, <1>8, Left, NoEffect DEF Fail
<1>9. CASE Refused(w) /\ UNCHANGED items
  BY <1>1, <1>2, <1>9, RefusedOr, NoEffect
<1>10. CASE items[i].live /\ items' = [items EXCEPT ![i] = new] /\ Refused(w)
  <2>1. /\ Advance(w) /\ latest' = latest /\ faults' \in Nat
        /\ work'[w] = Idle \/ work'[w] = work[w]
    BY <1>1, <1>10, RefusedOr
  <2>2. FoundHere(w) /\ Purpose(w)
    <3>1. CASE work'[w] = Idle
      BY <3>1 DEF FoundHere, Purpose, Idle
    <3>2. CASE work'[w] = work[w]
      BY <1>1, <1>2, <1>3, <1>6, <1>10, <3>2 DEF FoundHere, Purpose, At
    <3> QED
      BY <2>1, <3>1, <3>2
  <2>3. (Active(w)' /\ here \notin excused') => VacantFor(w)'
    <3>1. SUFFICES ASSUME work'[w] = work[w], here \notin excused' PROVE VacantFor(w)'
      BY <2>1 DEF Active, At, Idle
    <3>2. VacantFor(w)
      BY <1>1, <1>4, <3>1 DEF Vacant, Active
    <3>3. ItemsOf(Slot(w))' = ItemsOf(here)
      BY <1>4, <1>6, <1>10, <3>1, SMTT(20) DEF ItemsOf, Live, Slot
    <3> QED
      BY <1>1, <1>4, <1>6, <1>10, <3>1, <3>2, <3>3 DEF VacantFor, At
  <2>4. Mine(w, here)
    BY <1>6, <1>10, <2>1, <2>3 DEF Mine
  <2> QED
    BY <1>1, <1>2, <1>4, <1>6, <1>10, <2>1, <2>2, <2>4, ItemCall
<1> QED
  BY <1>7, <1>8, <1>9, <1>10 DEF Update

\* Setting a commit status keeps the invariant.
LEMMA PutStep ==
  ASSUME IInv, NEW w \in Workers, Put(w)
  PROVE  IInv'
<1> DEFINE put == items' = IF Marked(w) = {} THEN Append(items, Created(w))
                           ELSE [items EXCEPT ![Max(Marked(w))].shows = Shows(w)]
<1>1. /\ TypeOK /\ ~At(w, "idle") /\ At(w, "put") /\ faults \in Nat
      /\ UNCHANGED <<on, labels, repo, cache, excused, events>>
  BY DEF IInv, TypeOK, Put, At
<1>2. work[w].h.action # "label" /\ work[w].h.does = "put"
  BY <1>1, StepsOf DEF At
<1>3. PICK here : here = Slot(w)
  OBVIOUS
<1>4. HandlerOf(here)' = work[w].h
  BY <1>1, <1>3, CallOf, SamePage
<1>5. OneIn(here)'
  BY <1>2, <1>4 DEF OneIn
<1>6. ASSUME put
      PROVE  ItemStep(w) /\ \E j \in ItemsOf(here)' : items'[j].shows = Shows(w)
  <2>1. CASE Marked(w) = {}
    <3>1. items' = Append(items, Created(w))
      BY <1>6, <2>1
    <3> QED
      BY <1>1, <1>2, <1>3, <3>1, Appended
  <2>2. CASE Marked(w) # {}
    <3>1. PICK i : i = Max(Marked(w))
      OBVIOUS
    <3>2. i \in ItemsOf(here) /\ i \in DOMAIN items /\ HasMarker(w, i)
      BY <1>1, <1>3, <2>2, <3>1, MarkedItems
    <3>3. PICK new : new = [items[i] EXCEPT !.shows = Shows(w)]
      OBVIOUS
    <3>4. items' = [items EXCEPT ![i] = new]
      <4>1. items' = [items EXCEPT ![i].shows = Shows(w)]
        BY <1>6, <2>2, <3>1
      <4> QED
        BY <3>3, <4>1
    <3>5. /\ new \in Shown /\ IsItem(new) /\ new.by = items[i].by /\ new.key = items[i].key
          /\ new.live = items[i].live /\ new.shows = Shows(w)
      BY <1>1, <3>2, <3>3, Rewritten
    <3>6. ItemStep(w) /\ items'[i] = new /\ ItemsOf(here)' = ItemsOf(here)
      BY <1>1, <1>3, <3>2, <3>4, <3>5, Changed
    <3> QED
      BY <3>2, <3>5, <3>6
  <2> QED
    BY <2>1, <2>2
<1>7. CASE put /\ Return(w) /\ UNCHANGED faults
  <2>1. Advance(w) /\ work'[w] = Idle /\ faults' \in Nat
    BY <1>1, <1>7, Left
  <2>2. FoundHere(w) /\ Purpose(w) /\ ~Active(w)'
    BY <2>1 DEF FoundHere, Purpose, Idle, Active, At
  <2>3. latest' # latest => Reflects(here)'
    BY <1>1, <1>2, <1>3, <1>6, <1>7, Reported
  <2>4. Mine(w, here)
    BY <1>5, <2>2, <2>3 DEF Mine
  <2> QED
    BY <1>1, <1>2, <1>3, <1>6, <1>7, <2>1, <2>2, <2>4, ItemCall
<1>8. CASE Refused(w) /\ UNCHANGED items
  BY <1>1, <1>2, <1>8, RefusedOr, NoEffect
<1>9. CASE put /\ Refused(w)
  <2>1. /\ Advance(w) /\ latest' = latest /\ faults' \in Nat
        /\ work'[w] = Idle \/ work'[w] = work[w]
    BY <1>1, <1>9, RefusedOr
  <2>2. FoundHere(w) /\ Purpose(w) /\ VacantFor(w)'
    BY <1>1, <2>1 DEF FoundHere, Purpose, VacantFor, At, Idle
  <2>3. Mine(w, here)
    BY <1>5, <2>1, <2>2 DEF Mine
  <2> QED
    BY <1>1, <1>2, <1>3, <1>6, <1>9, <2>1, <2>2, <2>3, ItemCall
<1> QED
  BY <1>7, <1>8, <1>9 DEF Put

-----------------------------------------------------------------------------
(* Labels.                                                                 *)

\* What is known of a running label call.
LEMMA LabelCallFacts ==
  ASSUME TypeOK, Rivals, Labelling, NEW w \in Workers, ~At(w, "idle"), work[w].h.action = "label"
  PROVE  LET h == work[w].h
             s == work[w].state
         IN  /\ h \in {GitHubLabel, GitLabLabel, GiteaLabel, AzureLabel}
             /\ h.does \in {"remove", "labels"}
             /\ h.does = "labels" => h.makes = "missing"
             /\ h.does = "remove" => h.makes # "missing" /\ h.removes # "with add"
             /\ h.removes = "with add" <=> h = GitLabLabel
             /\ work[w].key = PageKey /\ Slot(w) = <<"label", PageKey>>
             /\ Add[s] \subseteq Names /\ Remove[s] \subseteq Names /\ s \in States
             /\ \A g \in on : g.action = "label" => g = h
             /\ LabelCall(w)
             /\ Remove[s] \subseteq (UNION {Remove[t] : t \in States})
<1>1. /\ work[w].h \in {GitHubLabel, GitLabLabel, GiteaLabel, AzureLabel}
      /\ work[w].h \in on /\ work[w].state \in States /\ work[w].key = PageKey
  BY CallOf DEF HandlerFacts, IsCall
<1>2. \A g \in on : g.action = "label" => g = work[w].h
  BY <1>1, HandlersOfPages DEF TypeOK
<1>3. LabelCall(w)
  BY DEF Labelling, Active
<1>4. /\ Add[work[w].state] \subseteq Names /\ Remove[work[w].state] \subseteq Names
      /\ Remove[work[w].state] \subseteq (UNION {Remove[t] : t \in States})
  BY <1>1, ScmAssumption
<1>5. Slot(w) = <<"label", PageKey>>
  BY <1>1 DEF Slot
<1> QED
  BY <1>1, <1>2, <1>3, <1>4, <1>5, LabelHandlers

LabelledBefore ==
  /\ Existing \ (UNION {Remove[t] : t \in States}) \subseteq labels
  /\ (\A h \in on : h.action = "label" => h.makes # "none") => \A n \in labels : repo[n] # "absent"

\* The parts of the invariant that a step of a label call must restore.
LEMMA LabelStep ==
  ASSUME IInv, NEW w \in Workers, ~At(w, "idle"), work[w].h.action = "label", Advance(w),
         UNCHANGED <<on, items, excused, events>>, faults' \in Nat,
         labels' \subseteq Names, cache' \subseteq Names,
         repo' \in [Names -> {"absent", "plain", "coloured"}],
         work'[w] = Idle \/ LabelCall(w)', LabelledBefore',
         NEW here, here = Slot(w), latest' # latest => Converges(here)'
  PROVE  IInv'
<1>1. /\ TypeOK /\ Rivals /\ Found /\ AtMostOne /\ Vacant /\ Reflected /\ Labelling
      /\ LabelsConverge
  BY DEF IInv
<1>2. /\ work[w].h.does \in {"remove", "labels"} /\ here = <<"label", PageKey>>
      /\ here \in Slots
  BY <1>1, LabelCallFacts, CallOf
<1>3. work'[w].at \notin {"edit", "status", "settle", "create"}
  <2>1. work'[w] = Idle \/ work'[w].at \in Procedure[work[w].h.does]
    BY DEF Advance
  <2> QED
    BY <1>2, <2>1 DEF Procedure, Idle
<1>4. FoundHere(w) /\ ItemStep(w)
  BY <1>1, <1>3, ItemsAlone DEF FoundHere
<1>5. Own(w)
  BY <1>1, <1>4 DEF Own, TypeOK
<1>6. TypeOK' /\ Rivals' /\ Found'
  BY <1>1, <1>3, <1>5, OwnTypes, OwnRivals, OwnFound
<1>7. Mine(w, here)
  <2>1. here \notin excused' => OneIn(here)'
    BY <1>1, <1>2, SlotUntouched DEF AtMostOne, ItemsOf, Live
  <2>2. VacantFor(w)'
    BY <1>3 DEF VacantFor, At
  <2>3. Reflects(here)'
    BY <1>2 DEF Reflects
  <2> QED
    BY <2>1, <2>2, <2>3 DEF Mine
<1>8. AtMostOne' /\ Vacant' /\ Reflected'
  BY <1>1, <1>5, <1>7, OwnItems
<1>9. Slots' = Slots /\ latest \in [Slots -> AllStates \cup {"none"}]
  BY <1>1, SamePage DEF TypeOK
<1>10. \A slot \in Slots : slot # here => latest'[slot] = latest[slot]
  BY <1>9 DEF Advance
<1>11. Labelling'
  <2>1. ASSUME NEW v \in Workers, Active(v)', work'[v].h.action = "label"
        PROVE  LabelCall(v)'
    <3>1. CASE v = w
      BY <2>1, <3>1 DEF Active, At, Idle
    <3>2. CASE v # w
      <4>1. work'[v] = work[v]
        BY <3>2 DEF Advance
      <4>2. Active(v) /\ work[v].h.action = "label"
        BY <2>1, <4>1 DEF Active, At
      <4>3. LabelCall(v) /\ Slot(v) = here
        BY <1>1, <1>2, <4>2, LabelCallFacts DEF Active
      <4>4. work[v].ran = "disturbed"
        BY <1>1, <3>2, <4>2, <4>3 DEF Rivals, Active
      <4> QED
        BY <4>1, <4>3, <4>4 DEF LabelCall, At
    <3> QED
      BY <3>1, <3>2
  <2>2. \A slot \in Slots' : (slot[1] = "label" /\ latest'[slot] # "none") => slot[2] = PageKey
    BY <1>1, <1>2, <1>9, <1>10 DEF Labelling
  <2> QED
    BY <2>1, <2>2 DEF Labelling, LabelledBefore
<1>12. LabelsConverge'
  <2>1. SUFFICES ASSUME NEW slot \in Slots', slot[1] = "label", latest'[slot] # "none"
                 PROVE  Converges(slot)'
    BY DEF LabelsConverge, Converges
  <2>2. slot = here
    <3>1. slot = <<slot[1], slot[2]>> /\ slot[2] = PageKey
      BY <1>9, <1>11, <2>1 DEF Labelling, Slots
    <3> QED
      BY <1>2, <2>1, <3>1
  <2>3. latest' # latest
    BY <1>1, <2>1, <2>2 DEF Rivals, Active
  <2> QED
    BY <2>2, <2>3
<1> QED
  BY <1>6, <1>8, <1>11, <1>12 DEF IInv

\* A step that leaves the labels of the page, and at most adds to those of the
\* repository.
LEMMA LabelsKept ==
  ASSUME IInv, NEW w \in Workers, ~At(w, "idle"), work[w].h.action = "label", Advance(w),
         latest' = latest, work'[w] = Idle \/ LabelCall(w)', faults' \in Nat,
         labels' = labels, UNCHANGED <<on, items, excused, events>>, cache' \subseteq Names,
         repo' \in [Names -> {"absent", "plain", "coloured"}],
         \A n \in Names : repo[n] # "absent" => repo'[n] # "absent"
  PROVE  IInv'
<1>1. TypeOK /\ Labelling /\ labels \subseteq Names
  BY DEF IInv, TypeOK
<1>2. PICK here : here = Slot(w)
  OBVIOUS
<1>3. LabelledBefore'
  BY <1>1 DEF LabelledBefore, Labelling
<1> QED
  BY <1>1, <1>2, <1>3, LabelStep

\* A label call that fails without effect.
LEMMA LabelNoEffect ==
  ASSUME IInv, NEW w \in Workers, ~At(w, "idle"), work[w].h.action = "label", Advance(w),
         latest' = latest, work'[w] = Idle \/ work'[w] = work[w], faults' \in Nat,
         labels' = labels, UNCHANGED <<on, items, excused, events>>, cache' \subseteq Names,
         repo' \in [Names -> {"absent", "plain", "coloured"}],
         \A n \in Names : repo[n] # "absent" => repo'[n] # "absent"
  PROVE  IInv'
<1>1. TypeOK /\ Rivals /\ Labelling
  BY DEF IInv
<1>2. work'[w] = work[w] => LabelCall(w)'
  BY <1>1, LabelCallFacts, ZenonT(40) DEF LabelCall, Progress, At
<1> QED
  BY <1>2, LabelsKept

\* What makes the report of a label call stand.
LEMMA LabelReported ==
  ASSUME TypeOK, NEW w \in Workers, ~At(w, "idle"), on' = on, Return(w), latest' # latest,
         NEW here, here = Slot(w), LabelledBefore',
         NEW s, s = work[w].state, Add[s] \ Remove[s] \subseteq labels',
         (Remove[s] \ Add[s]) \cap labels' = {},
         work[w].h # GitLabLabel => Add[s] \subseteq labels'
  PROVE  Converges(here)'
<1>1. HandlerOf(here)' = work[w].h /\ here \in Slots
  BY CallOf, SamePage, ZenonT(40)
<1>2. latest'[here] = s
  <2>1. latest' = [latest EXCEPT ![Slot(w)] = work[w].state]
    BY DEF Return
  <2>2. latest \in [Slots -> AllStates \cup {"none"}]
    BY DEF TypeOK
  <2> QED
    BY <1>1, <2>1, <2>2
<1> QED
  BY <1>1, <1>2 DEF Converges, LabelledBefore

\* The steps of the label handlers.
LEMMA LabelProcedures ==
  /\ {"remove", "make", "new", "attach", "each"} \subseteq Procedure["remove"]
  /\ {"labels", "remove", "make", "new", "attach"} \subseteq Procedure["labels"]
  BY DEF Procedure

\* The end of a loop over labels keeps the invariant.
LEMMA TurnStep ==
  ASSUME IInv, NEW w \in Workers, Turn(w)
  PROVE  IInv'
<1> DEFINE h == work[w].h
           s == work[w].state
<1>1. /\ TypeOK /\ Rivals /\ Labelling /\ ~At(w, "idle") /\ work[w].todo = {}
      /\ work[w].at \in {"remove", "make", "each"}
      /\ UNCHANGED <<on, items, labels, repo, cache, excused, events, faults>>
      /\ faults \in Nat /\ cache \subseteq Names
      /\ repo \in [Names -> {"absent", "plain", "coloured"}] /\ labels \subseteq Names
  BY DEF IInv, TypeOK, Turn, At
<1>2. h.action = "label"
  BY <1>1, StepsOf
<1>3. /\ h.does \in {"remove", "labels"}
      /\ h.does = "labels" => h.makes = "missing"
      /\ Add[s] \subseteq Names /\ LabelCall(w)
      /\ h.removes = "with add" <=> h = GitLabLabel
  BY <1>1, <1>2, LabelCallFacts
<1>4. work[w].ran = "alone" => Progress(w)
  BY <1>3 DEF LabelCall
<1>5. CASE At(w, "remove") /\ Add[s] # {}
  <2>1. PICK step : step = IF h.makes = "none" THEN "each" ELSE "make"
    OBVIOUS
  <2>2. step \in Procedure[h.does] /\ step # "new" /\ step \in {"each", "make"}
    <3>1. step = "make" \/ (step = "each" /\ h.does = "remove")
      BY <1>3, <2>1
    <3> QED
      BY <1>3, <3>1, LabelProcedures
  <2>3. Todo(w, step, Add[s])
    BY <1>5, <2>1 DEF Turn
  <2>4. /\ Advance(w) /\ latest' = latest
        /\ work'[w] = Call(w, step, work[w].ran, work[w].found,
                           work[w].known, work[w].label, Add[s])
    BY <1>1, <1>3, <2>2, <2>3, WentTodo
  <2>5. /\ work'[w].at = step /\ work'[w].h = h /\ work'[w].state = s
        /\ work'[w].ran = work[w].ran /\ work'[w].todo = Add[s]
    BY <2>4 DEF Call
  <2>6. work[w].ran = "alone" => Remove[s] \cap labels = {}
    BY <1>1, <1>4, <1>5 DEF Progress
  <2>7. work[w].ran = "alone" => Progress(w)'
    BY <1>1, <2>2, <2>5, <2>6 DEF Progress, At
  <2>8. LabelCall(w)'
    BY <2>1, <2>2, <2>5, <2>7 DEF LabelCall, At
  <2> QED
    BY <1>1, <1>2, <2>4, <2>8, LabelsKept
<1>6. CASE At(w, "make")
  <2>1. Todo(w, "attach", {}) /\ "attach" \in Procedure[h.does]
    <3>1. Todo(w, "attach", {})
      BY <1>6 DEF Turn, At
    <3> QED
      BY <1>3, <3>1, LabelProcedures
  <2>2. /\ Advance(w) /\ latest' = latest
        /\ work'[w] = Call(w, "attach", work[w].ran, work[w].found,
                           work[w].known, work[w].label, {})
    BY <1>1, <2>1, WentTodo
  <2>3. /\ work'[w].at = "attach" /\ work'[w].h = h /\ work'[w].state = s
        /\ work'[w].ran = work[w].ran
    BY <2>2 DEF Call
  <2>4. work[w].ran = "alone" => Progress(w)'
    BY <1>1, <1>4, <1>6, <2>3 DEF Progress, At
  <2>5. LabelCall(w)'
    BY <2>3, <2>4 DEF LabelCall, At
  <2> QED
    BY <1>1, <1>2, <2>2, <2>5, LabelsKept
<1>7. CASE (At(w, "remove") /\ Add[s] = {}) \/ At(w, "each")
  <2>1. Return(w)
    BY <1>7 DEF Turn, At
  <2>2. Advance(w) /\ work'[w] = Idle
    BY <1>1, <2>1, Left
  <2>3. PICK here : here = Slot(w)
    OBVIOUS
  <2>4. LabelledBefore'
    BY <1>1 DEF Labelling, LabelledBefore
  <2>5. ASSUME latest' # latest PROVE Converges(here)'
    <3>1. Progress(w)
      BY <1>4, <2>1, <2>5 DEF Return
    <3>2. Add[s] \subseteq labels' /\ (Remove[s] \ Add[s]) \cap labels' = {}
      <4>1. CASE At(w, "remove") /\ Add[s] = {}
        BY <1>1, <3>1, <4>1 DEF Progress
      <4>2. CASE At(w, "each")
        <5>1. h.removes # "with add"
          BY <1>1, <1>2, <4>2, StepsOf, LabelCallFacts DEF At
        <5> QED
          BY <1>1, <3>1, <4>2, <5>1 DEF Progress, At
      <4> QED
        BY <1>7, <4>1, <4>2
    <3> QED
      BY <1>1, <2>1, <2>3, <2>4, <2>5, <3>2, LabelReported
  <2> QED
    BY <1>1, <1>2, <2>2, <2>3, <2>4, <2>5, LabelStep
<1> QED
  BY <1>1, <1>5, <1>6, <1>7 DEF At

\* Reading the repository's labels keeps the invariant.
LEMMA ListLabelsStep ==
  ASSUME IInv, NEW w \in Workers, ListLabels(w)
  PROVE  IInv'
<1> DEFINE h == work[w].h
           s == work[w].state
           gitlab == h.removes = "with add"
           there == {n \in Names : repo[n] # "absent"}
<1>1. /\ TypeOK /\ Rivals /\ Labelling /\ ~At(w, "idle") /\ At(w, "labels")
      /\ UNCHANGED <<on, items, labels, repo, cache, excused, events>>
      /\ faults \in Nat /\ cache \subseteq Names
      /\ repo \in [Names -> {"absent", "plain", "coloured"}] /\ labels \subseteq Names
  BY DEF IInv, TypeOK, ListLabels, At
<1>2. h.action = "label" /\ h.does = "labels"
  BY <1>1, StepsOf DEF At
<1>3. /\ h.makes = "missing" /\ Add[s] \subseteq Names /\ Remove[s] \subseteq Names
      /\ \A g \in on : g.action = "label" => g = h
  BY <1>1, <1>2, LabelCallFacts
<1>4. CASE Fail(w) /\ UNCHANGED faults
  BY <1>1, <1>2, <1>4, Left, LabelNoEffect DEF Fail
<1>5. CASE gitlab /\ Todo(w, "attach", {}) /\ UNCHANGED faults
  <2>1. "attach" \in Procedure[h.does]
    BY <1>2 DEF Procedure
  <2>2. /\ Advance(w) /\ latest' = latest
        /\ work'[w] = Call(w, "attach", work[w].ran, work[w].found,
                           work[w].known, work[w].label, {})
    BY <1>1, <1>5, <2>1, WentTodo
  <2>3. work'[w].at = "attach" /\ work'[w].h = h
    BY <2>2 DEF Call
  <2>4. LabelCall(w)'
    BY <1>5, <2>3 DEF LabelCall, Progress, At
  <2> QED
    BY <1>1, <1>2, <1>5, <2>2, <2>4, LabelsKept
<1>6. CASE /\ \E known \in kSubset(Min({LabelPage, Cardinality(there)}), there) :
                work' = [work EXCEPT ![w].at = IF gitlab THEN "make" ELSE "remove",
                                     ![w].todo = IF gitlab THEN Add[s] ELSE Remove[s],
                                     ![w].known = known,
                                     ![w].ran = IF known = there THEN work[w].ran
                                                ELSE "disturbed"]
           /\ UNCHANGED <<latest, faults>>
  <2>1. PICK known \in kSubset(Min({LabelPage, Cardinality(there)}), there) :
                work' = [work EXCEPT ![w].at = IF gitlab THEN "make" ELSE "remove",
                                     ![w].todo = IF gitlab THEN Add[s] ELSE Remove[s],
                                     ![w].known = known,
                                     ![w].ran = IF known = there THEN work[w].ran
                                                ELSE "disturbed"]
    BY <1>6
  <2>2. known \subseteq there
    BY DEF kSubset
  <2>3. PICK at : at = IF gitlab THEN "make" ELSE "remove"
    OBVIOUS
  <2>4. PICK todo : todo = IF gitlab THEN Add[s] ELSE Remove[s]
    OBVIOUS
  <2>5. PICK ran : ran = IF known = there THEN work[w].ran ELSE "disturbed"
    OBVIOUS
  <2>6. Lists(w, at, todo, known, ran)
    BY <1>6, <2>1, <2>3, <2>4, <2>5 DEF Lists
  <2>7. /\ at \in Procedure[h.does] /\ at # "new" /\ todo \in SUBSET Names
        /\ known \in SUBSET Names /\ ran \in {work[w].ran, "disturbed"}
    <3>1. at \in Procedure[h.does] /\ at # "new"
      BY <1>2, <2>3, LabelProcedures
    <3>2. todo \in SUBSET Names /\ known \in SUBSET Names
      BY <1>3, <2>2, <2>4
    <3>3. ran \in {work[w].ran, "disturbed"}
      BY <2>5
    <3> QED
      BY <3>1, <3>2, <3>3
  <2>8. /\ Advance(w) /\ latest' = latest
        /\ work'[w] = Call(w, at, ran, work[w].found, known, work[w].label, todo)
    BY <1>1, <2>6, <2>7, Listed
  <2>9. /\ work'[w].at = at /\ work'[w].h = h /\ work'[w].state = s /\ work'[w].known = known
        /\ work'[w].ran = ran /\ work'[w].todo = todo
    BY <2>8 DEF Call
  <2>10. LabelCall(w)'
    <3>1. CASE gitlab
      BY <2>3, <2>9, <3>1 DEF LabelCall, Progress, At
    <3>2. CASE ~gitlab
      <4>1. ran = "alone" => labels \subseteq known
        <5>1. ran = "alone" => known = there
          BY <2>5
        <5>2. labels \subseteq there
          BY <1>1, <1>3 DEF Labelling
        <5> QED
          BY <5>1, <5>2
      <4>2. at = "remove" /\ todo = Remove[s]
        BY <2>3, <2>4, <3>2
      <4> QED
        BY <1>1, <2>9, <3>2, <4>1, <4>2 DEF LabelCall, Progress, At
    <3> QED
      BY <3>1, <3>2
  <2> QED
    BY <1>1, <1>2, <1>6, <2>8, <2>10, LabelsKept
<1>7. CASE Refused(w)
  BY <1>1, <1>2, <1>7, RefusedOr, LabelNoEffect
<1> QED
  BY <1>4, <1>5, <1>6, <1>7 DEF ListLabels

\* A label that is removed is one of a list.
LEMMA Unlabelled ==
  ASSUME Labelling, NEW n \in (UNION {Remove[t] : t \in States}), labels' \in {labels, labels \ {n}},
         on' = on, repo' = repo
  PROVE  LabelledBefore'
<1>1. Existing \ (UNION {Remove[t] : t \in States}) \subseteq labels'
  BY DEF Labelling
<1>2. (\A h \in on : h.action = "label" => h.makes # "none") => \A m \in labels' : repo[m] # "absent"
  BY DEF Labelling
<1> QED
  BY <1>1, <1>2 DEF LabelledBefore

\* Removing a label keeps the invariant.
LEMMA RemoveLabelStep ==
  ASSUME IInv, NEW w \in Workers, NEW n \in Names, RemoveLabel(w, n)
  PROVE  IInv'
<1> DEFINE h == work[w].h
           s == work[w].state
           rest == work[w].todo \ {n}
<1>1. /\ TypeOK /\ Rivals /\ Labelling /\ ~At(w, "idle") /\ At(w, "remove") /\ n \in work[w].todo
      /\ UNCHANGED <<on, items, repo, cache, excused, events>>
      /\ faults \in Nat /\ cache \subseteq Names
      /\ repo \in [Names -> {"absent", "plain", "coloured"}] /\ labels \subseteq Names
  BY DEF IInv, TypeOK, RemoveLabel, At
<1>2. h.action = "label"
  BY <1>1, StepsOf DEF At
<1>3. /\ LabelCall(w) /\ h.does \in {"remove", "labels"}
      /\ Remove[s] \subseteq (UNION {Remove[t] : t \in States})
  BY <1>1, <1>2, LabelCallFacts
<1>4. /\ h.removes # "with add" /\ work[w].todo \subseteq Remove[s]
      /\ work[w].ran = "alone" => Progress(w)
  BY <1>1, <1>3 DEF LabelCall
<1>5. n \in (UNION {Remove[t] : t \in States}) /\ n \in Remove[s] /\ rest \in SUBSET Names
  BY <1>1, <1>3, <1>4, CallOf
<1>6. PICK here : here = Slot(w)
  OBVIOUS
<1>7. CASE n \in Long /\ Fail(w) /\ UNCHANGED <<labels, faults>>
  BY <1>1, <1>2, <1>7, Left, LabelNoEffect DEF Fail
<1>8. CASE /\ labels' = IF h.makes = "missing" /\ n \notin work[w].known THEN labels
                        ELSE labels \ {n}
           /\ Todo(w, "remove", rest) /\ UNCHANGED faults
  <2>1. "remove" \in Procedure[h.does]
    BY <1>3, LabelProcedures
  <2>2. /\ Advance(w) /\ latest' = latest
        /\ work'[w] = Call(w, "remove", work[w].ran, work[w].found,
                           work[w].known, work[w].label, rest)
    BY <1>1, <1>5, <1>8, <2>1, WentTodo
  <2>3. /\ work'[w].at = "remove" /\ work'[w].h = h /\ work'[w].state = s
        /\ work'[w].ran = work[w].ran /\ work'[w].todo = rest /\ work'[w].known = work[w].known
    BY <2>2 DEF Call
  <2>4. LabelledBefore'
    BY <1>1, <1>5, <1>8, Unlabelled
  <2>5. work[w].ran = "alone" => Progress(w)'
    <3>1. SUFFICES ASSUME work[w].ran = "alone" PROVE Progress(w)'
      OBVIOUS
    <3>2. /\ (Remove[s] \ work[w].todo) \cap labels = {}
          /\ h.makes = "missing" => labels \subseteq work[w].known
      BY <1>1, <1>4, <3>1 DEF Progress
    <3>3. labels' = labels \ {n}
      BY <1>8, <3>2
    <3>4. /\ (Remove[s] \ rest) \cap labels' = {}
          /\ h.makes = "missing" => labels' \subseteq work[w].known
      BY <3>2, <3>3
    <3> QED
      BY <2>3, <3>4 DEF Progress, At
  <2>6. LabelCall(w)'
    BY <1>4, <2>3, <2>5 DEF LabelCall, At
  <2>7. labels' \subseteq Names
    BY <1>1, <1>8
  <2> QED
    BY <1>1, <1>2, <1>6, <1>8, <2>2, <2>4, <2>6, <2>7, LabelStep
<1>9. CASE /\ Fault /\ labels' \in {labels, labels \ {n}}
           /\ \/ Fail(w)
              \/ work' = [work EXCEPT ![w].todo = rest, ![w].ran = "disturbed"] /\ UNCHANGED latest
  <2>1. LabelledBefore' /\ labels' \subseteq Names /\ faults' \in Nat
    BY <1>1, <1>5, <1>9, Unlabelled DEF Fault
  <2>2. Advance(w) /\ latest' = latest /\ (work'[w] = Idle \/ LabelCall(w)')
    <3>1. CASE Fail(w)
      BY <1>1, <3>1, Left DEF Fail
    <3>2. CASE Skips(w, rest)
      <4>1. /\ Advance(w) /\ latest' = latest
            /\ work'[w] = Call(w, work[w].at, "disturbed", work[w].found, work[w].known,
                               work[w].label, rest)
        BY <1>1, <1>5, <3>2, Skipped
      <4>2. /\ work'[w].at = work[w].at /\ work'[w].h = h /\ work'[w].state = s
            /\ work'[w].ran = "disturbed" /\ work'[w].todo = rest
        BY <4>1 DEF Call
      <4>3. LabelCall(w)'
        BY <1>1, <1>4, <4>2 DEF LabelCall, At
      <4> QED
        BY <4>1, <4>3
    <3> QED
      BY <1>9, <3>1, <3>2 DEF Skips
  <2> QED
    BY <1>1, <1>2, <1>6, <2>1, <2>2, LabelStep
<1> QED
  BY <1>7, <1>8, <1>9 DEF RemoveLabel

\* The loop over the labels to make goes on with another one.
LEMMA NextToMake ==
  ASSUME IInv, NEW w \in Workers, ~At(w, "idle"), work[w].at \in {"make", "new"}, NEW n,
         Todo(w, "make", work[w].todo \ {n}), faults' = faults, labels' = labels,
         UNCHANGED <<on, items, excused, events>>, cache' \subseteq Names,
         repo' \in [Names -> {"absent", "plain", "coloured"}],
         \A m \in Names : repo[m] # "absent" => repo'[m] # "absent"
  PROVE  IInv'
<1> DEFINE rest == work[w].todo \ {n}
<1>1. TypeOK /\ Rivals /\ Labelling /\ faults' \in Nat
  BY DEF IInv, TypeOK
<1>2. work[w].h.action = "label"
  BY <1>1, StepsOf
<1>3. LabelCall(w) /\ "make" \in Procedure[work[w].h.does]
  BY <1>1, <1>2, LabelCallFacts, LabelProcedures
<1>4. rest \in SUBSET Names
  BY <1>1, CallOf
<1>5. /\ Advance(w) /\ latest' = latest
      /\ work'[w] = Call(w, "make", work[w].ran, work[w].found, work[w].known, work[w].label, rest)
  BY <1>1, <1>3, <1>4, WentTodo
<1>6. /\ work'[w].at = "make" /\ work'[w].h = work[w].h /\ work'[w].state = work[w].state
      /\ work'[w].ran = work[w].ran
  BY <1>5 DEF Call
<1>7. LabelCall(w)'
  BY <1>3, <1>6 DEF LabelCall, Progress, At
<1> QED
  BY <1>1, <1>2, <1>5, <1>7, LabelsKept

\* Looking up a label that is to be attached keeps the invariant.
LEMMA MakeLabelStep ==
  ASSUME IInv, NEW w \in Workers, NEW n \in Names, MakeLabel(w, n)
  PROVE  IInv'
<1> DEFINE h == work[w].h
<1>1. /\ TypeOK /\ Rivals /\ Labelling /\ ~At(w, "idle") /\ At(w, "make")
      /\ UNCHANGED <<on, items, labels, excused, events>>
      /\ faults \in Nat /\ cache \subseteq Names
      /\ repo \in [Names -> {"absent", "plain", "coloured"}]
  BY DEF IInv, TypeOK, MakeLabel, At
<1>2. h.action = "label"
  BY <1>1, StepsOf DEF At
<1>3. CASE Fail(w) /\ UNCHANGED <<repo, cache, faults>>
  BY <1>1, <1>2, <1>3, Left, LabelNoEffect DEF Fail
<1>4. CASE /\ Todo(w, "make", work[w].todo \ {n}) /\ UNCHANGED faults
           /\ \/ UNCHANGED <<repo, cache>>
              \/ repo' = [repo EXCEPT ![n] = "coloured"] /\ cache' = cache \cup {n}
  <2>1. /\ cache' \subseteq Names /\ repo' \in [Names -> {"absent", "plain", "coloured"}]
        /\ \A m \in Names : repo[m] # "absent" => repo'[m] # "absent"
    BY <1>1, <1>4
  <2> QED
    BY <1>1, <1>4, <2>1, NextToMake DEF At
<1>5. CASE /\ work' = [work EXCEPT ![w].at = "new", ![w].label = n]
           /\ UNCHANGED <<repo, cache, latest, faults>>
  <2>1. LabelCall(w) /\ "new" \in Procedure[h.does]
    BY <1>1, <1>2, LabelCallFacts, LabelProcedures
  <2>2. ToMake(w, "new", n)
    BY <1>5 DEF ToMake
  <2>3. /\ Advance(w) /\ latest' = latest
        /\ work'[w] = Call(w, "new", work[w].ran, work[w].found, work[w].known, n, work[w].todo)
    BY <1>1, <2>1, <2>2, WentToMake
  <2>4. /\ work'[w].at = "new" /\ work'[w].h = h /\ work'[w].state = work[w].state
        /\ work'[w].ran = work[w].ran
    BY <2>3 DEF Call
  <2>5. LabelCall(w)'
    BY <1>1, <2>1, <2>4 DEF LabelCall, Progress, At
  <2> QED
    BY <1>1, <1>2, <1>5, <2>3, <2>5, LabelsKept
<1>6. CASE Refused(w) /\ UNCHANGED <<repo, cache>>
  BY <1>1, <1>2, <1>6, RefusedOr, LabelNoEffect
<1> QED
  BY <1>3, <1>4, <1>5, <1>6 DEF MakeLabel

\* Making a label in the repository keeps the invariant.
LEMMA NewLabelStep ==
  ASSUME IInv, NEW w \in Workers, NewLabel(w)
  PROVE  IInv'
<1> DEFINE n == work[w].label
           made == repo' = [repo EXCEPT ![n] = IF repo[n] # "absent" THEN repo[n]
                                               ELSE IF n \in Coloured THEN "coloured" ELSE "plain"]
<1>1. /\ TypeOK /\ ~At(w, "idle") /\ At(w, "new")
      /\ UNCHANGED <<on, items, labels, excused, events>>
      /\ faults \in Nat /\ cache \subseteq Names
      /\ repo \in [Names -> {"absent", "plain", "coloured"}]
  BY DEF IInv, TypeOK, NewLabel, At
<1>2. work[w].h.action = "label" /\ n \in Names
  BY <1>1, StepsOf, CallOf DEF At, IsCall
<1>3. ASSUME made \/ UNCHANGED repo
      PROVE  /\ repo' \in [Names -> {"absent", "plain", "coloured"}]
             /\ \A m \in Names : repo[m] # "absent" => repo'[m] # "absent"
  <2>1. CASE made
    <3>1. PICK c : c = IF repo[n] # "absent" THEN repo[n]
                       ELSE IF n \in Coloured THEN "coloured" ELSE "plain"
      OBVIOUS
    <3>2. c \in {"plain", "coloured"} /\ repo' = [repo EXCEPT ![n] = c]
      BY <1>1, <1>2, <2>1, <3>1
    <3> QED
      BY <1>1, <1>2, <3>2
  <2>2. CASE UNCHANGED repo
    BY <1>1, <2>2
  <2> QED
    BY <1>3, <2>1, <2>2
<1>4. CASE /\ made /\ cache' \in {cache, cache \cup {n}}
           /\ Todo(w, "make", work[w].todo \ {n}) /\ UNCHANGED faults
  <2>1. cache' \subseteq Names
    BY <1>1, <1>2, <1>4
  <2> QED
    BY <1>1, <1>3, <1>4, <2>1, NextToMake DEF At
<1>5. CASE Fail(w) /\ UNCHANGED <<repo, cache, faults>>
  BY <1>1, <1>2, <1>5, Left, LabelNoEffect DEF Fail
<1>6. CASE (made \/ UNCHANGED repo) /\ Refused(w) /\ UNCHANGED cache
  BY <1>1, <1>2, <1>3, <1>6, RefusedOr, LabelNoEffect
<1> QED
  BY <1>4, <1>5, <1>6 DEF NewLabel

\* Attaching all labels at once keeps the invariant.
LEMMA AttachStep ==
  ASSUME IInv, NEW w \in Workers, Attach(w)
  PROVE  IInv'
<1> DEFINE h == work[w].h
           s == work[w].state
<1>1. /\ TypeOK /\ Rivals /\ Labelling /\ ~At(w, "idle") /\ At(w, "attach")
      /\ UNCHANGED <<on, items, cache, excused, events>>
      /\ faults \in Nat /\ cache \subseteq Names
      /\ repo \in [Names -> {"absent", "plain", "coloured"}] /\ labels \subseteq Names
  BY DEF IInv, TypeOK, Attach, At
<1>2. h.action = "label"
  BY <1>1, StepsOf DEF At
<1>3. /\ LabelCall(w) /\ Add[s] \subseteq Names
      /\ h.removes = "with add" <=> h = GitLabLabel
      /\ Remove[s] \subseteq (UNION {Remove[t] : t \in States})
  BY <1>1, <1>2, LabelCallFacts
<1>4. PICK remove : remove = IF h.removes = "with add" THEN Remove[s] ELSE {}
  OBVIOUS
<1> DEFINE attached ==
             /\ labels' \in {(labels \ remove) \cup Add[s], (labels \cup Add[s]) \ remove}
             /\ repo' = [n \in Names |-> IF n \in Add[s] /\ repo[n] = "absent" THEN "plain"
                                         ELSE repo[n]]
<1>5. ASSUME attached
      PROVE  /\ labels' \subseteq Names /\ LabelledBefore'
             /\ repo' \in [Names -> {"absent", "plain", "coloured"}]
  <2>1. labels' \subseteq Names /\ repo' \in [Names -> {"absent", "plain", "coloured"}]
    BY <1>1, <1>3, <1>5
  <2>2. Existing \ (UNION {Remove[t] : t \in States}) \subseteq labels'
    BY <1>1, <1>3, <1>4, <1>5 DEF Labelling
  <2>3. (\A g \in on : g.action = "label" => g.makes # "none") =>
          \A n \in labels' : repo'[n] # "absent"
    <3>1. SUFFICES ASSUME \A g \in on : g.action = "label" => g.makes # "none", NEW n \in labels'
                   PROVE  repo'[n] # "absent"
      OBVIOUS
    <3>2. \A m \in labels : repo[m] # "absent"
      BY <1>1, <3>1 DEF Labelling
    <3>3. n \in labels \/ n \in Add[s]
      BY <1>5
    <3> QED
      BY <1>1, <1>3, <1>5, <2>1, <3>2, <3>3
  <2> QED
    BY <1>1, <2>1, <2>2, <2>3 DEF LabelledBefore
<1>6. PICK here : here = Slot(w)
  OBVIOUS
<1>7. (work[w].ran = "alone" /\ h.removes # "with add") => Remove[s] \cap labels \subseteq Add[s]
  BY <1>1, <1>3 DEF LabelCall, Progress, At
<1>8. CASE attached /\ Return(w) /\ UNCHANGED faults
  <2>1. Advance(w) /\ work'[w] = Idle
    BY <1>1, <1>8, Left
  <2>2. ASSUME latest' # latest PROVE Converges(here)'
    <3>1. work[w].ran = "alone"
      BY <1>8, <2>2 DEF Return
    <3>2. CASE h.removes = "with add"
      <4>1. /\ Add[s] \ Remove[s] \subseteq labels' /\ (Remove[s] \ Add[s]) \cap labels' = {}
            /\ h = GitLabLabel
        BY <1>3, <1>4, <1>8, <3>2
      <4> QED
        BY <1>1, <1>5, <1>6, <1>8, <2>2, <4>1, LabelReported
    <3>3. CASE h.removes # "with add"
      <4>1. labels' = labels \cup Add[s]
        BY <1>4, <1>8, <3>3
      <4>2. Add[s] \subseteq labels' /\ (Remove[s] \ Add[s]) \cap labels' = {}
        BY <1>7, <3>1, <3>3, <4>1
      <4> QED
        BY <1>1, <1>5, <1>6, <1>8, <2>2, <4>2, LabelReported
    <3> QED
      BY <3>2, <3>3
  <2> QED
    BY <1>1, <1>2, <1>5, <1>6, <1>8, <2>1, <2>2, LabelStep
<1>9. CASE UNCHANGED <<labels, repo>> /\ Refused(w)
  BY <1>1, <1>2, <1>9, RefusedOr, LabelNoEffect
<1>10. CASE attached /\ Refused(w)
  <2>1. /\ Advance(w) /\ latest' = latest /\ faults' \in Nat
        /\ work'[w] = Idle \/ work'[w] = work[w]
    BY <1>1, <1>10, RefusedOr
  <2>2. work'[w] = work[w] => LabelCall(w)'
    <3>1. SUFFICES ASSUME work'[w] = work[w] PROVE LabelCall(w)'
      OBVIOUS
    <3>2. (work[w].ran = "alone" /\ h.removes # "with add") => Remove[s] \cap labels' \subseteq Add[s]
      <4>1. h.removes # "with add" => labels' = labels \cup Add[s]
        BY <1>4, <1>10
      <4> QED
        BY <1>7, <4>1
    <3> QED
      BY <1>1, <3>1, <3>2 DEF LabelCall, Progress, At
  <2> QED
    BY <1>1, <1>2, <1>5, <1>6, <1>10, <2>1, <2>2, LabelStep
<1>11. (attached \/ UNCHANGED <<labels, repo>>) /\ (Refused(w) \/ (attached /\ Return(w) /\ UNCHANGED faults))
  BY <1>4 DEF Attach
<1> QED
  BY <1>8, <1>9, <1>10, <1>11

\* Attaching one label keeps the invariant.
LEMMA AttachEachStep ==
  ASSUME IInv, NEW w \in Workers, NEW n \in Names, AttachEach(w, n)
  PROVE  IInv'
<1> DEFINE h == work[w].h
           s == work[w].state
           rest == work[w].todo \ {n}
<1>1. /\ TypeOK /\ Rivals /\ Labelling /\ ~At(w, "idle") /\ At(w, "each") /\ n \in work[w].todo
      /\ UNCHANGED <<on, items, repo, cache, excused, events>>
      /\ faults \in Nat /\ cache \subseteq Names
      /\ repo \in [Names -> {"absent", "plain", "coloured"}] /\ labels \subseteq Names
  BY DEF IInv, TypeOK, AttachEach, At
<1>2. h.action = "label" /\ h.does = "remove"
  BY <1>1, StepsOf DEF At
<1>3. /\ LabelCall(w) /\ h \in on /\ h.removes # "with add"
  BY <1>1, <1>2, LabelCallFacts, CallOf
<1>4. /\ h.makes = "none" /\ work[w].todo \subseteq Add[s]
      /\ work[w].ran = "alone" => Progress(w)
  BY <1>1, <1>3 DEF LabelCall
<1>5. work[w].ran = "alone" =>
        Remove[s] \cap labels \subseteq Add[s] /\ Add[s] \ work[w].todo \subseteq labels
  BY <1>1, <1>3, <1>4 DEF Progress, At
<1>6. n \in Add[s] /\ rest \in SUBSET Names /\ rest \subseteq Add[s]
  BY <1>1, <1>4, CallOf
<1>7. PICK here : here = Slot(w)
  OBVIOUS
<1>8. ASSUME labels' \in {labels, labels \cup {n}}
      PROVE  /\ labels' \subseteq Names /\ LabelledBefore'
             /\ work[w].ran = "alone" =>
                  Remove[s] \cap labels' \subseteq Add[s] /\ Add[s] \ work[w].todo \subseteq labels'
  <2>1. Existing \ (UNION {Remove[t] : t \in States}) \subseteq labels'
    BY <1>1, <1>8 DEF Labelling
  <2>2. ~\A g \in on' : g.action = "label" => g.makes # "none"
    BY <1>1, <1>2, <1>3, <1>4
  <2>3. LabelledBefore'
    BY <2>1, <2>2 DEF LabelledBefore
  <2> QED
    BY <1>1, <1>5, <1>6, <1>8, <2>3
<1>9. CASE Fail(w) /\ UNCHANGED <<labels, faults>>
  BY <1>1, <1>2, <1>9, Left, LabelNoEffect DEF Fail
<1>10. CASE labels' = labels \cup {n} /\ Todo(w, "each", rest) /\ UNCHANGED faults
  <2>1. "each" \in Procedure[h.does]
    BY <1>2, LabelProcedures
  <2>2. /\ Advance(w) /\ latest' = latest
        /\ work'[w] = Call(w, "each", work[w].ran, work[w].found,
                           work[w].known, work[w].label, rest)
    BY <1>1, <1>6, <1>10, <2>1, WentTodo
  <2>3. /\ work'[w].at = "each" /\ work'[w].h = h /\ work'[w].state = s
        /\ work'[w].ran = work[w].ran /\ work'[w].todo = rest
    BY <2>2 DEF Call
  <2>4. work[w].ran = "alone" => Add[s] \ rest \subseteq labels'
    BY <1>5, <1>10
  <2>5. work[w].ran = "alone" => Progress(w)'
    BY <1>8, <1>10, <2>3, <2>4 DEF Progress, At
  <2>6. LabelCall(w)'
    BY <1>4, <1>6, <2>3, <2>5 DEF LabelCall, At
  <2> QED
    BY <1>1, <1>2, <1>7, <1>8, <1>10, <2>2, <2>6, LabelStep
<1>11. CASE labels' \in {labels, labels \cup {n}} /\ Refused(w)
  <2>1. /\ Advance(w) /\ latest' = latest /\ faults' \in Nat
        /\ work'[w] = Idle \/ work'[w] = work[w]
    BY <1>1, <1>11, RefusedOr
  <2>2. work'[w] = work[w] => LabelCall(w)'
    <3>1. SUFFICES ASSUME work'[w] = work[w] PROVE LabelCall(w)'
      OBVIOUS
    <3>2. work[w].ran = "alone" => Progress(w)'
      BY <1>1, <1>8, <1>11, <3>1 DEF Progress, At
    <3> QED
      BY <1>1, <1>4, <3>1, <3>2 DEF LabelCall, At
  <2> QED
    BY <1>1, <1>2, <1>7, <1>8, <1>11, <2>1, <2>2, LabelStep
<1> QED
  BY <1>9, <1>10, <1>11 DEF AttachEach

-----------------------------------------------------------------------------
(* New calls, and what people do.                                          *)

\* A call that goes on as it was, or with a rival.
Stands(v) ==
  /\ Active(v)' <=> Active(v)
  /\ Active(v) =>
       /\ work'[v] \in Calls /\ work'[v].at = work[v].at /\ work'[v].h = work[v].h
       /\ work'[v].key = work[v].key /\ work'[v].state = work[v].state
       /\ work'[v].found = work[v].found /\ work'[v].known = work[v].known
       /\ work'[v].label = work[v].label /\ work'[v].todo = work[v].todo
       /\ work'[v].ran \in {work[v].ran, "disturbed"}

\* A call that begins.
Fresh(v) ==
  /\ IsCall(work[v])' /\ work'[v].at \notin {"edit", "status", "settle"}
  /\ work'[v].at = "create" => work'[v].h.does \notin {"upsert", "thread", "incident"}
  /\ work'[v].h.action = "label" => LabelCall(v)'

\* A slot loses items at most, and then nothing is reported of it.
Fewer(slot) ==
  /\ ItemsOf(slot)' \subseteq ItemsOf(slot) /\ \A i \in ItemsOf(slot)' : items'[i] = items[i]
  /\ \/ latest'[slot] = "none"
     \/ latest'[slot] = latest[slot] /\ ItemsOf(slot)' = ItemsOf(slot)

\* Whoever is only disturbed stands.
LEMMA Bystander ==
  ASSUME TypeOK, NEW v \in Workers,
         work'[v] = work[v] \/ (~At(v, "idle") /\ work'[v] = Disturbed(v))
  PROVE  /\ Stands(v) /\ work'[v] \in Calls \cup {Idle}
         /\ (~At(v, "idle") /\ work'[v] = Disturbed(v)) => work'[v].ran = "disturbed"
<1>1. work[v] \in Calls \cup {Idle}
  BY DEF TypeOK
<1>2. CASE At(v, "idle")
  BY <1>1, <1>2 DEF Stands, Active, At
<1>3. CASE ~At(v, "idle")
  <2>1. /\ IsCall(work[v]) /\ work[v].ran \in {"alone", "disturbed"}
        /\ work[v] = Call(v, work[v].at, work[v].ran, work[v].found, work[v].known,
                          work[v].label, work[v].todo)
    BY <1>3, CallOf
  <2>2. work[v] \in Calls
    BY <2>1 DEF IsCall
  <2>3. CASE work'[v] = work[v] /\ work'[v] # Disturbed(v)
    BY <1>3, <2>2, <2>3 DEF Stands, Active, At
  <2>4. CASE work'[v] = Disturbed(v)
    <3>1. Disturbed(v) = Call(v, work[v].at, "disturbed", work[v].found, work[v].known,
                              work[v].label, work[v].todo)
      BY <2>1 DEF Disturbed, Call
    <3>2. /\ work'[v].at = work[v].at /\ work'[v].h = work[v].h /\ work'[v].key = work[v].key
          /\ work'[v].state = work[v].state /\ work'[v].found = work[v].found
          /\ work'[v].known = work[v].known /\ work'[v].label = work[v].label
          /\ work'[v].todo = work[v].todo /\ work'[v].ran = "disturbed"
      BY <2>4, <3>1 DEF Call
    <3>3. work'[v] \in Calls
      <4>1. PICK ats : ats = (UNION {Procedure[does] : does \in DOMAIN Procedure})
        OBVIOUS
      <4> QED
        BY <2>2, <2>4, <4>1 DEF Disturbed, Calls
    <3> QED
      BY <1>3, <3>2, <3>3 DEF Stands, Active, At
  <2> QED
    BY <1>3, <2>3, <2>4
<1> QED
  BY <1>2, <1>3

\* Steps that begin calls, disturb them or take items away keep the invariant.
LEMMA Meanwhile ==
  ASSUME IInv, UNCHANGED <<on, labels, repo, cache>>, events' \in Nat, faults' \in Nat,
         work' \in [Workers -> Calls \cup {Idle}], \A v \in Workers : Stands(v) \/ Fresh(v),
         Rivals', latest' \in [Slots -> AllStates \cup {"none"}],
         excused \subseteq excused', excused' \subseteq Slots,
         items' \in Seq(Shown), DOMAIN items \subseteq DOMAIN items',
         \A i \in DOMAIN items' : IsItem(items'[i]),
         \A i \in DOMAIN items : items'[i].by = items[i].by /\ items'[i].key = items[i].key,
         \A slot \in Slots : Fewer(slot)
  PROVE  IInv'
<1>1. /\ TypeOK /\ Found /\ AtMostOne /\ Vacant /\ Reflected /\ Labelling /\ LabelsConverge
  BY DEF IInv
<1>2. Slots' = Slots /\ Calls' = Calls /\ Shown' = Shown
  BY SamePage
<1>3. ASSUME NEW v \in Workers, Active(v)', ~Fresh(v)
      PROVE  /\ Active(v) /\ IsCall(work[v]) /\ Slot(v)' = Slot(v) /\ Slot(v) \in Slots
             /\ work'[v] \in Calls /\ work'[v].at = work[v].at /\ work'[v].h = work[v].h
             /\ work'[v].key = work[v].key /\ work'[v].state = work[v].state
             /\ work'[v].found = work[v].found /\ work'[v].known = work[v].known
             /\ work'[v].label = work[v].label /\ work'[v].todo = work[v].todo
             /\ work'[v].ran \in {work[v].ran, "disturbed"}
  <2>1. Stands(v) /\ Active(v)
    BY <1>3 DEF Stands
  <2>2. IsCall(work[v]) /\ Slot(v) \in Slots
    BY <1>1, <2>1, CallOf DEF Active
  <2> QED
    BY <2>1, <2>2 DEF Stands, Slot
<1>4. TypeOK'
  <2>1. ASSUME NEW v \in Workers, ~At(v, "idle")' PROVE IsCall(work[v])'
    <3>1. CASE Fresh(v)
      BY <3>1 DEF Fresh
    <3>2. CASE ~Fresh(v)
      BY <1>2, <1>3, <2>1, <3>2 DEF IsCall, Active
    <3> QED
      BY <3>1, <3>2
  <2>2. \A i \in DOMAIN items' : IsItem(items[i])'
    BY DEF IsItem
  <2>3. /\ on' \in Pages /\ labels' \subseteq Names /\ cache' \subseteq Names
        /\ repo' \in [Names -> {"absent", "plain", "coloured"}]
    BY <1>1 DEF TypeOK
  <2> QED
    BY <1>2, <2>1, <2>2, <2>3 DEF TypeOK
<1>5. Found'
  <2>1. SUFFICES ASSUME NEW v \in Workers
        PROVE  /\ work'[v].at \in {"edit", "status", "settle"} => HasMarker(v, work[v].found)'
               /\ work'[v].at = "settle" => work'[v].state = "success"
               /\ (work'[v].at = "create" /\ work'[v].h.does = "incident") =>
                    work'[v].state # "success"
    BY DEF Found, At
  <2>2. CASE Fresh(v)
    BY <2>2 DEF Fresh
  <2>3. CASE ~Active(v)'
    BY <2>3 DEF Active, At
  <2>4. CASE ~Fresh(v) /\ Active(v)'
    <3>1. ASSUME work[v].at \in {"edit", "status", "settle"}
          PROVE  HasMarker(v, work[v].found) /\ work[v].found \in DOMAIN items
      BY <1>1, <1>3, <2>4, <3>1 DEF Found, IsCall
    <3> QED
      BY <1>1, <1>3, <2>4, <3>1 DEF Found, HasMarker, At
  <2> QED
    BY <2>2, <2>3, <2>4
<1>6. AtMostOne'
  <2>1. SUFFICES ASSUME NEW slot \in Slots, slot \notin excused' PROVE OneIn(slot)'
    BY <1>2 DEF AtMostOne
  <2>2. OneIn(slot) /\ Fewer(slot) /\ HandlerOf(slot)' = HandlerOf(slot)
    BY <1>1, <2>1, SamePage DEF AtMostOne
  <2> QED
    BY <2>2 DEF OneIn, Fewer
<1>7. Vacant'
  <2>1. SUFFICES ASSUME NEW v \in Workers, Active(v)', Slot(v)' \notin excused' PROVE VacantFor(v)'
    BY DEF Vacant
  <2>2. CASE Fresh(v)
    BY <2>2 DEF Fresh, VacantFor, At
  <2>3. CASE ~Fresh(v)
    <3>1. Active(v) /\ Slot(v)' = Slot(v) /\ Slot(v) \in Slots
      BY <1>3, <2>1, <2>3
    <3>2. VacantFor(v)
      BY <1>1, <2>1, <3>1 DEF Vacant
    <3>3. PICK slot : slot = Slot(v)
      OBVIOUS
    <3>4. ItemsOf(slot)' \subseteq ItemsOf(slot) /\ \A i \in ItemsOf(slot)' : items'[i] = items[i]
      BY <3>1, <3>3 DEF Fewer
    <3>5. ItemsOf(Slot(v))' = ItemsOf(slot)'
      BY <3>1, <3>3 DEF ItemsOf, Live
    <3>6. work'[v].at = work[v].at /\ work'[v].h = work[v].h /\ work'[v].found = work[v].found
      BY <1>3, <2>1, <2>3
    <3> QED
      BY <3>2, <3>3, <3>4, <3>5, <3>6 DEF VacantFor, At
  <2> QED
    BY <2>2, <2>3
<1>8. Reflected'
  <2>1. SUFFICES ASSUME NEW slot \in Slots PROVE Reflects(slot)'
    BY <1>2 DEF Reflected, Reflects
  <2>2. Reflects(slot) /\ Fewer(slot)
    BY <1>1 DEF Reflected, Reflects
  <2>3. CASE latest'[slot] = "none"
    BY <2>3 DEF Reflects
  <2>4. CASE latest'[slot] = latest[slot] /\ ItemsOf(slot)' = ItemsOf(slot)
    BY <2>2, <2>4, SlotUntouched DEF Fewer
  <2> QED
    BY <2>2, <2>3, <2>4 DEF Fewer
<1>9. Labelling'
  <2>1. ASSUME NEW v \in Workers, Active(v)', work'[v].h.action = "label" PROVE LabelCall(v)'
    <3>1. CASE Fresh(v)
      BY <2>1, <3>1 DEF Fresh
    <3>2. CASE ~Fresh(v)
      <4>1. LabelCall(v)
        BY <1>1, <1>3, <2>1, <3>2 DEF Labelling
      <4>2. /\ work'[v].at = work[v].at /\ work'[v].h = work[v].h /\ work'[v].state = work[v].state
            /\ work'[v].known = work[v].known /\ work'[v].todo = work[v].todo
            /\ work'[v].ran \in {work[v].ran, "disturbed"}
        BY <1>3, <2>1, <3>2
      <4>3. Progress(v)' = Progress(v)
        BY <4>2 DEF Progress, At
      <4> QED
        BY <4>1, <4>2, <4>3 DEF LabelCall, At
    <3> QED
      BY <3>1, <3>2
  <2>2. \A slot \in Slots' : (slot[1] = "label" /\ latest'[slot] # "none") => slot[2] = PageKey
    BY <1>1, <1>2 DEF Labelling, Fewer
  <2> QED
    BY <1>1, <2>1, <2>2 DEF Labelling
<1>10. LabelsConverge'
  <2>1. SUFFICES ASSUME NEW slot \in Slots PROVE Converges(slot)'
    BY <1>2 DEF LabelsConverge, Converges
  <2>2. Converges(slot) /\ HandlerOf(slot)' = HandlerOf(slot)
    BY <1>1, SamePage DEF LabelsConverge, Converges
  <2>3. latest'[slot] = "none" \/ latest'[slot] = latest[slot]
    BY DEF Fewer
  <2> QED
    BY <2>2, <2>3 DEF Converges
<1> QED
  BY <1>4, <1>5, <1>6, <1>7, <1>8, <1>9, <1>10 DEF IInv

\* Where a call begins.
LEMMA FirstSteps ==
  ASSUME NEW h, h.does \in DOMAIN Procedure
  PROVE  /\ FirstStep(h) \in Procedure[h.does]
         /\ FirstStep(h) \notin {"idle", "edit", "status", "settle", "new", "make", "attach", "each"}
         /\ FirstStep(h) = "create" => h.does \in {"create", "deploy"}
         /\ FirstStep(h) = "remove" <=> h.does = "remove"
<1>1. CASE h.does \in {"create", "deploy"}
  BY <1>1 DEF FirstStep, Procedure
<1>2. CASE h.does \in {"upsert", "thread", "incident"}
  BY <1>2 DEF FirstStep, Procedure
<1>3. CASE h.does \in {"lookup", "put", "remove", "labels"}
  <2>1. FirstStep(h) = h.does
    BY <1>3 DEF FirstStep
  <2> QED
    BY <1>3, <2>1 DEF Procedure
<1> QED
  BY <1>1, <1>2, <1>3 DEF Procedure

\* A new call keeps the invariant.
LEMMA StartStep ==
  ASSUME IInv, NEW w \in Workers, NEW h \in on, NEW k \in Keys,
         NEW s \in States \cap DOMAIN h.words, Start(w, h, k, s)
  PROVE  IInv'
<1>1. /\ TypeOK /\ Rivals /\ Found /\ Labelling
      /\ on \in Pages /\ items \in Seq(Shown) /\ \A i \in DOMAIN items : IsItem(items[i])
      /\ work \in [Workers -> Calls \cup {Idle}]
      /\ latest \in [Slots -> AllStates \cup {"none"}] /\ excused \subseteq Slots
      /\ events \in Nat /\ faults \in Nat
  BY DEF IInv, TypeOK
<1>2. PICK here : here = <<h.action, k>>
  OBVIOUS
<1>3. here \in Slots /\ HandlerFacts(h)
  BY <1>1, <1>2, HandlerOfSlot, HandlersOfPages
<1>4. PICK rivals \in SUBSET Workers : rivals = {v \in Workers : ~At(v, "idle") /\ Slot(v) = here}
  OBVIOUS
<1>5. PICK first : first = FirstStep(h)
  OBVIOUS
<1>6. PICK ran : ran = IF rivals = {} THEN "alone" ELSE "disturbed"
  OBVIOUS
<1>7. PICK todo : todo = IF first = "remove" THEN Remove[s] ELSE {}
  OBVIOUS
<1>8. PICK call : call = [at |-> first, h |-> h, key |-> k, state |-> s, ran |-> ran,
                          found |-> 0, known |-> {}, label |-> "", todo |-> todo]
  OBVIOUS
<1>9. /\ At(w, "idle")
      /\ h.action = "label" => k = PageKey
      /\ work' = [v \in Workers |-> IF v = w THEN call
                                    ELSE IF v \in rivals THEN Disturbed(v)
                                    ELSE work[v]]
      /\ latest' = [latest EXCEPT ![here] = "none"]
      /\ excused' = IF rivals = {} THEN excused ELSE excused \cup {here}
      /\ events' = events + 1
      /\ UNCHANGED <<on, items, labels, repo, cache, faults>>
  BY <1>2, <1>4, <1>5, <1>6, <1>7, <1>8 DEF Start
<1>10. /\ first \in Procedure[h.does]
       /\ first \notin {"idle", "edit", "status", "settle", "new", "make", "attach", "each"}
       /\ first = "create" => h.does \in {"create", "deploy"}
       /\ first = "remove" <=> h.does = "remove"
  BY <1>3, <1>5, FirstSteps DEF HandlerFacts
<1>11. /\ call.at = first /\ call.h = h /\ call.key = k /\ call.state = s /\ call.ran = ran
       /\ call.todo = todo
  BY <1>8
<1>12. s \in States /\ s \in DOMAIN h.words /\ Remove[s] \subseteq Names
  BY ScmAssumption
<1>13. call \in Calls
  <2>1. first \in UNION {Procedure[does] : does \in DOMAIN Procedure}
    BY <1>3, <1>10, Steps DEF HandlerFacts
  <2>2. ran \in {"alone", "disturbed"} /\ todo \in SUBSET Names
    BY <1>6, <1>7, <1>12
  <2> QED
    BY <1>8, <1>12, <2>1, <2>2 DEF Calls
<1>14. /\ work'[w] = call
       /\ \A v \in Workers \ {w} : work'[v] = IF v \in rivals THEN Disturbed(v) ELSE work[v]
  BY <1>9
<1>15. ASSUME NEW v \in Workers \ {w}
       PROVE  /\ Stands(v) /\ work'[v] \in Calls \cup {Idle}
              /\ v \in rivals => work'[v].ran = "disturbed"
  BY <1>1, <1>4, <1>14, Bystander
<1>16. work' \in [Workers -> Calls \cup {Idle}]
  BY <1>9, <1>13, <1>14, <1>15
<1>17. Slots' = Slots /\ Calls' = Calls
  BY <1>9, SamePage
<1>18. Fresh(w)
  <2>1. IsCall(work[w])'
    BY <1>9, <1>10, <1>11, <1>12, <1>13, <1>14, <1>17 DEF IsCall
  <2>2. ASSUME h.action = "label" PROVE LabelCall(w)'
    <3>1. h.does = "remove" => h.makes # "missing" /\ h.removes # "with add"
      BY <1>3, <2>2, LabelHandlers DEF HandlerFacts
    <3>2. first = "remove" => todo = Remove[s]
      BY <1>7
    <3> QED
      BY <1>10, <1>11, <1>14, <3>1, <3>2 DEF LabelCall, Progress, At
  <2> QED
    BY <1>10, <1>11, <1>14, <2>1, <2>2 DEF Fresh
<1>19. latest' \in [Slots -> AllStates \cup {"none"}] /\ latest'[here] = "none"
       /\ \A slot \in Slots : slot # here => latest'[slot] = latest[slot]
  BY <1>1, <1>3, <1>9
<1>20. excused \subseteq excused' /\ excused' \subseteq Slots
  BY <1>1, <1>3, <1>9
<1>21. Slot(w)' = here
  BY <1>2, <1>11, <1>14 DEF Slot
<1>22. ASSUME NEW v \in Workers \ {w}, Active(v)'
       PROVE  /\ Active(v) /\ Slot(v)' = Slot(v) /\ Slot(v) \in Slots
              /\ work'[v].ran \in {work[v].ran, "disturbed"}
  <2>1. Stands(v) /\ Active(v)
    BY <1>15, <1>22 DEF Stands
  <2> QED
    BY <1>1, <2>1, CallOf DEF Stands, Slot, Active
<1>23. Rivals'
  <2>1. SUFFICES ASSUME NEW v \in Workers, Active(v)'
                 PROVE  /\ latest'[Slot(v)'] = "none"
                        /\ \A u \in Workers \ {v} : Active(u)' /\ Slot(u)' = Slot(v)' =>
                             work'[v].ran = "disturbed" /\ Slot(v)' \in excused'
    BY DEF Rivals
  <2>2. latest'[Slot(v)'] = "none"
    <3>1. CASE v = w
      BY <1>19, <1>21, <3>1
    <3>2. CASE v # w
      BY <1>1, <1>19, <1>22, <2>1, <3>2 DEF Rivals
    <3> QED
      BY <3>1, <3>2
  <2>3. ASSUME NEW u \in Workers \ {v}, Active(u)', Slot(u)' = Slot(v)'
        PROVE  work'[v].ran = "disturbed" /\ Slot(v)' \in excused'
    <3>1. CASE v = w
      <4>1. u \in rivals
        BY <1>4, <1>21, <1>22, <2>3, <3>1 DEF Active
      <4> QED
        BY <1>6, <1>9, <1>11, <1>14, <1>21, <3>1, <4>1
    <3>2. CASE u = w
      <4>1. v \in rivals
        BY <1>4, <1>21, <1>22, <2>1, <2>3, <3>2 DEF Active
      <4> QED
        BY <1>9, <1>15, <1>21, <2>3, <3>2, <4>1
    <3>3. CASE v # w /\ u # w
      <4>1. /\ Active(v) /\ Active(u) /\ Slot(u) = Slot(v) /\ Slot(v)' = Slot(v)
            /\ work'[v].ran \in {work[v].ran, "disturbed"}
        BY <1>22, <2>1, <2>3, <3>3
      <4>2. work[v].ran = "disturbed" /\ Slot(v) \in excused
        BY <1>1, <4>1 DEF Rivals
      <4> QED
        BY <1>20, <4>1, <4>2
    <3> QED
      BY <3>1, <3>2, <3>3
  <2> QED
    BY <2>2, <2>3
<1>24. \A slot \in Slots : Fewer(slot)
  <2>1. SUFFICES ASSUME NEW slot \in Slots PROVE Fewer(slot)
    OBVIOUS
  <2>2. ItemsOf(slot)' = ItemsOf(slot) /\ \A i \in ItemsOf(slot) : items'[i] = items[i]
    BY <1>9 DEF ItemsOf, Live
  <2> QED
    BY <1>19, <2>2 DEF Fewer
<1>25. /\ items' \in Seq(Shown) /\ DOMAIN items \subseteq DOMAIN items'
       /\ \A i \in DOMAIN items' : IsItem(items'[i])
       /\ \A i \in DOMAIN items : items'[i].by = items[i].by /\ items'[i].key = items[i].key
  BY <1>1, <1>9
<1>26. events' \in Nat /\ faults' \in Nat
  BY <1>1, <1>9
<1>27. \A v \in Workers : Stands(v) \/ Fresh(v)
  BY <1>15, <1>18
<1> QED
  BY <1>9, <1>16, <1>19, <1>20, <1>23, <1>24, <1>25, <1>26, <1>27, Meanwhile

\* A person's comment keeps the invariant.
LEMMA CommentsStep ==
  ASSUME IInv, Comments
  PROVE  IInv'
<1>1. /\ TypeOK /\ Rivals /\ on \in Pages /\ items \in Seq(Shown)
      /\ \A i \in DOMAIN items : IsItem(items[i])
      /\ work \in [Workers -> Calls \cup {Idle}]
      /\ latest \in [Slots -> AllStates \cup {"none"}] /\ excused \subseteq Slots
      /\ events \in Nat /\ faults \in Nat
  BY DEF IInv, TypeOK
<1>2. PICK new : new = Item("person", PageKey, "none")
  OBVIOUS
<1>3. /\ items' = Append(items, new) /\ faults' \in Nat
      /\ UNCHANGED <<on, labels, repo, cache, work, latest, excused, events>>
  BY <1>1, <1>2 DEF Comments, Fault
<1>4. new.by = "person" /\ new \in Shown /\ IsItem(new)
  <2>1. PageKey \in Keys
    BY ScmAssumption DEF PageKey
  <2> QED
    BY <1>2, <2>1 DEF Item, Shown, IsItem
<1>5. PICK n : n = Len(items) + 1
  OBVIOUS
<1>6. /\ items' \in Seq(Shown) /\ DOMAIN items' = DOMAIN items \cup {n} /\ n \notin DOMAIN items
      /\ items'[n] = new /\ \A i \in DOMAIN items : items'[i] = items[i]
  BY <1>1, <1>3, <1>4, <1>5
<1>7. \A i \in DOMAIN items' : IsItem(items'[i])
  BY <1>1, <1>4, <1>6
<1>8. \A slot \in Slots : Fewer(slot)
  <2>1. SUFFICES ASSUME NEW slot \in Slots PROVE Fewer(slot)
    OBVIOUS
  <2>2. slot[1] # "person"
    BY <1>1, HandlersOfPages DEF Slots, HandlerFacts
  <2>3. ItemsOf(slot)' = ItemsOf(slot) /\ \A i \in ItemsOf(slot) : items'[i] = items[i]
    BY <1>4, <1>6, <2>2 DEF ItemsOf, Live
  <2> QED
    BY <1>3, <2>3 DEF Fewer
<1>9. Rivals' /\ \A v \in Workers : Stands(v)
  BY <1>1, <1>3, Bystander DEF Rivals, Active, At, Slot
<1> QED
  BY <1>1, <1>3, <1>6, <1>7, <1>8, <1>9, Meanwhile

\* An item that a person deletes keeps the invariant.
LEMMA DeletesStep ==
  ASSUME IInv, NEW i \in DOMAIN items, Deletes(i)
  PROVE  IInv'
<1>1. /\ TypeOK /\ Rivals /\ on \in Pages /\ items \in Seq(Shown)
      /\ \A j \in DOMAIN items : IsItem(items[j])
      /\ work \in [Workers -> Calls \cup {Idle}]
      /\ latest \in [Slots -> AllStates \cup {"none"}] /\ excused \subseteq Slots
      /\ events \in Nat /\ faults \in Nat
  BY DEF IInv, TypeOK
<1>2. PICK here : here = <<items[i].by, items[i].key>>
  OBVIOUS
<1>3. /\ items' = [items EXCEPT ![i].live = FALSE] /\ faults' \in Nat
      /\ latest' = IF here \in Slots THEN [latest EXCEPT ![here] = "none"] ELSE latest
      /\ work' = [w \in Workers |-> IF ~At(w, "idle") /\ Slot(w) = here
                                    THEN Disturbed(w) ELSE work[w]]
      /\ UNCHANGED <<on, labels, repo, cache, excused, events>>
  BY <1>1, <1>2 DEF Deletes, Fault
<1>4. PICK new : new = [items[i] EXCEPT !.live = FALSE]
  OBVIOUS
<1>5. /\ new \in Shown /\ IsItem(new) /\ new.by = items[i].by /\ new.key = items[i].key
      /\ ~new.live
  <2>1. items[i] \in Shown /\ IsItem(items[i])
    BY <1>1, ShownFields
  <2>2. new.by = items[i].by /\ new.key = items[i].key /\ new.shows = items[i].shows
    BY <1>4, <2>1 DEF Shown
  <2>3. ~new.live
    BY <1>4, <2>1 DEF Shown
  <2>4. new \in Shown
    BY <1>4, <2>1 DEF Shown
  <2> QED
    BY <2>1, <2>2, <2>3, <2>4 DEF IsItem
<1>6. /\ items' \in Seq(Shown) /\ DOMAIN items' = DOMAIN items /\ items'[i] = new
      /\ \A j \in DOMAIN items : j # i => items'[j] = items[j]
  <2>1. items' = [items EXCEPT ![i] = new]
    BY <1>1, <1>3, <1>4
  <2> QED
    BY <1>1, <1>5, <2>1
<1>7. /\ \A j \in DOMAIN items' : IsItem(items'[j])
      /\ \A j \in DOMAIN items : items'[j].by = items[j].by /\ items'[j].key = items[j].key
  BY <1>1, <1>5, <1>6
<1>8. /\ latest' \in [Slots -> AllStates \cup {"none"}]
      /\ \A slot \in Slots : latest'[slot] = IF slot = here THEN "none" ELSE latest[slot]
  BY <1>1, <1>3
<1>9. \A slot \in Slots : Fewer(slot)
  <2>1. SUFFICES ASSUME NEW slot \in Slots PROVE Fewer(slot)
    OBVIOUS
  <2>2. ItemsOf(slot)' = ItemsOf(slot) \ {i}
    BY <1>5, <1>6, <1>7 DEF ItemsOf, Live
  <2>3. slot # here => i \notin ItemsOf(slot)
    BY <1>2 DEF ItemsOf, Slots
  <2>4. ItemsOf(slot) \subseteq DOMAIN items
    BY DEF ItemsOf, Live
  <2> QED
    BY <1>6, <1>8, <2>2, <2>3, <2>4 DEF Fewer
<1>10. ASSUME NEW v \in Workers
       PROVE  Stands(v) /\ work'[v] \in Calls \cup {Idle}
  BY <1>1, <1>3, Bystander
<1>11. work' \in [Workers -> Calls \cup {Idle}]
  BY <1>3, <1>10
<1>12. Rivals'
  <2>1. ASSUME NEW v \in Workers, Active(v)'
        PROVE  /\ Active(v) /\ Slot(v)' = Slot(v) /\ Slot(v) \in Slots
               /\ work'[v].ran \in {work[v].ran, "disturbed"}
    <3>1. Stands(v) /\ Active(v)
      BY <1>10, <2>1 DEF Stands
    <3> QED
      BY <1>1, <3>1, CallOf DEF Stands, Slot, Active
  <2> QED
    BY <1>1, <1>3, <1>8, <2>1 DEF Rivals
<1> QED
  BY <1>1, <1>3, <1>6, <1>7, <1>8, <1>9, <1>10, <1>11, <1>12, Meanwhile

-----------------------------------------------------------------------------
(* The theorems.                                                           *)

\* The invariant holds at first.
LEMMA Initially == Init => IInv
<1>1. SUFFICES ASSUME Init PROVE IInv
  OBVIOUS
<1>2. /\ on \in Pages /\ items = <<>> /\ labels = Existing /\ cache = {}
      /\ repo = [n \in Names |-> IF n \in Existing THEN "plain" ELSE "absent"]
      /\ work = [w \in Workers |-> Idle] /\ latest = [s \in Slots |-> "none"]
      /\ excused = {} /\ events = 0 /\ faults = 0
  BY <1>1 DEF Init
<1>3. \A w \in Workers : work[w].at = "idle"
  BY <1>2 DEF Idle
<1>4. items \in Seq(Shown) /\ DOMAIN items = {}
  BY <1>2
<1>5. labels \subseteq Names /\ \A n \in labels : repo[n] # "absent"
  BY <1>2, ScmAssumption
<1>6. TypeOK
  BY <1>2, <1>3, <1>4, <1>5 DEF TypeOK, At
<1>7. Rivals /\ Found /\ Vacant
  BY <1>3 DEF Rivals, Found, Vacant, Active, At
<1>8. \A slot : ItemsOf(slot) = {}
  BY <1>4 DEF ItemsOf, Live
<1>9. AtMostOne
  BY <1>8 DEF AtMostOne, OneIn
<1>10. Reflected /\ LabelsConverge
  BY <1>2 DEF Reflected, LabelsConverge
<1>11. Labelling
  BY <1>2, <1>3, <1>5 DEF Labelling, Active, At
<1> QED
  BY <1>6, <1>7, <1>9, <1>10, <1>11 DEF IInv

\* Stuttering keeps the invariant.
LEMMA Unchanging ==
  ASSUME IInv, UNCHANGED vars
  PROVE  IInv'
<1>1. /\ on' = on /\ items' = items /\ labels' = labels /\ repo' = repo /\ cache' = cache
      /\ work' = work /\ latest' = latest /\ excused' = excused /\ events' = events
      /\ faults' = faults
  BY DEF vars
<1>2. /\ TypeOK /\ Rivals /\ items \in Seq(Shown) /\ \A i \in DOMAIN items : IsItem(items[i])
      /\ work \in [Workers -> Calls \cup {Idle}]
      /\ latest \in [Slots -> AllStates \cup {"none"}] /\ excused \subseteq Slots
      /\ events \in Nat /\ faults \in Nat
  BY DEF IInv, TypeOK
<1>3. \A slot \in Slots : Fewer(slot)
  BY <1>1 DEF Fewer, ItemsOf, Live
<1>4. Rivals' /\ \A v \in Workers : Stands(v)
  BY <1>1, <1>2, Bystander DEF Rivals, Active, At, Slot
<1> QED
  BY <1>1, <1>2, <1>3, <1>4, Meanwhile

\* Every step keeps the invariant.
LEMMA Inductive == IInv /\ [Next]_vars => IInv'
<1>1. SUFFICES ASSUME IInv, Next PROVE IInv'
  BY Unchanging
<1>2. ASSUME NEW w \in Workers, NEW h \in on, NEW k \in Keys,
             NEW s \in States \cap DOMAIN h.words, Start(w, h, k, s)
      PROVE  IInv'
  BY <1>1, <1>2, StartStep
<1>3. ASSUME NEW w \in Workers,
             Lookup(w) \/ List(w) \/ Create(w) \/ FindExistingDeployment(w) \/ Update(w) \/ Put(w)
      PROVE  IInv'
  BY <1>1, <1>3, LookupStep, ListStep, CreateStep, FindExistingDeploymentStep, UpdateStep, PutStep
<1>4. ASSUME NEW w \in Workers, ListLabels(w) \/ Turn(w) \/ NewLabel(w) \/ Attach(w)
      PROVE  IInv'
  BY <1>1, <1>4, ListLabelsStep, TurnStep, NewLabelStep, AttachStep
<1>5. ASSUME NEW w \in Workers, NEW n \in Names,
             RemoveLabel(w, n) \/ MakeLabel(w, n) \/ AttachEach(w, n)
      PROVE  IInv'
  BY <1>1, <1>5, RemoveLabelStep, MakeLabelStep, AttachEachStep
<1>6. CASE Comments
  BY <1>1, <1>6, CommentsStep
<1>7. ASSUME NEW i \in DOMAIN items, Deletes(i) PROVE IInv'
  BY <1>1, <1>7, DeletesStep
<1> QED
  BY <1>1, <1>2, <1>3, <1>4, <1>5, <1>6, <1>7 DEF Next

\* The strengthening of all properties of Scm holds in every behaviour, of any
\* number of workers, keys, labels, events and failures.
THEOREM Invariant == Spec => []IInv
  BY Initially, Inductive, PTL DEF Spec

\* The state is well formed whatever the handlers, the calls that fail and
\* the people on the page do: each call is at a step of its own handler's
\* procedure, a call that is about to change an item has one, and no item
\* shows a word its provider does not know.
THEOREM TypeCorrect == Spec => []TypeOK
<1>1. IInv => TypeOK
  BY DEF IInv
<1> QED
  BY <1>1, Invariant, PTL

\* However many relays report, at whatever page size, a run has a second
\* comment, thread or open incident only where two of its calls overlapped,
\* a listing did not tell of the first or a repeated POST made it.
THEOREM OneEach == Spec => []DuplicatesExplained
<1>1. ASSUME IInv PROVE DuplicatesExplained
  <2>1. SUFFICES ASSUME NEW slot \in Slots \ excused
        PROVE  CASE HandlerOf(slot).does \in {"upsert", "thread"} -> Cardinality(ItemsOf(slot)) <= 1
                 [] HandlerOf(slot).does = "incident" ->
                      Cardinality({i \in ItemsOf(slot) : items[i].open}) <= 1
                 [] OTHER -> TRUE
    BY DEF DuplicatesExplained
  <2>2. OneIn(slot)
    BY <1>1 DEF IInv, AtMostOne
  <2>3. ASSUME NEW S, \A i, j \in S : i = j
        PROVE  Cardinality(S) <= 1
    <3>1. CASE S = {}
      BY <3>1, FS_EmptySet
    <3>2. CASE S # {}
      <4>1. PICK i : S = {i}
        BY <2>3, <3>2
      <4>2. Cardinality({i}) = 1
        BY FS_Singleton
      <4> QED
        BY <4>1, <4>2
    <3> QED
      BY <3>1, <3>2
  <2>4. CASE HandlerOf(slot).does \in {"upsert", "thread"}
    <3>1. \A i, j \in ItemsOf(slot) : i = j
      BY <2>2, <2>4 DEF OneIn
    <3> QED
      BY <2>3, <2>4, <3>1
  <2>5. CASE HandlerOf(slot).does = "incident"
    <3>1. PICK S : S = {i \in ItemsOf(slot) : items[i].open}
      OBVIOUS
    <3>2. \A i, j \in S : i = j
      BY <2>2, <2>5, <3>1 DEF OneIn
    <3> QED
      BY <2>3, <2>5, <3>1, <3>2
  <2>6. CASE HandlerOf(slot).does \notin {"upsert", "thread", "incident"}
    BY <2>6
  <2> QED
    BY <2>4, <2>5, <2>6
<1> QED
  BY <1>1, Invariant, PTL

\* What Handle reported with no error, and without a rival call, the page
\* shows until the next event, for every provider's words.
THEOREM ReportsStand == Spec => []Reflected
<1>1. IInv => Reflected
  BY DEF IInv
<1> QED
  BY <1>1, Invariant, PTL

\* A label call that went through leaves the labels its lists ask for, for
\* all lists, all pages of a listing and all earlier calls that broke off.
THEOREM LabelsAsAsked == Spec => []LabelsConverge
<1>1. IInv => LabelsConverge
  BY DEF IInv
<1> QED
  BY <1>1, Invariant, PTL

\* A step of a call that changes items changes those of its slot.
LEMMA OthersLeft ==
  ASSUME NEW w \in Workers, ~At(w, "idle"), ItemStep(w), NEW i \in DOMAIN items, items'[i] # items[i]
  PROVE  Slot(w) = <<items[i].by, items[i].key>>
  BY DEF ItemStep

\* No handler changes an item of another handler, another run or a person,
\* and none takes an item away: only people do that.
THEOREM OthersUntouched == Spec => OwnItemsOnly
<1> DEFINE Own1(i) == \/ Deletes(i)
                      \/ /\ items'[i].live = items[i].live
                         /\ \E w \in Workers :
                              ~At(w, "idle") /\ Slot(w) = <<items[i].by, items[i].key>>
<1>1. ASSUME IInv, [Next]_vars
      PROVE  [\A i \in DOMAIN items : items'[i] # items[i] => Own1(i)]_vars
  <2>1. SUFFICES ASSUME Next, NEW i \in DOMAIN items, items'[i] # items[i] PROVE Own1(i)
    BY <1>1
  <2>2. TypeOK /\ Found /\ items \in Seq(Shown)
    BY <1>1 DEF IInv, TypeOK
  <2>3. ASSUME NEW w \in Workers, ~At(w, "idle"), ItemStep(w), NEW j \in DOMAIN items,
               NEW new, new.live = items[j].live, items' = [items EXCEPT ![j] = new]
        PROVE  Own1(i)
    <3>1. i = j /\ items'[i] = new
      BY <2>1, <2>2, <2>3
    <3> QED
      BY <2>1, <2>3, <3>1, OthersLeft
  <2>4. ASSUME NEW w \in Workers, ~At(w, "idle"), on' = on, items' = Append(items, Created(w))
        PROVE  Own1(i)
    <3>1. items'[i] = items[i]
      BY <2>1, <2>2, <2>4, Appended
    <3> QED
      BY <2>1, <3>1
  <2>5. ASSUME NEW w \in Workers, Create(w) PROVE Own1(i)
    BY <2>1, <2>4, <2>5 DEF Create, At
  <2>6. ASSUME NEW w \in Workers, Update(w) PROVE Own1(i)
    <3>1. /\ ~At(w, "idle") /\ on' = on /\ work[w].found \in DOMAIN items
          /\ HasMarker(w, work[w].found)
      BY <2>2, <2>6, CallOf DEF Update, At, Found, IsCall
    <3>2. PICK j \in DOMAIN items : j = work[w].found
      BY <3>1
    <3>3. PICK new : new = IF At(w, "settle") THEN [items[j] EXCEPT !.open = FALSE]
                                              ELSE [items[j] EXCEPT !.shows = Shows(w)]
      OBVIOUS
    <3>4. items' = [items EXCEPT ![j] = new]
      BY <2>1, <2>6, <3>2, <3>3 DEF Update
    <3>5. /\ new \in Shown /\ IsItem(new) /\ new.by = items[j].by /\ new.key = items[j].key
          /\ new.live = items[j].live
      BY <2>2, <3>1, <3>2, <3>3, Rewritten, Closed
    <3>6. ItemStep(w)
      BY <2>2, <3>1, <3>2, <3>4, <3>5, Changed
    <3> QED
      BY <2>3, <3>1, <3>2, <3>4, <3>5, <3>6
  <2>7. ASSUME NEW w \in Workers, Put(w) PROVE Own1(i)
    <3>1. ~At(w, "idle") /\ on' = on
      BY <2>7 DEF Put, At
    <3>2. CASE items' = Append(items, Created(w))
      BY <2>4, <3>1, <3>2
    <3>3. CASE Marked(w) # {} /\ items' = [items EXCEPT ![Max(Marked(w))].shows = Shows(w)]
      <4>1. PICK j : j = Max(Marked(w))
        OBVIOUS
      <4>2. j \in DOMAIN items /\ HasMarker(w, j)
        BY <2>2, <3>1, <3>3, <4>1, MarkedItems
      <4>3. PICK new : new = [items[j] EXCEPT !.shows = Shows(w)]
        OBVIOUS
      <4>4. items' = [items EXCEPT ![j] = new]
        BY <2>2, <3>3, <4>1, <4>2, <4>3
      <4>5. /\ new \in Shown /\ IsItem(new) /\ new.by = items[j].by /\ new.key = items[j].key
            /\ new.live = items[j].live
        BY <2>2, <3>1, <4>2, <4>3, Rewritten
      <4>6. ItemStep(w)
        BY <2>2, <3>1, <4>2, <4>4, <4>5, Changed
      <4> QED
        BY <2>3, <3>1, <4>2, <4>4, <4>5, <4>6
    <3> QED
      BY <2>1, <2>7, <3>2, <3>3 DEF Put
  <2>8. ASSUME Comments PROVE Own1(i)
    BY <2>1, <2>2, <2>8 DEF Comments
  <2>9. ASSUME NEW j \in DOMAIN items, Deletes(j) PROVE Own1(i)
    <3>1. i = j
      BY <2>1, <2>2, <2>9 DEF Deletes
    <3> QED
      BY <2>9, <3>1
  <2>10. ASSUME items' = items PROVE Own1(i)
    BY <2>1, <2>10
  <2>11. ASSUME NEW w \in Workers,
               \/ \E h \in on, k \in Keys : \E s \in States \cap DOMAIN h.words : Start(w, h, k, s)
               \/ Lookup(w) \/ List(w) \/ FindExistingDeployment(w)
               \/ ListLabels(w) \/ Turn(w) \/ NewLabel(w) \/ Attach(w)
               \/ \E n \in Names : RemoveLabel(w, n) \/ MakeLabel(w, n) \/ AttachEach(w, n)
         PROVE  items' = items
    BY <2>11 DEF Start, Lookup, List, FindExistingDeployment, ListLabels, Turn, NewLabel, Attach,
                 RemoveLabel, MakeLabel, AttachEach
  <2> QED
    BY <2>1, <2>5, <2>6, <2>7, <2>8, <2>9, <2>10, <2>11 DEF Next
<1> QED
  BY <1>1, Invariant, PTL DEF Spec, OwnItemsOnly
=============================================================================
