---------------------------- MODULE Accumulator ----------------------------
(***************************************************************************)
(* internal/accumulator: the handler that collects TaskRun events and      *)
(* posts one summary when their PipelineRun ends, or, for PipelineRuns     *)
(* with a group annotation, when every member of the group has ended.      *)
(*                                                                         *)
(* The handler is called from many goroutines. Each operation of the       *)
(* buffer is one critical section (LRUBuffer) or one command of the store  *)
(* (StoreBuffer), but a call of Handle makes up to three of them, and the  *)
(* summary is in the goroutine's hand between flush and post.              *)
(* An entry of the buffer is the set of TaskRuns in it; the text of the    *)
(* summary is left out. Events of other resources change nothing.          *)
(***************************************************************************)
EXTENDS Naturals, FiniteSets

CONSTANTS
  Pipelines,  \* PipelineRuns
  Tasks,      \* TaskRuns
  Parent,     \* the PipelineRun of each TaskRun
  RunId,      \* the RunID the events of each object carry
  Groups,     \* values of the group annotation
  Ungrouped,  \* no group annotation
  GroupOf,    \* the annotation of each PipelineRun, which its TaskRuns inherit
  Workers,    \* goroutines that call Handle
  MaxCalls,   \* bound on the calls of Handle
  MaxMishaps  \* bound on evictions, store errors and failed posts

Objects == Pipelines \cup Tasks
Uids == {RunId[o] : o \in Objects}
Annotations == Groups \cup {Ungrouped}
Keys == Annotations \X Uids

ASSUME AccumulatorAssumption ==
  /\ Pipelines # {} /\ Pipelines \cap Tasks = {}
  /\ Parent \in [Tasks -> Pipelines]
  /\ DOMAIN RunId = Objects
  /\ Ungrouped \notin Groups
  /\ GroupOf \in [Pipelines -> Annotations]
  /\ IsFiniteSet(Workers)
  /\ MaxCalls \in Nat /\ MaxMishaps \in Nat

VARIABLES
  backend,  \* "lru" (LRUBuffer) or "store" (StoreBuffer)
  cached,   \* keys with an entry in the buffer
  entry,    \* the TaskRuns of each entry
  member,   \* b.groups: what is known of each UID of each group
  work,     \* where each goroutine is
  calls, mishaps,
  added,    \* history: Adds of each TaskRun
  shown,    \* history: summaries posted with each TaskRun
  due,      \* history: TaskRuns that were known when their run was flushed
  excused   \* history: TaskRuns a mishap may have taken out

bufferVars == <<cached, entry, member>>
history == <<added, shown, due, excused>>
vars == <<backend, bufferVars, work, calls, mishaps, history>>

Annotation(o) == GroupOf[IF o \in Tasks THEN Parent[o] ELSE o]
Key(o) == <<Annotation(o), RunId[o]>>
Idle == [at |-> "idle", obj |-> CHOOSE o \in Objects : TRUE, final |-> FALSE, held |-> {}]
Work == [at : {"idle", "add", "check", "flush", "post"},
         obj : Objects, final : BOOLEAN, held : SUBSET Tasks]

TypeOK ==
  /\ backend \in {"lru", "store"}
  /\ cached \subseteq Keys
  /\ entry \in [Keys -> SUBSET Tasks]
  /\ member \in [Groups -> [Uids -> {"absent", "open", "ended"}]]
  /\ work \in [Workers -> Work]
  /\ calls \in Nat /\ mishaps \in Nat
  /\ added \in [Tasks -> Nat] /\ shown \in [Tasks -> Nat]
  /\ due \subseteq Tasks /\ excused \subseteq Tasks

Init ==
  /\ backend \in {"lru", "store"}
  /\ cached = {} /\ entry = [k \in Keys |-> {}]
  /\ member = [g \in Groups |-> [u \in Uids |-> "absent"]]
  /\ work = [w \in Workers |-> Idle]
  /\ calls = 0 /\ mishaps = 0
  /\ added = [t \in Tasks |-> 0] /\ shown = [t \in Tasks |-> 0]
  /\ due = {} /\ excused = {}

Goto(w, l) == work' = [work EXCEPT ![w] = [work[w] EXCEPT !.at = l]]
Return(w) == work' = [work EXCEPT ![w] = Idle]

\* Something outside the handler goes wrong for these TaskRuns.
Mishap(ts) ==
  /\ mishaps < MaxMishaps
  /\ mishaps' = mishaps + 1
  /\ excused' = excused \cup ts

\* IsGroupComplete: every member seen so far has ended.
IsGroupComplete(g) ==
  /\ \E u \in Uids : member[g][u] # "absent"
  /\ \A u \in Uids : member[g][u] # "open"

-----------------------------------------------------------------------------
(* Handle, one call per event, in whatever order events arrive.            *)

Handle(w, o, final) ==
  /\ work[w].at = "idle" /\ calls < MaxCalls
  /\ calls' = calls + 1
  /\ work' = [work EXCEPT ![w] = [at |-> "add", obj |-> o, final |-> final, held |-> {}]]
  /\ UNCHANGED <<backend, bufferVars, mishaps, history>>

\* Mutant: whether the group is complete is looked up before the Add.
AfterAddStale(w) ==
  IF work[w].obj \in Pipelines /\ work[w].final
  THEN IF Annotation(work[w].obj) = Ungrouped \/ IsGroupComplete(Annotation(work[w].obj))
       THEN Goto(w, "flush") ELSE Return(w)
  ELSE Return(w)

\* Only the end of a PipelineRun has more to do after the Add.
AfterAdd(w) ==
  IF work[w].obj \in Pipelines /\ work[w].final
  THEN Goto(w, IF Annotation(work[w].obj) = Ungrouped THEN "flush" ELSE "check")
  ELSE Return(w)

\* Mutant: every Add starts a new RunState.
EntryAnew(o) ==
  entry' = [entry EXCEPT ![Key(o)] = {o} \cap Tasks]

\* The entry of the run is created or updated; TaskRuns go into it by name.
Entry(o) ==
  entry' = [entry EXCEPT ![Key(o)] = @ \cup ({o} \cap Tasks)]

\* AddWithGroup enters the UID as a member and notes the end of a PipelineRun.
Mark(o, final) ==
  IF Annotation(o) = Ungrouped
  THEN UNCHANGED member
  ELSE member' = [member EXCEPT ![Annotation(o)][RunId[o]] =
                    IF o \in Pipelines /\ final THEN "ended"
                    ELSE IF @ = "absent" THEN "open" ELSE @]

CountAdd(o) ==
  added' = IF o \in Tasks THEN [added EXCEPT ![o] = @ + 1] ELSE added

\* LRUBuffer.Add and AddWithGroup, under b.mu.
AddLRU(w) ==
  /\ work[w].at = "add" /\ backend = "lru"
  /\ LET o == work[w].obj
     IN  /\ cached' = cached \cup {Key(o)}
         /\ Entry(o)
         /\ Mark(o, work[w].final)
         /\ CountAdd(o)
  /\ AfterAdd(w)
  /\ UNCHANGED <<backend, calls, mishaps, shown, due, excused>>

\* StoreBuffer.Add: only TaskRuns are stored. AddWithGroup does nothing.
AddStore(w) ==
  /\ work[w].at = "add" /\ backend = "store"
  /\ LET o == work[w].obj
     IN  /\ IF o \in Tasks /\ Annotation(o) = Ungrouped
            THEN cached' = cached \cup {Key(o)} /\ Entry(o)
            ELSE UNCHANGED <<cached, entry>>
         /\ excused' = IF Annotation(o) = Ungrouped THEN excused
                       ELSE excused \cup ({o} \cap Tasks)
         /\ CountAdd(o)
  /\ AfterAdd(w)
  /\ UNCHANGED <<backend, member, calls, mishaps, shown, due>>

\* The store fails: the event is not buffered and Handle goes on.
AddStoreFails(w) ==
  /\ work[w].at = "add" /\ backend = "store"
  /\ Mishap({work[w].obj} \cap Tasks)
  /\ CountAdd(work[w].obj)
  /\ AfterAdd(w)
  /\ UNCHANGED <<backend, bufferVars, calls, shown, due>>

\* StoreBuffer.IsGroupComplete is always false, as no member is ever entered.
Check(w) ==
  /\ work[w].at = "check"
  /\ IF IsGroupComplete(Annotation(work[w].obj)) THEN Goto(w, "flush") ELSE Return(w)
  /\ UNCHANGED <<backend, bufferVars, calls, mishaps, history>>

\* The TaskRuns whose summary the end of o is about.
Due(o) ==
  {t \in Tasks : added[t] > 0 /\ IF Annotation(o) = Ungrouped THEN Parent[t] = o
                                 ELSE Annotation(t) = Annotation(o)}

\* A summary without TaskRuns is not posted.
Take(w, ts) ==
  work' = [work EXCEPT ![w] = IF ts = {} THEN Idle
                              ELSE [work[w] EXCEPT !.at = "post", !.held = ts]]

\* Mutant: the entry is returned and stays.
DropEntriesKeeps(ks) == UNCHANGED <<cached, entry>>

DropEntries(ks) ==
  /\ cached' = cached \ ks
  /\ entry' = [k \in Keys |-> IF k \in ks THEN {} ELSE entry[k]]

\* flushAndPost: Flush removes and returns the entry.
Flush(w) ==
  /\ work[w].at = "flush" /\ Annotation(work[w].obj) = Ungrouped
  /\ LET o == work[w].obj
     IN  /\ Take(w, entry[Key(o)])
         /\ DropEntries({Key(o)})
         /\ due' = due \cup Due(o)
  /\ UNCHANGED <<backend, member, calls, mishaps, added, shown, excused>>

\* The store fails, perhaps after it deleted the entry; no summary is posted.
FlushStoreFails(w) ==
  /\ work[w].at = "flush" /\ backend = "store" /\ Annotation(work[w].obj) = Ungrouped
  /\ LET o == work[w].obj
     IN  /\ Mishap(entry[Key(o)])
         /\ DropEntries({Key(o)}) \/ UNCHANGED <<cached, entry>>
         /\ due' = due \cup Due(o)
  /\ Return(w)
  /\ UNCHANGED <<backend, member, calls, added, shown>>

\* Mutant: the loop over the members ends with the first.
MemberKeysFirst(g) ==
  {<<g, u>> : u \in {CHOOSE u \in Uids : \A v \in Uids : member[g][v] # "absent" => member[g][u] # "absent"}}

\* Keys of the members of a group, as FlushGroup goes through them.
MemberKeys(g) == {<<g, u>> : u \in {u \in Uids : member[g][u] # "absent"}}

\* flushGroupAndPost: FlushGroup merges and removes the entries of the
\* members and forgets the group. A goroutine that comes second finds nothing.
FlushGroup(w) ==
  /\ work[w].at = "flush" /\ Annotation(work[w].obj) # Ungrouped
  /\ LET g == Annotation(work[w].obj)
     IN  /\ Take(w, UNION {entry[k] : k \in MemberKeys(g)})
         /\ DropEntries(MemberKeys(g))
         /\ member' = [member EXCEPT ![g] = [u \in Uids |-> "absent"]]
         /\ due' = due \cup Due(work[w].obj)
  /\ UNCHANGED <<backend, calls, mishaps, added, shown, excused>>

\* provider.Handle posts the summary.
Post(w) ==
  /\ work[w].at = "post"
  /\ shown' = [t \in Tasks |-> IF t \in work[w].held THEN shown[t] + 1 ELSE shown[t]]
  /\ Return(w)
  /\ UNCHANGED <<backend, bufferVars, calls, mishaps, added, due, excused>>

\* The provider fails: Handle returns the error and the summary is gone.
PostFails(w) ==
  /\ work[w].at = "post"
  /\ Mishap(work[w].held)
  /\ Return(w)
  /\ UNCHANGED <<backend, bufferVars, calls, added, shown, due>>

-----------------------------------------------------------------------------
(* The buffer drops entries on its own.                                    *)

\* The TTL passes or the LRU is full. Groups are not forgotten with it.
Evict(k) ==
  /\ k \in cached
  /\ Mishap(entry[k])
  /\ DropEntries({k})
  /\ UNCHANGED <<backend, member, work, calls, added, shown, due>>

\* Close purges the LRU and the groups; a StoreBuffer's data stays.
Close ==
  /\ backend = "lru"
  /\ Mishap(UNION {entry[k] : k \in cached})
  /\ DropEntries(cached)
  /\ member' = [g \in Groups |-> [u \in Uids |-> "absent"]]
  /\ UNCHANGED <<backend, work, calls, added, shown, due>>

Next ==
  \/ \E w \in Workers :
       \/ \E o \in Objects, final \in BOOLEAN : Handle(w, o, final)
       \/ AddLRU(w) \/ AddStore(w) \/ AddStoreFails(w)
       \/ Check(w)
       \/ Flush(w) \/ FlushStoreFails(w) \/ FlushGroup(w)
       \/ Post(w) \/ PostFails(w)
  \/ \E k \in Keys : Evict(k)
  \/ Close

Spec == Init /\ [][Next]_vars

-----------------------------------------------------------------------------
(* Properties.                                                             *)

InHand(t) == \E w \in Workers : t \in work[w].held
Buffered(t) == \E k \in cached : t \in entry[k]

\* No event of a TaskRun is reported twice: it is in no more summaries than
\* there were events of it, however ends of runs and groups race to flush.
ShownOnce == \A t \in Tasks : shown[t] <= added[t]

\* A TaskRun whose event was accepted is in the buffer, in the hand of a
\* goroutine about to post it, in a posted summary, or met a mishap.
TaskAccounted ==
  \A t \in Tasks :
    added[t] > 0 => Buffered(t) \/ InHand(t) \/ shown[t] > 0 \/ t \in excused

\* Handler: "accumulates TaskRun events and posts aggregate PR comments when a
\* PipelineRun reaches a terminal state". TaskRuns that were known when their
\* run, or their group, was flushed are in a summary, in this or an earlier one.
Summarised ==
  \A t \in due : InHand(t) \/ shown[t] > 0 \/ t \in excused

\* When no call is under way, no group all of whose members have ended is
\* left unposted: of the ends that race, the last one to be added flushes.
CompleteGroupsFlushed ==
  (\A w \in Workers : work[w].at = "idle") => \A g \in Groups : ~IsGroupComplete(g)

-----------------------------------------------------------------------------
(* The inductive strengthening of the safety properties.                   *)

\* A TaskRun is in the entry of its own key only, and an entry with TaskRuns
\* is in the cache and known to its group.
EntriesPlaced ==
  \A k \in Keys :
    \A t \in entry[k] :
      /\ k = Key(t) /\ k \in cached
      /\ k[1] \in Groups => member[k[1]][k[2]] # "absent"

\* A goroutine holds TaskRuns only between flush and post.
HeldToPost == \A w \in Workers : work[w].at # "post" => work[w].held = {}

\* The goroutine that will flush a complete group is on its way; a store
\* knows no groups.
GroupsAttended ==
  /\ \A g \in Groups :
       IsGroupComplete(g) =>
         \E w \in Workers : work[w].at \in {"check", "flush"} /\ Annotation(work[w].obj) = g
  /\ backend = "store" => \A g \in Groups, u \in Uids : member[g][u] = "absent"

\* Every copy of a TaskRun, posted, in a hand or in its entry, was paid for by
\* an Add of its own: Flush and FlushGroup move copies and make none.
Holders(t) == {w \in Workers : t \in work[w].held}
CopiesPaid ==
  \A t \in Tasks :
    shown[t] + Cardinality(Holders(t)) + (IF t \in entry[Key(t)] THEN 1 ELSE 0) <= added[t]

IInv == TypeOK /\ EntriesPlaced /\ HeldToPost /\ TaskAccounted /\ GroupsAttended
=============================================================================
