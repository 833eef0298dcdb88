------------------------- MODULE AccumulatorProofs -------------------------
(***************************************************************************)
(* Proofs about the accumulator, for any number of PipelineRuns, TaskRuns, *)
(* groups and goroutines. IInv is inductive; it says where a TaskRun can   *)
(* be and which goroutine still attends to a complete group. CopiesPaid    *)
(* counts the copies of a TaskRun against the Adds of it. Unsummarised is  *)
(* what becomes of it all with the RunIDs that the decoders produce.       *)
(***************************************************************************)
EXTENDS Accumulator, FiniteSetTheorems, TLAPS

\* The step of one goroutine, as a disjunction to split on.
Step(w) ==
  \/ \E o \in Objects, final \in BOOLEAN : Handle(w, o, final)
  \/ AddLRU(w) \/ AddStore(w) \/ AddStoreFails(w)
  \/ Check(w)
  \/ Flush(w) \/ FlushStoreFails(w) \/ FlushGroup(w)
  \/ Post(w) \/ PostFails(w)

\* Keys and annotations of objects are what the constants allow: compositeKey
\* of an event names a group or none and a UID some object has.
LEMMA KeyTypes ==
  ASSUME NEW o \in Objects
  PROVE  /\ Annotation(o) \in Annotations
         /\ RunId[o] \in Uids
         /\ Key(o) \in Keys
         /\ Key(o)[1] = Annotation(o) /\ Key(o)[2] = RunId[o]
BY AccumulatorAssumption DEF Objects, Annotation, Annotations, Uids, Key, Keys

\* The idle record of a goroutine has the type of the others.
LEMMA IdleType == Objects # {} => Idle \in Work /\ Idle.at = "idle" /\ Idle.held = {}
BY DEF Idle, Work

\* The initial state satisfies the inductive invariant.
LEMMA InitIInv == Objects # {} /\ Init => IInv
<1> SUFFICES ASSUME Objects # {}, Init PROVE IInv
  OBVIOUS
<1>1. TypeOK
  BY IdleType DEF Init, TypeOK
<1>2. EntriesPlaced
  BY DEF Init, EntriesPlaced
<1>3. HeldToPost
  BY IdleType DEF Init, HeldToPost
<1>4. TaskAccounted
  BY DEF Init, TaskAccounted
<1>5. GroupsAttended
  BY DEF Init, GroupsAttended, IsGroupComplete
<1> QED
  BY <1>1, <1>2, <1>3, <1>4, <1>5 DEF IInv

\* Every step of the handler and its buffers keeps the types.
LEMMA NextType == TypeOK /\ [Next]_vars => TypeOK'
<1> SUFFICES ASSUME TypeOK, [Next]_vars PROVE TypeOK'
  OBVIOUS
<1> USE DEF TypeOK
<1>1. CASE UNCHANGED vars
  BY <1>1 DEF vars, bufferVars, history
<1>2. ASSUME NEW w \in Workers, Step(w) PROVE TypeOK'
  <2>0. work[w] \in Work /\ work[w].obj \in Objects /\ Objects # {}
    BY DEF Work
  <2> DEFINE o == work[w].obj
  <2>k. /\ Annotation(o) \in Annotations /\ RunId[o] \in Uids /\ Key(o) \in Keys
    BY <2>0, KeyTypes
  <2>i. Idle \in Work
    BY <2>0, IdleType
  <2>a. ASSUME AfterAdd(w) PROVE work' \in [Workers -> Work]
    <3>1. \A l \in {"flush", "check"} : [work[w] EXCEPT !.at = l] \in Work
      BY <2>0 DEF Work
    <3>2. \E new \in Work : work' = [work EXCEPT ![w] = new]
      BY <2>a, <2>i, <3>1 DEF AfterAdd, Goto, Return
    <3> QED
      BY <3>2
  <2>1. CASE \E q \in Objects, final \in BOOLEAN : Handle(w, q, final)
    BY <2>1 DEF Handle, Work, bufferVars, history
  <2>2. CASE AddLRU(w)
    <3>1. cached' \subseteq Keys
      BY <2>2, <2>k DEF AddLRU
    <3>2. entry' \in [Keys -> SUBSET Tasks]
      BY <2>2, <2>k DEF AddLRU, Entry
    <3>3. member' \in [Groups -> [Uids -> {"absent", "open", "ended"}]]
      BY <2>2, <2>k DEF AddLRU, Mark, Annotations
    <3>4. added' \in [Tasks -> Nat]
      BY <2>2 DEF AddLRU, CountAdd
    <3> QED
      BY <2>2, <2>a, <3>1, <3>2, <3>3, <3>4 DEF AddLRU
  <2>3. CASE AddStore(w)
    <3>1. cached' \subseteq Keys
      BY <2>3, <2>k DEF AddStore
    <3>2. entry' \in [Keys -> SUBSET Tasks]
      BY <2>3, <2>k DEF AddStore, Entry
    <3>4. added' \in [Tasks -> Nat]
      BY <2>3 DEF AddStore, CountAdd
    <3>5. excused' \subseteq Tasks
      BY <2>3 DEF AddStore
    <3> QED
      BY <2>3, <2>a, <3>1, <3>2, <3>4, <3>5 DEF AddStore
  <2>4. CASE AddStoreFails(w)
    <3>4. added' \in [Tasks -> Nat]
      BY <2>4 DEF AddStoreFails, CountAdd
    <3> QED
      BY <2>4, <2>a, <3>4 DEF AddStoreFails, Mishap, bufferVars
  <2>5. CASE Check(w)
    <3>1. [work[w] EXCEPT !.at = "flush"] \in Work
      BY <2>0 DEF Work
    <3>2. work' \in [Workers -> Work]
      BY <2>5, <3>1, <2>i DEF Check, Goto, Return
    <3> QED
      BY <2>5, <3>2 DEF Check, bufferVars, history
  <2>t. ASSUME NEW ts \in SUBSET Tasks, Take(w, ts) PROVE work' \in [Workers -> Work]
    BY <2>t, <2>0, <2>i DEF Take, Work
  <2>d. ASSUME NEW ks, DropEntries(ks) PROVE cached' \subseteq Keys /\ entry' \in [Keys -> SUBSET Tasks]
    BY <2>d DEF DropEntries
  <2>e. Due(o) \subseteq Tasks
    BY DEF Due
  <2>6. CASE Flush(w)
    <3>1. Take(w, entry[Key(o)]) /\ entry[Key(o)] \in SUBSET Tasks
      BY <2>6, <2>k DEF Flush
    <3> QED
      BY <2>6, <3>1, <2>t, <2>d, <2>e DEF Flush
  <2>7. CASE FlushStoreFails(w)
    <3>1. entry[Key(o)] \in SUBSET Tasks
      BY <2>k
    <3>2. cached' \subseteq Keys /\ entry' \in [Keys -> SUBSET Tasks]
      BY <2>7, <2>d DEF FlushStoreFails
    <3> QED
      BY <2>7, <3>1, <3>2, <2>e, <2>i DEF FlushStoreFails, Mishap, Return
  <2>8. CASE FlushGroup(w)
    <3> DEFINE ts == UNION {entry[k] : k \in MemberKeys(Annotation(o))}
    <3>1. Annotation(o) \in Groups
      BY <2>8, <2>k DEF FlushGroup, Annotations
    <3>2. ts \in SUBSET Tasks
      BY <3>1 DEF MemberKeys, Keys, Annotations
    <3>3. work' \in [Workers -> Work]
      <4>1. Take(w, ts)
        BY <2>8 DEF FlushGroup
      <4> HIDE DEF ts
      <4> QED
        BY <4>1, <3>2, <2>t
    <3>4. member' \in [Groups -> [Uids -> {"absent", "open", "ended"}]]
      BY <2>8, <3>1 DEF FlushGroup
    <3> QED
      BY <2>8, <3>3, <3>4, <2>d, <2>e DEF FlushGroup
  <2>9. CASE Post(w)
    BY <2>9, <2>i DEF Post, Return, bufferVars
  <2>10. CASE PostFails(w)
    BY <2>10, <2>0, <2>i DEF PostFails, Return, Mishap, bufferVars, Work
  <2> QED
    BY <1>2, <2>1, <2>2, <2>3, <2>4, <2>5, <2>6, <2>7, <2>8, <2>9, <2>10 DEF Step
<1>3. ASSUME NEW k \in Keys, Evict(k) PROVE TypeOK'
  BY <1>3 DEF Evict, Mishap, DropEntries
<1>4. CASE Close
  BY <1>4 DEF Close, Mishap, DropEntries
<1>5. Next => (\E w \in Workers : Step(w)) \/ (\E k \in Keys : Evict(k)) \/ Close
  BY DEF Next, Step
<1> QED
  BY <1>1, <1>2, <1>3, <1>4, <1>5

\* What the steps do with a goroutine's hand, in the words of HeldToPost and
\* of the properties: AfterAdd and Take.
LEMMA AfterAddHand ==
  ASSUME TypeOK, HeldToPost, NEW w \in Workers, work[w].at = "add", AfterAdd(w)
  PROVE  /\ work' \in [Workers -> Work]
         /\ \A v \in Workers : work'[v].held = work[v].held
         /\ \A v \in Workers : v # w => work'[v] = work[v]
         /\ work'[w].at # "post"
         /\ work[w].obj \in Pipelines /\ work[w].final /\ Annotation(work[w].obj) # Ungrouped =>
              work'[w].at = "check" /\ work'[w].obj = work[w].obj
<1>1. work \in [Workers -> Work] /\ work[w] \in Work /\ Objects # {}
  BY DEF TypeOK, Work
<1>2. work[w].held = {}
  BY DEF HeldToPost
<1>3. Idle \in Work /\ Idle.at = "idle" /\ Idle.held = {}
  BY <1>1, IdleType
<1>4. CASE Return(w)
  <2>1. ~(work[w].obj \in Pipelines /\ work[w].final)
    <3>1. SUFFICES ASSUME NEW l \in {"flush", "check"}, Goto(w, l) PROVE FALSE
      BY <1>4 DEF AfterAdd
    <3>2. work'[w].at = l /\ work'[w].at = "idle"
      BY <1>1, <1>3, <1>4, <3>1 DEF Goto, Return, Work
    <3> QED
      BY <3>2, <3>1
  <2> QED
    BY <1>1, <1>2, <1>3, <1>4, <2>1 DEF Return
<1>5. CASE ~Return(w)
  <2>1. PICK l \in {"flush", "check"} :
          /\ Goto(w, l)
          /\ Annotation(work[w].obj) # Ungrouped => l = "check"
    BY <1>5 DEF AfterAdd
  <2>2. [work[w] EXCEPT !.at = l] \in Work
    BY <1>1, <2>1 DEF Work
  <2> QED
    BY <1>1, <1>2, <2>1, <2>2 DEF Goto, Work
<1> QED
  BY <1>4, <1>5

\* Taking a summary puts exactly its TaskRuns in the goroutine's hand.
LEMMA TakeHand ==
  ASSUME TypeOK, HeldToPost, NEW w \in Workers, work[w].at = "flush",
         NEW ts \in SUBSET Tasks, Take(w, ts)
  PROVE  /\ work' \in [Workers -> Work]
         /\ work'[w].held = ts
         /\ \A v \in Workers : v # w => work'[v] = work[v]
         /\ work[w].held = {}
         /\ work'[w].at # "post" => work'[w].held = {}
<1>1. work \in [Workers -> Work] /\ work[w] \in Work /\ Objects # {}
  BY DEF TypeOK, Work
<1>2. work[w].held = {}
  BY DEF HeldToPost
<1>3. Idle \in Work /\ Idle.at = "idle" /\ Idle.held = {}
  BY <1>1, IdleType
<1>4. CASE ts = {}
  BY <1>1, <1>2, <1>3, <1>4 DEF Take
<1>5. CASE ts # {}
  <2>1. [work[w] EXCEPT !.at = "post", !.held = ts] \in Work
    BY <1>1 DEF Work
  <2>2. work' = [work EXCEPT ![w] = [work[w] EXCEPT !.at = "post", !.held = ts]]
    BY <1>5 DEF Take
  <2>3. work'[w].held = ts /\ work'[w].at = "post"
    BY <1>1, <2>2 DEF Work
  <2> QED
    BY <1>1, <1>2, <2>1, <2>2, <2>3
<1> QED
  BY <1>4, <1>5

\* A goroutine that returns leaves the others alone and holds nothing.
LEMMA ReturnHand ==
  ASSUME TypeOK, NEW w \in Workers, Return(w)
  PROVE  /\ work'[w].held = {} /\ work'[w].at = "idle"
         /\ \A v \in Workers : v # w => work'[v] = work[v]
<1>1. work \in [Workers -> Work] /\ work[w] \in Work /\ Objects # {}
  BY DEF TypeOK, Work
<1> QED
  BY <1>1, IdleType DEF Return

\* Every step leaves TaskRuns only in hands that are about to post them.
LEMMA NextHeld == TypeOK /\ HeldToPost /\ [Next]_vars => HeldToPost'
<1> SUFFICES ASSUME TypeOK, HeldToPost, [Next]_vars PROVE HeldToPost'
  OBVIOUS
<1>1. CASE UNCHANGED vars
  BY <1>1 DEF vars, HeldToPost
<1>2. ASSUME NEW w \in Workers, Step(w) PROVE HeldToPost'
  <2>0. work[w] \in Work /\ work \in [Workers -> Work]
    BY DEF TypeOK
  <2>1. CASE \E q \in Objects, final \in BOOLEAN : Handle(w, q, final)
    BY <2>1, <2>0 DEF Handle, HeldToPost
  <2>2. CASE AddLRU(w) \/ AddStore(w) \/ AddStoreFails(w)
    <3>1. work[w].at = "add" /\ AfterAdd(w)
      BY <2>2 DEF AddLRU, AddStore, AddStoreFails
    <3> QED
      BY <3>1, AfterAddHand DEF HeldToPost
  <2>3. CASE Check(w)
    <3>1. work[w].held = {}
      BY <2>3 DEF Check, HeldToPost
    <3>2. CASE Return(w)
      BY <3>2, ReturnHand DEF HeldToPost
    <3>3. CASE Goto(w, "flush")
      BY <3>3, <3>1, <2>0 DEF Goto, HeldToPost, Work
    <3> QED
      BY <2>3, <3>2, <3>3 DEF Check
  <2>4. CASE Flush(w)
    <3>1. work[w].at = "flush" /\ Take(w, entry[Key(work[w].obj)])
      BY <2>4 DEF Flush
    <3>2. entry[Key(work[w].obj)] \in SUBSET Tasks
      BY <2>0, KeyTypes DEF TypeOK, Work
    <3> QED
      BY <3>1, <3>2, TakeHand DEF HeldToPost
  <2>5. CASE FlushGroup(w)
    <3> DEFINE ts == UNION {entry[k] : k \in MemberKeys(Annotation(work[w].obj))}
    <3>1. work[w].at = "flush" /\ Take(w, ts)
      BY <2>5 DEF FlushGroup
    <3>2. ts \in SUBSET Tasks
      <4>1. Annotation(work[w].obj) \in Annotations
        BY <2>0, KeyTypes DEF Work
      <4> QED
        BY <4>1 DEF TypeOK, MemberKeys, Keys
    <3> HIDE DEF ts
    <3> QED
      BY <3>1, <3>2, TakeHand DEF HeldToPost
  <2>6. CASE FlushStoreFails(w) \/ Post(w) \/ PostFails(w)
    <3>1. Return(w)
      BY <2>6 DEF FlushStoreFails, Post, PostFails
    <3> QED
      BY <3>1, ReturnHand DEF HeldToPost
  <2> QED
    BY <1>2, <2>1, <2>2, <2>3, <2>4, <2>5, <2>6 DEF Step
<1>3. ASSUME NEW k \in Keys, Evict(k) PROVE HeldToPost'
  BY <1>3 DEF Evict, HeldToPost
<1>4. CASE Close
  BY <1>4 DEF Close, HeldToPost
<1>5. Next => (\E w \in Workers : Step(w)) \/ (\E k \in Keys : Evict(k)) \/ Close
  BY DEF Next, Step
<1> QED
  BY <1>1, <1>2, <1>3, <1>4, <1>5

\* Adding an event puts a TaskRun into the entry of its key and nowhere else.
LEMMA EntryAdds ==
  ASSUME TypeOK, NEW o \in Objects, Entry(o)
  PROVE  \A k \in Keys : entry'[k] = IF k = Key(o) THEN entry[k] \cup ({o} \cap Tasks)
                                     ELSE entry[k]
BY KeyTypes DEF Entry, TypeOK

\* Members are only ever entered by Mark, and the UID of the event is one.
LEMMA MarkEnters ==
  ASSUME TypeOK, NEW o \in Objects, NEW final \in BOOLEAN, Mark(o, final)
  PROVE  /\ \A g \in Groups, u \in Uids : member[g][u] # "absent" => member'[g][u] # "absent"
         /\ Annotation(o) \in Groups => member'[Annotation(o)][RunId[o]] # "absent"
         /\ \A g \in Groups : g # Annotation(o) => member'[g] = member[g]
         /\ Annotation(o) \in Groups /\ ~(o \in Pipelines /\ final) =>
              \A u \in Uids : member[Annotation(o)][u] = "open" => member'[Annotation(o)][u] = "open"
         /\ Annotation(o) \in Groups /\ ~(o \in Pipelines /\ final) /\ member[Annotation(o)][RunId[o]] = "absent"
              => member'[Annotation(o)][RunId[o]] = "open"
         /\ Annotation(o) \in Groups /\ ~(o \in Pipelines /\ final) /\ member[Annotation(o)][RunId[o]] # "absent"
              => member'[Annotation(o)] = member[Annotation(o)]
<1> DEFINE a == Annotation(o)
<1>0. a \in Annotations /\ RunId[o] \in Uids
  BY KeyTypes
<1>1. CASE a = Ungrouped
  BY <1>1, AccumulatorAssumption DEF Mark
<1>2. CASE a # Ungrouped
  <2>1. a \in Groups
    BY <1>0, <1>2 DEF Annotations
  <2>2. member \in [Groups -> [Uids -> {"absent", "open", "ended"}]]
    BY DEF TypeOK
  <2> DEFINE x == IF o \in Pipelines /\ final THEN "ended"
                  ELSE IF member[a][RunId[o]] = "absent" THEN "open" ELSE member[a][RunId[o]]
  <2>3. member' = [member EXCEPT ![a] = [member[a] EXCEPT ![RunId[o]] = x]]
    BY <1>2 DEF Mark
  <2>4. x # "absent"
    OBVIOUS
  <2> HIDE DEF a
  <2>5. /\ \A g \in Groups : g # a => member'[g] = member[g]
        /\ member'[a] = [member[a] EXCEPT ![RunId[o]] = x]
    BY <2>1, <2>2, <2>3
  <2>6. /\ member'[a][RunId[o]] = x
        /\ \A u \in Uids : u # RunId[o] => member'[a][u] = member[a][u]
    BY <2>1, <2>2, <2>5, <1>0
  <2>7. x = member[a][RunId[o]] => member'[a] = member[a]
    BY <2>1, <2>2, <2>5, <1>0
  <2>8. \A g \in Groups, u \in Uids : member[g][u] # "absent" => member'[g][u] # "absent"
    BY <2>4, <2>5, <2>6
  <2> QED
    BY <2>4, <2>5, <2>6, <2>7, <2>8 DEF a
<1> QED
  BY <1>1, <1>2

\* Every step keeps TaskRuns in the entries they belong to.
LEMMA NextPlaced == TypeOK /\ EntriesPlaced /\ [Next]_vars => EntriesPlaced'
<1> SUFFICES ASSUME TypeOK, EntriesPlaced, [Next]_vars PROVE EntriesPlaced'
  OBVIOUS
<1>0. /\ entry \in [Keys -> SUBSET Tasks] /\ cached \subseteq Keys
  BY DEF TypeOK
<1>1. CASE UNCHANGED <<cached, entry, member>>
  BY <1>1 DEF EntriesPlaced, Key, Annotation
<1>d. ASSUME NEW ks, DropEntries(ks), UNCHANGED member PROVE EntriesPlaced'
  BY <1>d, <1>0 DEF DropEntries, EntriesPlaced, Key, Annotation
<1>2. ASSUME NEW w \in Workers, Step(w) PROVE EntriesPlaced'
  <2> DEFINE o == work[w].obj
  <2>0. o \in Objects /\ work[w].final \in BOOLEAN
    BY DEF TypeOK, Work
  <2>k. /\ Key(o) \in Keys /\ Key(o)[1] = Annotation(o) /\ Key(o)[2] = RunId[o]
        /\ Annotation(o) \in Annotations /\ RunId[o] \in Uids
    BY <2>0, KeyTypes
  <2>1. CASE AddLRU(w)
    <3>1. /\ cached' = cached \cup {Key(o)} /\ Entry(o) /\ Mark(o, work[w].final)
      BY <2>1 DEF AddLRU
    <3>2. \A k \in Keys : entry'[k] = IF k = Key(o) THEN entry[k] \cup ({o} \cap Tasks) ELSE entry[k]
      BY <3>1, <2>0, EntryAdds
    <3>3. /\ \A g \in Groups, u \in Uids : member[g][u] # "absent" => member'[g][u] # "absent"
          /\ Annotation(o) \in Groups => member'[Annotation(o)][RunId[o]] # "absent"
      BY <3>1, <2>0, MarkEnters
    <3>4. ASSUME NEW k \in Keys, NEW t \in entry'[k]
          PROVE  /\ k = Key(t) /\ k \in cached'
                 /\ k[1] \in Groups => member'[k[1]][k[2]] # "absent"
      <4>1. CASE t \in entry[k]
        <5>1. k = Key(t) /\ k \in cached /\ (k[1] \in Groups => member[k[1]][k[2]] # "absent")
          BY <4>1 DEF EntriesPlaced
        <5>2. k[2] \in Uids
          BY DEF Keys
        <5> QED
          BY <5>1, <5>2, <3>1, <3>3
      <4>2. CASE t \notin entry[k]
        <5>1. k = Key(o) /\ t = o
          BY <4>2, <3>2
        <5> QED
          BY <5>1, <3>1, <3>3, <2>k
      <4> QED
        BY <4>1, <4>2
    <3> QED
      BY <3>4 DEF EntriesPlaced, Key, Annotation
  <2>2. CASE AddStore(w)
    <3>1. CASE o \in Tasks /\ Annotation(o) = Ungrouped
      <4>1. cached' = cached \cup {Key(o)} /\ Entry(o) /\ member' = member
        BY <2>2, <3>1 DEF AddStore
      <4>2. \A k \in Keys : entry'[k] = IF k = Key(o) THEN entry[k] \cup ({o} \cap Tasks) ELSE entry[k]
        BY <4>1, <2>0, EntryAdds
      <4>3. ASSUME NEW k \in Keys, NEW t \in entry'[k]
            PROVE  /\ k = Key(t) /\ k \in cached'
                   /\ k[1] \in Groups => member'[k[1]][k[2]] # "absent"
        <5>1. CASE t \in entry[k]
          BY <5>1, <4>1 DEF EntriesPlaced
        <5>2. CASE t \notin entry[k]
          <6>1. k = Key(o) /\ t = o
            BY <5>2, <4>2
          <6> QED
            BY <6>1, <4>1, <3>1, <2>k, AccumulatorAssumption
        <5> QED
          BY <5>1, <5>2
      <4> QED
        BY <4>3 DEF EntriesPlaced, Key, Annotation
    <3>2. CASE ~(o \in Tasks /\ Annotation(o) = Ungrouped)
      BY <2>2, <3>2, <1>1 DEF AddStore
    <3> QED
      BY <3>1, <3>2
  <2>3. CASE Flush(w)
    BY <2>3, <1>d DEF Flush
  <2>4. CASE FlushStoreFails(w)
    BY <2>4, <1>d, <1>1 DEF FlushStoreFails
  <2>5. CASE FlushGroup(w)
    <3> DEFINE g == Annotation(o)
    <3>1. g \in Groups
      BY <2>5, <2>k DEF FlushGroup, Annotations
    <3>2. DropEntries(MemberKeys(g)) /\ member' = [member EXCEPT ![g] = [u \in Uids |-> "absent"]]
      BY <2>5 DEF FlushGroup
    <3>3. ASSUME NEW k \in Keys, NEW t \in entry'[k]
          PROVE  /\ k = Key(t) /\ k \in cached'
                 /\ k[1] \in Groups => member'[k[1]][k[2]] # "absent"
      <4>1. k \notin MemberKeys(g) /\ t \in entry[k]
        BY <3>2 DEF DropEntries
      <4>2. k = Key(t) /\ k \in cached /\ (k[1] \in Groups => member[k[1]][k[2]] # "absent")
        BY <4>1 DEF EntriesPlaced
      <4>3. k[1] # g
        BY <4>1, <4>2, <3>1 DEF MemberKeys, Keys
      <4> QED
        BY <4>1, <4>2, <4>3, <3>1, <3>2 DEF DropEntries, TypeOK
    <3> QED
      BY <3>3 DEF EntriesPlaced, Key, Annotation
  <2>6. CASE UNCHANGED <<cached, entry, member>>
    BY <2>6, <1>1
  <2> QED
    BY <1>2, <2>1, <2>2, <2>3, <2>4, <2>5, <2>6
    DEF Step, Handle, AddStoreFails, Check, Post, PostFails, bufferVars
<1>3. ASSUME NEW k \in Keys, Evict(k) PROVE EntriesPlaced'
  BY <1>3, <1>d DEF Evict
<1>4. CASE Close
  <2>1. \A k \in Keys : entry'[k] = {}
    BY <1>4, <1>0 DEF Close, DropEntries, EntriesPlaced
  <2> QED
    BY <2>1 DEF EntriesPlaced, Key, Annotation
<1>5. Next => (\E w \in Workers : Step(w)) \/ (\E k \in Keys : Evict(k)) \/ Close
  BY DEF Next, Step
<1> QED
  BY <1>1, <1>2, <1>3, <1>4, <1>5 DEF vars, bufferVars

\* A TaskRun's whereabouts, once an event of it was accepted.
Located(t) == Buffered(t) \/ InHand(t) \/ shown[t] > 0 \/ t \in excused

\* Entries that are dropped leave the TaskRuns of the others buffered.
LEMMA DropKeeps ==
  ASSUME TypeOK, EntriesPlaced, NEW ks, DropEntries(ks), NEW t \in Tasks, Buffered(t)
  PROVE  Buffered(t)' \/ \E k \in ks \cap Keys : t \in entry[k]
<1>1. PICK k \in cached : t \in entry[k]
  BY DEF Buffered
<1>2. k \in Keys
  BY DEF TypeOK
<1> QED
  BY <1>1, <1>2 DEF DropEntries, Buffered

\* Every step keeps track of every TaskRun: whatever leaves the buffer goes to
\* a goroutine's hand or met a mishap, whatever leaves a hand was posted or met one.
LEMMA NextLocated ==
  ASSUME TypeOK, EntriesPlaced, HeldToPost, [Next]_vars, NEW t \in Tasks
  PROVE  /\ Located(t) => Located(t)'
         /\ added'[t] # added[t] => Located(t)'
<1>0. /\ entry \in [Keys -> SUBSET Tasks] /\ cached \subseteq Keys
      /\ added \in [Tasks -> Nat] /\ shown \in [Tasks -> Nat]
      /\ work \in [Workers -> Work]
  BY DEF TypeOK
<1>1. CASE UNCHANGED vars
  BY <1>1 DEF vars, bufferVars, history, Located, Buffered, InHand
<1>2. ASSUME NEW w \in Workers, Step(w)
      PROVE  (Located(t) => Located(t)') /\ (added'[t] # added[t] => Located(t)')
  <2> DEFINE o == work[w].obj
  <2>0. o \in Objects /\ work[w].final \in BOOLEAN /\ work[w] \in Work
    BY <1>0 DEF Work
  <2>k. /\ Key(o) \in Keys /\ Annotation(o) \in Annotations
    BY <2>0, KeyTypes
  <2>c. ASSUME CountAdd(o) PROVE added'[t] # added[t] => t = o
    BY <2>c, <1>0 DEF CountAdd
  <2>h. ASSUME work[w].at = "add", AfterAdd(w) PROVE InHand(t) => InHand(t)'
    BY <2>h, AfterAddHand DEF InHand
  <2>1. CASE \E q \in Objects, final \in BOOLEAN : Handle(w, q, final)
    <3>1. work[w].held = {}
      BY <2>1 DEF Handle, HeldToPost
    <3>2. PICK q \in Objects, final \in BOOLEAN :
            work' = [work EXCEPT ![w] = [at |-> "add", obj |-> q, final |-> final, held |-> {}]]
      BY <2>1 DEF Handle
    <3>3. \A v \in Workers : work'[v].held = work[v].held
      BY <3>1, <3>2, <1>0
    <3>4. UNCHANGED <<cached, entry, added, shown, excused>>
      BY <2>1 DEF Handle, bufferVars, history
    <3> QED
      BY <3>3, <3>4 DEF Located, Buffered, InHand
  <2>2. CASE AddLRU(w)
    <3>1. /\ cached' = cached \cup {Key(o)} /\ Entry(o) /\ CountAdd(o)
          /\ AfterAdd(w) /\ work[w].at = "add" /\ UNCHANGED <<shown, excused>>
      BY <2>2 DEF AddLRU
    <3>2. \A k \in Keys : entry'[k] = IF k = Key(o) THEN entry[k] \cup ({o} \cap Tasks) ELSE entry[k]
      BY <3>1, <2>0, EntryAdds
    <3>3. Buffered(t) => Buffered(t)'
      BY <3>1, <3>2, <1>0 DEF Buffered
    <3>4. t = o => Buffered(t)'
      BY <3>1, <3>2, <2>k DEF Buffered
    <3> QED
      BY <3>1, <3>3, <3>4, <2>c, <2>h DEF Located
  <2>3. CASE AddStore(w)
    <3>1. /\ CountAdd(o) /\ AfterAdd(w) /\ work[w].at = "add" /\ UNCHANGED shown
          /\ excused \subseteq excused'
      BY <2>3 DEF AddStore
    <3>2. CASE o \in Tasks /\ Annotation(o) = Ungrouped
      <4>1. cached' = cached \cup {Key(o)} /\ Entry(o)
        BY <2>3, <3>2 DEF AddStore
      <4>2. \A k \in Keys : entry'[k] = IF k = Key(o) THEN entry[k] \cup ({o} \cap Tasks) ELSE entry[k]
        BY <4>1, <2>0, EntryAdds
      <4>3. Buffered(t) => Buffered(t)'
        BY <4>1, <4>2, <1>0 DEF Buffered
      <4>4. t = o => Buffered(t)'
        BY <4>1, <4>2, <2>k DEF Buffered
      <4> QED
        BY <3>1, <4>3, <4>4, <2>c, <2>h DEF Located
    <3>3. CASE ~(o \in Tasks /\ Annotation(o) = Ungrouped)
      <4>1. UNCHANGED <<cached, entry>>
        BY <2>3, <3>3 DEF AddStore
      <4>2. t = o => t \in excused'
        BY <2>3, <3>3 DEF AddStore
      <4>3. Buffered(t) => Buffered(t)'
        BY <4>1 DEF Buffered
      <4> QED
        BY <3>1, <4>2, <4>3, <2>c, <2>h DEF Located
    <3> QED
      BY <3>2, <3>3
  <2>4. CASE AddStoreFails(w)
    <3>1. /\ CountAdd(o) /\ AfterAdd(w) /\ work[w].at = "add" /\ UNCHANGED shown
          /\ excused' = excused \cup ({o} \cap Tasks) /\ UNCHANGED <<cached, entry>>
      BY <2>4 DEF AddStoreFails, Mishap, bufferVars
    <3>2. Buffered(t) => Buffered(t)'
      BY <3>1 DEF Buffered
    <3> QED
      BY <3>1, <3>2, <2>c, <2>h DEF Located
  <2>5. CASE Check(w)
    <3>1. work[w].held = {} /\ UNCHANGED <<cached, entry, added, shown, excused>>
      BY <2>5 DEF Check, HeldToPost, bufferVars, history
    <3>2. \A v \in Workers : work'[v].held = work[v].held
      <4>1. CASE Return(w)
        BY <4>1, <3>1, ReturnHand
      <4>2. CASE Goto(w, "flush")
        BY <4>2, <1>0 DEF Goto, Work
      <4> QED
        BY <2>5, <4>1, <4>2 DEF Check
    <3> QED
      BY <3>1, <3>2 DEF Located, Buffered, InHand
  <2>t. ASSUME NEW ts \in SUBSET Tasks, Take(w, ts), work[w].at = "flush"
        PROVE  (InHand(t) => InHand(t)') /\ (t \in ts => InHand(t)')
    BY <2>t, TakeHand DEF InHand
  <2>6. CASE Flush(w)
    <3>1. /\ Take(w, entry[Key(o)]) /\ work[w].at = "flush" /\ DropEntries({Key(o)})
          /\ UNCHANGED <<added, shown, excused>>
      BY <2>6 DEF Flush
    <3>2. entry[Key(o)] \in SUBSET Tasks
      BY <1>0, <2>k
    <3>3. Buffered(t) => Buffered(t)' \/ t \in entry[Key(o)]
      BY <3>1, DropKeeps
    <3> QED
      BY <3>1, <3>2, <3>3, <2>t DEF Located
  <2>7. CASE FlushStoreFails(w)
    <3>1. /\ Return(w) /\ excused' = excused \cup entry[Key(o)] /\ UNCHANGED <<added, shown>>
          /\ DropEntries({Key(o)}) \/ UNCHANGED <<cached, entry>>
          /\ work[w].at = "flush"
      BY <2>7 DEF FlushStoreFails, Mishap
    <3>2. InHand(t) => InHand(t)'
      BY <3>1, ReturnHand DEF InHand, HeldToPost
    <3>3. Buffered(t) => Buffered(t)' \/ t \in excused'
      <4>1. CASE DropEntries({Key(o)})
        BY <4>1, <3>1, DropKeeps
      <4>2. CASE UNCHANGED <<cached, entry>>
        BY <4>2 DEF Buffered
      <4> QED
        BY <3>1, <4>1, <4>2
    <3> QED
      BY <3>1, <3>2, <3>3 DEF Located
  <2>8. CASE FlushGroup(w)
    <3> DEFINE g == Annotation(o)
               ts == UNION {entry[k] : k \in MemberKeys(g)}
    <3>1. /\ Take(w, ts) /\ work[w].at = "flush" /\ DropEntries(MemberKeys(g))
          /\ UNCHANGED <<added, shown, excused>>
      BY <2>8 DEF FlushGroup
    <3>2. MemberKeys(g) \subseteq Keys
      BY <2>k DEF MemberKeys, Keys
    <3>3. ts \in SUBSET Tasks
      BY <3>2, <1>0
    <3>4. Buffered(t) => Buffered(t)' \/ t \in ts
      BY <3>1, DropKeeps
    <3> HIDE DEF ts
    <3> QED
      BY <3>1, <3>3, <3>4, <2>t DEF Located
  <2>9. CASE Post(w)
    <3>1. /\ Return(w) /\ UNCHANGED <<cached, entry, added, excused>>
          /\ shown' = [s \in Tasks |-> IF s \in work[w].held THEN shown[s] + 1 ELSE shown[s]]
      BY <2>9 DEF Post, bufferVars
    <3>2. shown'[t] >= shown[t] /\ (t \in work[w].held => shown'[t] > 0)
      BY <3>1, <1>0
    <3>3. InHand(t) => InHand(t)' \/ t \in work[w].held
      BY <3>1, ReturnHand DEF InHand
    <3>4. Buffered(t) => Buffered(t)'
      BY <3>1 DEF Buffered
    <3>5. shown[t] > 0 => shown'[t] > 0
      BY <3>1, <1>0
    <3> QED
      BY <3>1, <3>2, <3>3, <3>4, <3>5 DEF Located
  <2>10. CASE PostFails(w)
    <3>1. /\ Return(w) /\ UNCHANGED <<cached, entry, added, shown>>
          /\ excused' = excused \cup work[w].held
      BY <2>10 DEF PostFails, Mishap, bufferVars
    <3>2. InHand(t) => InHand(t)' \/ t \in work[w].held
      BY <3>1, ReturnHand DEF InHand
    <3> QED
      BY <3>1, <3>2 DEF Located, Buffered
  <2> QED
    BY <1>2, <2>1, <2>2, <2>3, <2>4, <2>5, <2>6, <2>7, <2>8, <2>9, <2>10 DEF Step
<1>3. ASSUME NEW k \in Keys, Evict(k)
      PROVE  (Located(t) => Located(t)') /\ (added'[t] # added[t] => Located(t)')
  <2>1. /\ DropEntries({k}) /\ excused' = excused \cup entry[k] /\ UNCHANGED <<work, added, shown>>
    BY <1>3 DEF Evict, Mishap
  <2>2. Buffered(t) => Buffered(t)' \/ t \in excused'
    BY <2>1, DropKeeps
  <2> QED
    BY <2>1, <2>2 DEF Located, InHand
<1>4. CASE Close
  <2>1. /\ DropEntries(cached) /\ UNCHANGED <<work, added, shown>>
        /\ excused' = excused \cup UNION {entry[k] : k \in cached}
    BY <1>4 DEF Close, Mishap
  <2>2. Buffered(t) => t \in excused'
    BY <2>1 DEF Buffered
  <2> QED
    BY <2>1, <2>2 DEF Located, InHand
<1>5. Next => (\E w \in Workers : Step(w)) \/ (\E k \in Keys : Evict(k)) \/ Close
  BY DEF Next, Step
<1> QED
  BY <1>1, <1>2, <1>3, <1>4, <1>5

\* A complete group is attended to: the goroutine that entered the last end
\* goes on to check and to flush, and whoever flushes forgets the group.
LEMMA NextAttended == TypeOK /\ HeldToPost /\ GroupsAttended /\ [Next]_vars => GroupsAttended'
<1> SUFFICES ASSUME TypeOK, HeldToPost, GroupsAttended, [Next]_vars PROVE GroupsAttended'
  OBVIOUS
<1> DEFINE Attends(v, g) == work[v].at \in {"check", "flush"} /\ Annotation(work[v].obj) = g
           NoGroups == backend = "store" => \A g \in Groups, u \in Uids : member[g][u] = "absent"
<1>0. /\ work \in [Workers -> Work]
      /\ member \in [Groups -> [Uids -> {"absent", "open", "ended"}]]
      /\ backend \in {"lru", "store"} /\ backend' = backend
  BY DEF TypeOK, Next, vars, Handle, AddLRU, AddStore, AddStoreFails, Check, Flush,
         FlushStoreFails, FlushGroup, Post, PostFails, Evict, Close
<1>g. /\ \A g \in Groups : IsGroupComplete(g) => \E v \in Workers : Attends(v, g)
      /\ NoGroups
  BY DEF GroupsAttended
<1>s. ASSUME \A g \in Groups : IsGroupComplete(g)' => \E v \in Workers : Attends(v, g)',
             NoGroups'
      PROVE  GroupsAttended'
  BY <1>s DEF GroupsAttended, Annotation
<1>n. ASSUME backend = "store" PROVE \A g \in Groups : ~IsGroupComplete(g)
  BY <1>n, <1>g DEF IsGroupComplete
<1>a. \A v \in Workers : \A g : work'[v] = work[v] /\ Attends(v, g) => Attends(v, g)'
  BY DEF Annotation
\* Steps that change neither the groups nor a goroutine that attends to one.
<1>u. ASSUME UNCHANGED member,
             \A v \in Workers, g \in Groups : IsGroupComplete(g) /\ Attends(v, g) => Attends(v, g)'
      PROVE  GroupsAttended'
  <2>1. \A g \in Groups : IsGroupComplete(g)' <=> IsGroupComplete(g)
    BY <1>u DEF IsGroupComplete
  <2> HIDE DEF Attends
  <2>2. \A g \in Groups : IsGroupComplete(g)' => \E v \in Workers : Attends(v, g)'
    BY <1>u, <1>g, <2>1
  <2>3. NoGroups'
    BY <1>u, <1>g, <1>0
  <2> QED
    BY <2>2, <2>3, <1>s
<1>1. CASE UNCHANGED vars
  <2>1. UNCHANGED <<member, work>>
    BY <1>1 DEF vars, bufferVars
  <2> QED
    BY <2>1, <1>u, <1>a
<1>2. ASSUME NEW w \in Workers, Step(w) PROVE GroupsAttended'
  <2> DEFINE o == work[w].obj
  <2>0. o \in Objects /\ work[w].final \in BOOLEAN /\ work[w] \in Work
    BY <1>0 DEF Work
  <2>k. Annotation(o) \in Annotations /\ RunId[o] \in Uids
    BY <2>0, KeyTypes
  <2>v. ASSUME work[w].at \notin {"check", "flush"}, UNCHANGED member,
               \A v \in Workers : v # w => work'[v] = work[v]
        PROVE  GroupsAttended'
    BY <2>v, <1>u, <1>a
  <2>1. CASE \E q \in Objects, final \in BOOLEAN : Handle(w, q, final)
    BY <2>1, <2>v, <1>0 DEF Handle, bufferVars
  <2>2. CASE AddStore(w) \/ AddStoreFails(w)
    <3>1. work[w].at = "add" /\ AfterAdd(w) /\ UNCHANGED member
      BY <2>2 DEF AddStore, AddStoreFails, bufferVars
    <3> QED
      BY <3>1, <2>v, AfterAddHand
  <2>3. CASE AddLRU(w)
    <3>1. work[w].at = "add" /\ AfterAdd(w) /\ Mark(o, work[w].final) /\ backend = "lru"
      BY <2>3 DEF AddLRU
    <3>2. /\ \A v \in Workers : v # w => work'[v] = work[v]
          /\ o \in Pipelines /\ work[w].final /\ Annotation(o) # Ungrouped =>
               work'[w].at = "check" /\ work'[w].obj = o
      BY <3>1, AfterAddHand
    <3>3. ASSUME NEW g \in Groups, IsGroupComplete(g)' PROVE \E v \in Workers : Attends(v, g)'
      <4>1. CASE o \in Pipelines /\ work[w].final /\ Annotation(o) = g
        <5>1. work'[w].at = "check" /\ work'[w].obj = o
          BY <4>1, <3>2, AccumulatorAssumption
        <5>2. Attends(w, g)'
          BY <5>1, <4>1 DEF Annotation
        <5> QED
          BY <5>2
      <4>2. CASE ~(o \in Pipelines /\ work[w].final /\ Annotation(o) = g)
        <5>1. IsGroupComplete(g)
          <6>1. CASE Annotation(o) # g
            <7>1. member'[g] = member[g]
              BY <6>1, <3>1, <2>0, MarkEnters
            <7> QED
              BY <7>1, <3>3 DEF IsGroupComplete
          <6>2. CASE Annotation(o) = g
            <7>1. ~(o \in Pipelines /\ work[w].final)
              BY <4>2, <6>2
            <7>2. member[g][RunId[o]] # "absent"
              BY <7>1, <6>2, <3>1, <2>0, <2>k, <3>3, MarkEnters DEF IsGroupComplete
            <7>3. member'[g] = member[g]
              BY <7>1, <7>2, <6>2, <3>1, <2>0, MarkEnters
            <7> QED
              BY <7>3, <3>3 DEF IsGroupComplete
          <6> QED
            BY <6>1, <6>2
        <5>2. PICK v \in Workers : Attends(v, g)
          BY <5>1, <1>g
        <5>3. v # w
          BY <5>2, <3>1
        <5>4. Attends(v, g)'
          BY <5>2, <5>3, <3>2, <1>a
        <5> QED
          BY <5>4
      <4> QED
        BY <4>1, <4>2
    <3>4. NoGroups'
      BY <3>1, <1>0
    <3> QED
      BY <3>3, <3>4, <1>s
  <2>4. CASE Check(w)
    <3>1. UNCHANGED member
      BY <2>4 DEF Check, bufferVars
    <3>2. CASE IsGroupComplete(Annotation(o))
      <4>1. work' = [work EXCEPT ![w] = [work[w] EXCEPT !.at = "flush"]]
        BY <2>4, <3>2 DEF Check, Goto
      <4>2. work'[w].at = "flush" /\ work'[w].obj = o
        BY <4>1, <1>0, <2>0 DEF Work
      <4>3. \A v \in Workers : v # w => work'[v] = work[v]
        BY <4>1, <1>0
      <4>4. \A v \in Workers, g \in Groups : Attends(v, g) => Attends(v, g)'
        BY <4>2, <4>3 DEF Annotation
      <4> QED
        BY <4>4, <3>1, <1>u
    <3>3. CASE ~IsGroupComplete(Annotation(o))
      <4>1. \A v \in Workers : v # w => work'[v] = work[v]
        BY <2>4, <3>3, ReturnHand DEF Check
      <4>2. \A v \in Workers, g \in Groups : IsGroupComplete(g) /\ Attends(v, g) => Attends(v, g)'
        BY <4>1, <3>3, <1>a
      <4> QED
        BY <4>2, <3>1, <1>u
    <3> QED
      BY <3>2, <3>3
  <2>5. CASE Flush(w)
    <3>1. /\ UNCHANGED member /\ Annotation(o) = Ungrouped
          /\ Take(w, entry[Key(o)]) /\ work[w].at = "flush"
      BY <2>5 DEF Flush
    <3>2. entry[Key(o)] \in SUBSET Tasks
      BY <2>0, KeyTypes DEF TypeOK
    <3>3. \A v \in Workers : v # w => work'[v] = work[v]
      BY <3>1, <3>2, TakeHand
    <3>4. \A v \in Workers, g \in Groups : Attends(v, g) => v # w
      BY <3>1, AccumulatorAssumption
    <3> QED
      BY <3>1, <3>3, <3>4, <1>u, <1>a
  <2>6. CASE FlushStoreFails(w)
    <3>1. backend = "store" /\ UNCHANGED member
      BY <2>6 DEF FlushStoreFails
    <3> QED
      BY <3>1, <1>n, <1>u
  <2>7. CASE FlushGroup(w)
    <3> DEFINE h == Annotation(o)
               ts == UNION {entry[k] : k \in MemberKeys(h)}
    <3>1. /\ Take(w, ts) /\ work[w].at = "flush" /\ h \in Groups
          /\ member' = [member EXCEPT ![h] = [u \in Uids |-> "absent"]]
      BY <2>7, <2>k DEF FlushGroup, Annotations
    <3>2. ts \in SUBSET Tasks
      BY <2>k DEF MemberKeys, Keys, TypeOK
    <3>3. \A v \in Workers : v # w => work'[v] = work[v]
      <4> HIDE DEF ts
      <4> QED
        BY <3>1, <3>2, TakeHand
    <3>4. ASSUME NEW g \in Groups, IsGroupComplete(g)' PROVE \E v \in Workers : Attends(v, g)'
      <4>1. g # h
        BY <3>1, <3>4, <1>0 DEF IsGroupComplete
      <4>2. member'[g] = member[g]
        BY <4>1, <3>1, <1>0
      <4>3. IsGroupComplete(g)
        BY <4>2, <3>4 DEF IsGroupComplete
      <4>4. PICK v \in Workers : Attends(v, g)
        BY <4>3, <1>g
      <4>5. v # w
        BY <4>4, <4>1
      <4> QED
        BY <4>4, <4>5, <3>3, <1>a
    <3>5. NoGroups'
      BY <3>1, <1>0, <1>g
    <3> QED
      BY <3>4, <3>5, <1>s
  <2>8. CASE Post(w) \/ PostFails(w)
    <3>1. work[w].at = "post" /\ Return(w) /\ UNCHANGED member
      BY <2>8 DEF Post, PostFails, bufferVars
    <3> QED
      BY <3>1, <2>v, ReturnHand
  <2> QED
    BY <1>2, <2>1, <2>2, <2>3, <2>4, <2>5, <2>6, <2>7, <2>8 DEF Step
<1>3. ASSUME NEW k \in Keys, Evict(k) PROVE GroupsAttended'
  <2>1. UNCHANGED <<member, work>>
    BY <1>3 DEF Evict
  <2> QED
    BY <2>1, <1>u, <1>a
<1>4. CASE Close
  <2>1. \A g \in Groups : ~IsGroupComplete(g)'
    BY <1>4 DEF Close, IsGroupComplete
  <2>2. NoGroups'
    BY <1>4, <1>0 DEF Close
  <2> QED
    BY <2>1, <2>2, <1>s
<1>5. Next => (\E w \in Workers : Step(w)) \/ (\E k \in Keys : Evict(k)) \/ Close
  BY DEF Next, Step
<1> QED
  BY <1>1, <1>2, <1>3, <1>4, <1>5

\* Every step keeps the inductive invariant.
LEMMA NextIInv == IInv /\ [Next]_vars => IInv'
<1> SUFFICES ASSUME IInv, [Next]_vars PROVE IInv'
  OBVIOUS
<1>0. TypeOK /\ EntriesPlaced /\ HeldToPost /\ TaskAccounted /\ GroupsAttended
  BY DEF IInv
<1>1. TypeOK' /\ EntriesPlaced' /\ HeldToPost' /\ GroupsAttended'
  BY <1>0, NextType, NextPlaced, NextHeld, NextAttended
<1>2. TaskAccounted'
  <2>1. ASSUME NEW t \in Tasks, added'[t] > 0 PROVE Located(t)'
    <3>1. CASE added[t] > 0
      <4>1. Located(t)
        BY <1>0, <3>1 DEF TaskAccounted, Located
      <4> QED
        BY <1>0, <4>1, NextLocated
    <3>2. CASE ~(added[t] > 0)
      BY <1>0, <2>1, <3>2, NextLocated
    <3> QED
      BY <3>1, <3>2
  <2> QED
    BY <2>1 DEF TaskAccounted, Located, Buffered, InHand
<1> QED
  BY <1>1, <1>2 DEF IInv

\* There is a PipelineRun to start from.
LEMMA Inhabited == Objects # {}
BY AccumulatorAssumption DEF Objects

\* The inductive invariant holds in every state of the handler and its buffers.
LEMMA Inductive == Spec => []IInv
<1>1. Init => IInv
  BY InitIInv, Inhabited
<1> QED
  BY <1>1, NextIInv, PTL DEF Spec

\* The handler, the LRU and the store keep their state well-formed, for any
\* number of goroutines in Handler.Handle, whatever fails.
THEOREM TypeCorrect == Spec => []TypeOK
<1>1. IInv => TypeOK
  BY DEF IInv
<1> QED
  BY <1>1, Inductive, PTL

\* A TaskRun that Handler.Handle accepted is never lost silently: it is in the
\* buffer, in the hand of a goroutine between Flush and provider.Handle, in a
\* posted summary, or was taken out by an eviction, a store error or a failed post.
THEOREM EveryTaskAccounted == Spec => []TaskAccounted
<1>1. IInv => TaskAccounted
  BY DEF IInv
<1> QED
  BY <1>1, Inductive, PTL

\* However the ends of a group's members race through AddWithGroup and
\* IsGroupComplete, no complete group is left behind once all calls returned.
THEOREM CompleteGroupsPosted == Spec => []CompleteGroupsFlushed
<1>1. IInv => CompleteGroupsFlushed
  BY DEF IInv, GroupsAttended, CompleteGroupsFlushed
<1> QED
  BY <1>1, Inductive, PTL

\* baseEventFromRun: the events of an object carry the object's own UID.
OwnUids == \A o, p \in Objects : RunId[o] = RunId[p] => o = p

\* Goroutines flush at the end of a PipelineRun, and none has got hold of a
\* TaskRun without a group.
Unsummarised ==
  /\ \A w \in Workers : work[w].at \in {"check", "flush"} => work[w].obj \in Pipelines
  /\ \A t \in Tasks : Annotation(t) = Ungrouped => ~InHand(t) /\ shown[t] = 0

\* Where its own UID is the key of a TaskRun, the entry that the end of a
\* PipelineRun takes out has no TaskRun in it, and those that the end of a
\* group takes out have TaskRuns of that group only.
LEMMA NextUnsummarised == OwnUids /\ IInv /\ Unsummarised /\ [Next]_vars => Unsummarised'
<1> SUFFICES ASSUME OwnUids, IInv, Unsummarised, [Next]_vars
             PROVE  Unsummarised'
  OBVIOUS
<1>0. /\ TypeOK /\ EntriesPlaced /\ HeldToPost /\ entry \in [Keys -> SUBSET Tasks]
      /\ shown \in [Tasks -> Nat] /\ work \in [Workers -> Work]
  BY DEF IInv, TypeOK
<1>h. ASSUME NEW w \in Workers, \A v \in Workers : v # w => work'[v] = work[v],
             work'[w].at \in {"check", "flush"} => work'[w].obj \in Pipelines,
             \A t \in work'[w].held : t \in work[w].held \/ Annotation(t) # Ungrouped, UNCHANGED shown
      PROVE  Unsummarised'
  BY <1>h DEF Unsummarised, InHand, Annotation
<1>1. CASE UNCHANGED <<work, shown>>
  BY <1>1 DEF Unsummarised, InHand, Annotation
<1>2. ASSUME NEW w \in Workers, Step(w) PROVE Unsummarised'
  <2> DEFINE o == work[w].obj
  <2>0. o \in Objects /\ work[w] \in Work /\ work \in [Workers -> Work]
    BY <1>0 DEF Work
  <2>k. /\ Key(o) \in Keys /\ Annotation(o) \in Annotations
        /\ Key(o)[1] = Annotation(o) /\ Key(o)[2] = RunId[o]
    BY <2>0, KeyTypes
  <2>1. CASE \E q \in Objects, final \in BOOLEAN : Handle(w, q, final)
    <3>1. PICK q \in Objects, final \in BOOLEAN :
            work' = [work EXCEPT ![w] = [at |-> "add", obj |-> q, final |-> final, held |-> {}]]
      BY <2>1 DEF Handle
    <3> QED
      BY <1>h, <2>0, <2>1, <3>1 DEF Handle, history
  <2>2. CASE AddLRU(w) \/ AddStore(w) \/ AddStoreFails(w)
    <3>1. work[w].at = "add" /\ AfterAdd(w) /\ UNCHANGED shown
      BY <2>2 DEF AddLRU, AddStore, AddStoreFails
    <3>2. CASE o \in Pipelines /\ \E l \in {"flush", "check"} : Goto(w, l)
      BY <1>h, <2>0, <3>1, <3>2 DEF Goto, Work
    <3>3. CASE Return(w)
      BY <1>h, <1>0, <3>1, <3>3, ReturnHand
    <3> QED
      BY <3>1, <3>2, <3>3 DEF AfterAdd
  <2>3. CASE Check(w)
    <3>1. UNCHANGED shown /\ o \in Pipelines
      BY <2>3 DEF Check, history, Unsummarised
    <3>2. CASE Goto(w, "flush")
      BY <1>h, <2>0, <3>1, <3>2 DEF Goto, Work
    <3>3. CASE Return(w)
      BY <1>h, <1>0, <3>1, <3>3, ReturnHand
    <3> QED
      BY <2>3, <3>2, <3>3 DEF Check
  <2>4. CASE Flush(w)
    <3>1. PICK ts : ts = entry[Key(o)]
      OBVIOUS
    <3>2. Take(w, ts) /\ UNCHANGED shown /\ o \in Pipelines
      BY <2>4, <3>1 DEF Flush, Unsummarised
    <3>3. ts = {}
      <4>1. SUFFICES ASSUME NEW t \in ts PROVE FALSE
        OBVIOUS
      <4>2. t \in Tasks /\ Key(o) = Key(t)
        BY <1>0, <2>k, <3>1 DEF EntriesPlaced
      <4>3. RunId[o] = RunId[t] /\ t \in Objects
        BY <2>k, <4>2, KeyTypes DEF Objects
      <4>4. o = t
        BY <2>0, <4>3 DEF OwnUids
      <4> QED
        BY <3>2, <4>2, <4>4, AccumulatorAssumption
    <3>4. Return(w)
      BY <3>2, <3>3 DEF Take, Return
    <3> QED
      BY <1>h, <1>0, <3>2, <3>4, ReturnHand
  <2>5. CASE FlushGroup(w)
    <3>1. PICK ts : ts = UNION {entry[k] : k \in MemberKeys(Annotation(o))}
      OBVIOUS
    <3>2. Take(w, ts) /\ UNCHANGED shown /\ work[w].at = "flush" /\ Annotation(o) # Ungrouped
      BY <2>5, <3>1 DEF FlushGroup
    <3>3. \A t \in ts : t \in Tasks /\ Annotation(t) # Ungrouped
      <4>1. SUFFICES ASSUME NEW k \in MemberKeys(Annotation(o)), NEW t \in entry[k]
                     PROVE  t \in Tasks /\ Annotation(t) # Ungrouped
        BY <3>1
      <4>2. k \in Keys /\ k[1] = Annotation(o)
        BY <2>k DEF MemberKeys, Keys
      <4>3. t \in Tasks /\ k = Key(t)
        BY <1>0, <4>2 DEF EntriesPlaced
      <4>4. Annotation(t) = k[1]
        BY <4>3, KeyTypes DEF Objects
      <4> QED
        BY <3>2, <4>2, <4>3, <4>4
    <3>4. CASE ts = {}
      <4>1. Return(w)
        BY <3>2, <3>4 DEF Take, Return
      <4> QED
        BY <1>h, <1>0, <3>2, <4>1, ReturnHand
    <3>5. CASE ts # {}
      <4>1. work' = [work EXCEPT ![w] = [work[w] EXCEPT !.at = "post", !.held = ts]]
        BY <3>2, <3>5 DEF Take
      <4>2. work'[w].at = "post" /\ work'[w].held = ts
        BY <2>0, <4>1 DEF Work
      <4> QED
        BY <1>h, <2>0, <3>2, <3>3, <4>1, <4>2
    <3> QED
      BY <3>4, <3>5
  <2>6. CASE FlushStoreFails(w) \/ PostFails(w)
    <3>1. Return(w) /\ UNCHANGED shown
      BY <2>6 DEF FlushStoreFails, PostFails
    <3> QED
      BY <1>h, <1>0, <3>1, ReturnHand
  <2>7. CASE Post(w)
    <3>1. /\ Return(w)
          /\ shown' = [t \in Tasks |-> IF t \in work[w].held THEN shown[t] + 1 ELSE shown[t]]
      BY <2>7 DEF Post
    <3>2. /\ \A v \in Workers : v # w => work'[v] = work[v]
          /\ work'[w].at = "idle" /\ work'[w].held = {}
      BY <1>0, <3>1, ReturnHand
    <3>3. ASSUME NEW t \in Tasks, Annotation(t) = Ungrouped
          PROVE  ~InHand(t)' /\ shown'[t] = 0
      <4>1. ~InHand(t) /\ shown[t] = 0
        BY <3>3 DEF Unsummarised
      <4> QED
        BY <3>1, <3>2, <4>1 DEF InHand
    <3>4. \A v \in Workers : work'[v].at \in {"check", "flush"} => work'[v].obj \in Pipelines
      BY <3>2 DEF Unsummarised
    <3> QED
      BY <3>3, <3>4 DEF Unsummarised, Annotation
  <2> QED
    BY <1>2, <2>1, <2>2, <2>3, <2>4, <2>5, <2>6, <2>7 DEF Step
<1>3. CASE Close \/ \E k \in Keys : Evict(k)
  BY <1>1, <1>3 DEF Close, Evict
<1>4. Next => (\E w \in Workers : Step(w)) \/ (\E k \in Keys : Evict(k)) \/ Close
  BY DEF Next, Step
<1>5. UNCHANGED vars => UNCHANGED <<work, shown>>
  BY DEF vars, history
<1> QED
  BY <1>1, <1>2, <1>3, <1>4, <1>5

\* decoder_shared.go gives every event the UID of its own object, and with
\* such RunIDs the handler never posts a summary of a TaskRun without a group:
\* flushAndPost looks under the UID of the PipelineRun, where no TaskRun is,
\* whatever the order of events and however many goroutines handle them.
THEOREM NothingSummarised ==
  OwnUids => (Spec => [](\A t \in Tasks : Annotation(t) = Ungrouped => shown[t] = 0))
<1>1. Init => Unsummarised
  BY IdleType, Inhabited DEF Init, Unsummarised, InHand
<1> SUFFICES ASSUME OwnUids
             PROVE  Spec => [](\A t \in Tasks : Annotation(t) = Ungrouped => shown[t] = 0)
  OBVIOUS
<1>2. IInv /\ Unsummarised /\ [Next]_vars => Unsummarised'
  BY NextUnsummarised
<1>3. Unsummarised => \A t \in Tasks : Annotation(t) = Ungrouped => shown[t] = 0
  BY DEF Unsummarised
<1> QED
  BY <1>1, <1>2, <1>3, Inductive, PTL DEF Spec

\* One TaskRun in the entry of its key, and in the hand of one goroutine.
Stored(t) == IF t \in entry[Key(t)] THEN 1 ELSE 0
Hand(w, t) == IF t \in work[w].held THEN 1 ELSE 0

\* How many goroutines hold a TaskRun changes with the hand of the one that
\* makes the step.
LEMMA HoldersStep ==
  ASSUME NEW t, NEW w \in Workers,
         \A v \in Workers : v # w => work'[v].held = work[v].held
  PROVE  /\ Cardinality(Holders(t)) \in Nat
         /\ Cardinality(Holders(t)') \in Nat
         /\ Cardinality(Holders(t)') + Hand(w, t) = Cardinality(Holders(t)) + Hand(w, t)'
<1> DEFINE R == Holders(t) \ {w}
<1>1. IsFiniteSet(R) /\ R \subseteq Workers /\ w \notin R
  BY AccumulatorAssumption, FS_Subset DEF Holders
<1>2. Cardinality(R) \in Nat /\ Cardinality(R \cup {w}) = Cardinality(R) + 1
  BY <1>1, FS_CardinalityType, FS_AddElement
<1>3. Holders(t) = IF t \in work[w].held THEN R \cup {w} ELSE R
  BY DEF Holders
<1>4. Holders(t)' = IF t \in work'[w].held THEN R \cup {w} ELSE R
  BY DEF Holders
<1> HIDE DEF R
<1> QED
  BY <1>2, <1>3, <1>4 DEF Hand

\* A step that makes no more copies of a TaskRun than it counts Adds of it.
LEMMA CopiesFrame ==
  ASSUME TypeOK, TypeOK', CopiesPaid, NEW t \in Tasks, NEW w \in Workers,
         \A v \in Workers : v # w => work'[v].held = work[v].held,
         shown'[t] + Hand(w, t)' + Stored(t)' + added[t] <=
           shown[t] + Hand(w, t) + Stored(t) + added'[t]
  PROVE  shown'[t] + Cardinality(Holders(t)') + Stored(t)' <= added'[t]
<1>1. /\ Cardinality(Holders(t)) \in Nat /\ Cardinality(Holders(t)') \in Nat
      /\ Cardinality(Holders(t)') + Hand(w, t) = Cardinality(Holders(t)) + Hand(w, t)'
  BY HoldersStep
<1>2. shown[t] + Cardinality(Holders(t)) + Stored(t) <= added[t]
  BY DEF CopiesPaid, Stored
<1>3. /\ shown[t] \in Nat /\ shown'[t] \in Nat /\ added[t] \in Nat /\ added'[t] \in Nat
  BY DEF TypeOK
<1>4. /\ Hand(w, t) \in Nat /\ Hand(w, t)' \in Nat /\ Stored(t) \in Nat /\ Stored(t)' \in Nat
  BY DEF Hand, Stored
<1> QED
  BY <1>1, <1>2, <1>3, <1>4

\* Adding an event makes at most one copy, and counts it.
LEMMA CopiesAdd ==
  ASSUME TypeOK, TypeOK', HeldToPost, CopiesPaid, NEW t \in Tasks, NEW w \in Workers,
         work[w].at = "add", AfterAdd(w), CountAdd(work[w].obj), UNCHANGED shown,
         Entry(work[w].obj) \/ UNCHANGED entry
  PROVE  shown'[t] + Cardinality(Holders(t)') + Stored(t)' <= added'[t]
<1> DEFINE o == work[w].obj
<1>0. o \in Objects /\ t \in Objects
  BY DEF TypeOK, Work, Objects
<1>1. \A v \in Workers : work'[v].held = work[v].held
  BY AfterAddHand
<1>2. Hand(w, t)' = Hand(w, t)
  BY <1>1 DEF Hand
<1>3. added[t] \in Nat /\ added'[t] = IF o = t THEN added[t] + 1 ELSE added[t]
  BY DEF CountAdd, TypeOK
<1>4. t \in entry'[Key(t)] => t \in entry[Key(t)] \/ o = t
  <2>1. Key(t) \in Keys
    BY <1>0, KeyTypes
  <2>2. CASE Entry(o)
    <3>1. \A k \in Keys : entry'[k] \subseteq entry[k] \cup {o}
      BY <2>2, <1>0, EntryAdds
    <3> QED
      BY <2>1, <3>1
  <2>3. CASE UNCHANGED entry
    BY <2>3
  <2> QED
    BY <2>2, <2>3
<1>5. Stored(t)' <= Stored(t) + (IF o = t THEN 1 ELSE 0)
  BY <1>4 DEF Stored, Key, Annotation
<1>6. shown[t] \in Nat /\ Hand(w, t) \in Nat /\ Stored(t) \in Nat /\ Stored(t)' \in Nat
  BY DEF TypeOK, Hand, Stored
<1>7. shown'[t] + Hand(w, t)' + Stored(t)' + added[t] <= shown[t] + Hand(w, t) + Stored(t) + added'[t]
  BY <1>2, <1>3, <1>5, <1>6
<1> QED
  BY <1>1, <1>7, CopiesFrame

\* A flush moves copies from the entries it drops into the goroutine's hand.
LEMMA CopiesTake ==
  ASSUME TypeOK, TypeOK', EntriesPlaced, HeldToPost, CopiesPaid,
         NEW t \in Tasks, NEW w \in Workers, work[w].at = "flush", NEW ks \in SUBSET Keys,
         NEW ts, ts = UNION {entry[k] : k \in ks}, Take(w, ts), DropEntries(ks),
         UNCHANGED <<added, shown>>
  PROVE  shown'[t] + Cardinality(Holders(t)') + Stored(t)' <= added'[t]
<1>0. entry \in [Keys -> SUBSET Tasks] /\ Key(t) \in Keys /\ ts \in SUBSET Tasks
  BY KeyTypes DEF TypeOK, Objects
<1>1. /\ work'[w].held = ts /\ work[w].held = {}
      /\ \A v \in Workers : v # w => work'[v] = work[v]
  BY <1>0, TakeHand
<1>2. t \in ts => Key(t) \in ks /\ t \in entry[Key(t)]
  BY DEF EntriesPlaced
<1>3. /\ Key(t) \in ks => t \notin entry'[Key(t)]
      /\ t \in entry'[Key(t)] => t \in entry[Key(t)]
  BY <1>0 DEF DropEntries
<1>4. Hand(w, t) = 0 /\ Hand(w, t)' + Stored(t)' <= Stored(t)
  BY <1>1, <1>2, <1>3 DEF Hand, Stored, Key, Annotation
<1>5. /\ shown[t] \in Nat /\ added[t] \in Nat
      /\ Hand(w, t)' \in Nat /\ Stored(t) \in Nat /\ Stored(t)' \in Nat
  BY DEF TypeOK, Hand, Stored
<1>6. shown'[t] + Hand(w, t)' + Stored(t)' + added[t] <= shown[t] + Hand(w, t) + Stored(t) + added'[t]
  BY <1>4, <1>5
<1> QED
  BY <1>1, <1>6, CopiesFrame

\* A step that posts nothing and adds nothing, in which a goroutine keeps its
\* hand or empties it and entries only lose TaskRuns.
LEMMA CopiesLost ==
  ASSUME TypeOK, TypeOK', CopiesPaid, NEW t \in Tasks, NEW w \in Workers,
         \A v \in Workers : v # w => work'[v].held = work[v].held,
         work'[w].held \subseteq work[w].held,
         \A k \in Keys : entry'[k] \subseteq entry[k],
         UNCHANGED <<added, shown>>
  PROVE  shown'[t] + Cardinality(Holders(t)') + Stored(t)' <= added'[t]
<1>0. Key(t) \in Keys
  BY KeyTypes DEF Objects
<1>1. Hand(w, t)' <= Hand(w, t) /\ Stored(t)' <= Stored(t)
  BY <1>0 DEF Hand, Stored, Key, Annotation
<1>2. /\ shown[t] \in Nat /\ added[t] \in Nat
      /\ Hand(w, t) \in Nat /\ Hand(w, t)' \in Nat /\ Stored(t) \in Nat /\ Stored(t)' \in Nat
  BY DEF TypeOK, Hand, Stored
<1>3. shown'[t] + Hand(w, t)' + Stored(t)' + added[t] <= shown[t] + Hand(w, t) + Stored(t) + added'[t]
  BY <1>1, <1>2
<1> QED
  BY <1>3, CopiesFrame

\* Every step of a goroutine keeps the copies paid for.
LEMMA StepPaid ==
  ASSUME TypeOK, TypeOK', EntriesPlaced, HeldToPost, CopiesPaid,
         NEW w \in Workers, Step(w), NEW t \in Tasks
  PROVE  shown'[t] + Cardinality(Holders(t)') + Stored(t)' <= added'[t]
<1> DEFINE o == work[w].obj
           Paid == shown'[t] + Cardinality(Holders(t)') + Stored(t)' <= added'[t]
<1>0. /\ work \in [Workers -> Work] /\ work[w] \in Work /\ o \in Objects
      /\ entry \in [Keys -> SUBSET Tasks]
  BY DEF TypeOK, Work
<1>k. Key(o) \in Keys /\ Annotation(o) \in Annotations
  BY <1>0, KeyTypes
<1>e. ASSUME UNCHANGED entry PROVE \A k \in Keys : entry'[k] \subseteq entry[k]
  BY <1>e
<1>d. ASSUME NEW ks, DropEntries(ks) PROVE \A k \in Keys : entry'[k] \subseteq entry[k]
  BY <1>d DEF DropEntries
<1>r. ASSUME Return(w) PROVE /\ work'[w].held = {}
                             /\ \A v \in Workers : v # w => work'[v].held = work[v].held
  BY <1>r, ReturnHand
<1>1. ASSUME NEW q \in Objects, NEW final \in BOOLEAN, Handle(w, q, final) PROVE Paid
  <2>1. work'[w].held = {} /\ \A v \in Workers : v # w => work'[v].held = work[v].held
    BY <1>0, <1>1 DEF Handle
  <2>2. UNCHANGED <<entry, added, shown>>
    BY <1>1 DEF Handle, bufferVars, history
  <2> QED
    BY <2>1, <2>2, <1>e, CopiesLost
<1>2. ASSUME AddLRU(w) \/ AddStore(w) \/ AddStoreFails(w) PROVE Paid
  <2>1. /\ work[w].at = "add" /\ AfterAdd(w) /\ CountAdd(o) /\ UNCHANGED shown
        /\ Entry(o) \/ UNCHANGED entry
    BY <1>2 DEF AddLRU, AddStore, AddStoreFails, bufferVars
  <2> QED
    BY <2>1, CopiesAdd
<1>3. ASSUME Check(w) PROVE Paid
  <2>1. UNCHANGED <<entry, added, shown>>
    BY <1>3 DEF Check, bufferVars, history
  <2>2. work'[w].held \subseteq work[w].held /\ \A v \in Workers : v # w => work'[v].held = work[v].held
    <3>1. CASE Return(w)
      BY <3>1, <1>r
    <3>2. CASE Goto(w, "flush")
      BY <3>2, <1>0 DEF Goto, Work
    <3> QED
      BY <1>3, <3>1, <3>2 DEF Check
  <2> QED
    BY <2>1, <2>2, <1>e, CopiesLost
<1>4. ASSUME Flush(w) PROVE Paid
  <2>1. /\ work[w].at = "flush" /\ Take(w, entry[Key(o)]) /\ DropEntries({Key(o)})
        /\ UNCHANGED <<added, shown>>
    BY <1>4 DEF Flush
  <2>2. entry[Key(o)] = UNION {entry[k] : k \in {Key(o)}}
    OBVIOUS
  <2>3. {Key(o)} \in SUBSET Keys
    BY <1>k
  <2> QED
    BY <2>1, <2>2, <2>3, CopiesTake
<1>5. ASSUME FlushGroup(w) PROVE Paid
  <2> DEFINE ks == MemberKeys(Annotation(o))
  <2>1. /\ work[w].at = "flush" /\ Take(w, UNION {entry[k] : k \in ks}) /\ DropEntries(ks)
        /\ UNCHANGED <<added, shown>>
    BY <1>5 DEF FlushGroup
  <2>2. ks \in SUBSET Keys
    BY <1>k DEF MemberKeys, Keys
  <2> HIDE DEF ks
  <2> QED
    BY <2>1, <2>2, CopiesTake
<1>6. ASSUME FlushStoreFails(w) PROVE Paid
  <2>1. UNCHANGED <<added, shown>> /\ Return(w)
    BY <1>6 DEF FlushStoreFails
  <2>2. \A k \in Keys : entry'[k] \subseteq entry[k]
    BY <1>6, <1>d DEF FlushStoreFails
  <2> QED
    BY <2>1, <2>2, <1>r, CopiesLost
<1>7. ASSUME PostFails(w) PROVE Paid
  <2>1. UNCHANGED <<entry, added, shown>> /\ Return(w)
    BY <1>7 DEF PostFails, bufferVars
  <2> QED
    BY <2>1, <1>r, <1>e, CopiesLost
<1>8. ASSUME Post(w) PROVE Paid
  <2>1. UNCHANGED <<entry, added>> /\ Return(w)
    BY <1>8 DEF Post, bufferVars
  <2>2. shown[t] \in Nat /\ added[t] \in Nat /\ shown'[t] = shown[t] + Hand(w, t)
    BY <1>8 DEF Post, TypeOK, Hand
  <2>3. Hand(w, t)' = 0 /\ Stored(t)' = Stored(t)
    BY <2>1, <1>r DEF Hand, Stored, Key, Annotation
  <2>4. Hand(w, t) \in Nat /\ Stored(t) \in Nat
    BY DEF Hand, Stored
  <2>5. shown'[t] + Hand(w, t)' + Stored(t)' + added[t] <= shown[t] + Hand(w, t) + Stored(t) + added'[t]
    BY <2>1, <2>2, <2>3, <2>4
  <2> QED
    BY <2>1, <2>5, <1>r, CopiesFrame
<1> HIDE DEF Paid
<1> QED
  BY <1>1, <1>2, <1>3, <1>4, <1>5, <1>6, <1>7, <1>8 DEF Step, Paid

\* Every step keeps the copies of each TaskRun paid for by its Adds.
LEMMA NextPaid == IInv /\ CopiesPaid /\ [Next]_vars => CopiesPaid'
<1> SUFFICES ASSUME IInv, CopiesPaid, [Next]_vars PROVE CopiesPaid'
  OBVIOUS
<1>0. TypeOK /\ TypeOK' /\ EntriesPlaced /\ HeldToPost
  BY NextType DEF IInv
<1> SUFFICES ASSUME NEW t \in Tasks
             PROVE  shown'[t] + Cardinality(Holders(t)') + Stored(t)' <= added'[t]
  BY DEF CopiesPaid, Stored, Key, Annotation
<1>p. shown[t] + Cardinality(Holders(t)) + Stored(t) <= added[t]
  BY DEF CopiesPaid, Stored
<1>1. ASSUME UNCHANGED work, UNCHANGED <<added, shown>>, \A k \in Keys : entry'[k] \subseteq entry[k]
      PROVE  shown'[t] + Cardinality(Holders(t)') + Stored(t)' <= added'[t]
  <2>1. Holders(t)' = Holders(t)
    BY <1>1 DEF Holders
  <2>2. Holders(t) \subseteq Workers
    BY DEF Holders
  <2>3. Cardinality(Holders(t)) \in Nat
    BY <2>2, AccumulatorAssumption, FS_Subset, FS_CardinalityType
  <2>4. Key(t) \in Keys
    BY KeyTypes DEF Objects
  <2>5. Stored(t)' <= Stored(t) /\ Stored(t) \in Nat /\ Stored(t)' \in Nat
    BY <1>1, <2>4 DEF Stored, Key, Annotation
  <2>6. shown[t] \in Nat /\ added[t] \in Nat
    BY <1>0 DEF TypeOK
  <2> QED
    BY <1>1, <1>p, <2>1, <2>3, <2>5, <2>6
<1>2. CASE UNCHANGED vars
  BY <1>1, <1>2 DEF vars, bufferVars, history
<1>3. CASE \E w \in Workers : Step(w)
  BY <1>0, <1>3, StepPaid
<1>4. CASE Close \/ \E k \in Keys : Evict(k)
  BY <1>0, <1>1, <1>4 DEF Close, Evict, DropEntries, TypeOK
<1>5. Next => (\E w \in Workers : Step(w)) \/ (\E k \in Keys : Evict(k)) \/ Close
  BY DEF Next, Step
<1> QED
  BY <1>2, <1>3, <1>4, <1>5

\* No event of a TaskRun is reported twice, however the ends of runs and groups
\* race through Flush and FlushGroup: a summary shows a TaskRun at most as often
\* as Handler.Handle was called with an event of it.
THEOREM NeverShownTwice == Spec => []ShownOnce
<1>1. Init => CopiesPaid
  <2> SUFFICES ASSUME Init, NEW t \in Tasks
               PROVE  shown[t] + Cardinality(Holders(t)) + Stored(t) <= added[t]
    BY DEF CopiesPaid, Stored
  <2>1. Holders(t) = {}
    BY Inhabited, IdleType DEF Init, Holders
  <2>2. Key(t) \in Keys
    BY KeyTypes DEF Objects
  <2>3. shown[t] = 0 /\ added[t] = 0 /\ Stored(t) = 0
    BY <2>2 DEF Init, Stored
  <2> QED
    BY <2>1, <2>3, FS_EmptySet
<1>2. IInv /\ CopiesPaid => ShownOnce
  <2> SUFFICES ASSUME IInv, CopiesPaid, NEW t \in Tasks PROVE shown[t] <= added[t]
    BY DEF ShownOnce
  <2>1. shown[t] + Cardinality(Holders(t)) + Stored(t) <= added[t]
    BY DEF CopiesPaid, Stored
  <2>2. Holders(t) \subseteq Workers
    BY DEF Holders
  <2>3. Cardinality(Holders(t)) \in Nat
    BY <2>2, AccumulatorAssumption, FS_Subset, FS_CardinalityType
  <2>4. shown[t] \in Nat /\ added[t] \in Nat /\ Stored(t) \in Nat
    BY DEF IInv, TypeOK, Stored
  <2> QED
    BY <2>1, <2>3, <2>4
<1> QED
  BY <1>1, <1>2, NextPaid, Inductive, PTL DEF Spec
=============================================================================
