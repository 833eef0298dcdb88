-------------------------- MODULE FileQueueProofs --------------------------
(***************************************************************************)
(* Proofs about the dead letter file queue, for any number of IDs, callers *)
(* and line lengths. The first part says what the loops of QueueOps        *)
(* compute, for lists of any length; induction is on the position a loop   *)
(* has reached, by a least counterexample. The second part shows that IInv *)
(* is inductive, and that every step of FileQueue is one of DeadLetters or *)
(* leaves the file alone.                                                  *)
(***************************************************************************)
EXTENDS FileQueue, WellFoundedInduction, TLAPS

-----------------------------------------------------------------------------
(* Induction.                                                              *)

\* Every nonempty set of numbers has a least one.
LEMMA LeastNumber ==
  ASSUME NEW T \in SUBSET Nat, T # {}
  PROVE  \E x \in T : \A y \in T : x <= y
<1> DEFINE R == {ss \in Nat \X Nat : ss[1] < ss[2]}
<1>1. IsWellFoundedOn(R, Nat)
  BY NatLessThanWellFounded DEF OpToRel
<1>2. PICK x \in T : \A y \in T : ~(<<y, x>> \in R)
  <2> HIDE DEF R
  <2> QED
    BY <1>1, WFMin
<1>3. ASSUME NEW y \in T PROVE x <= y
  <2>1. x \in Nat /\ y \in Nat
    OBVIOUS
  <2>2. ~(y < x)
    <3>1. ~(<<y, x>> \in R)
      BY <1>2
    <3>2. <<y, x>> \in Nat \X Nat
      BY <2>1
    <3>3. <<y, x>>[1] = y /\ <<y, x>>[2] = x
      OBVIOUS
    <3> QED
      BY <3>1, <3>2, <3>3
  <2> QED
    BY <2>1, <2>2
<1> QED
  BY <1>3

\* Induction up to a bound, for sets.
LEMMA UpTo ==
  ASSUME NEW n \in Nat, NEW T, 0 \in T, \A k \in 1..n : k - 1 \in T => k \in T
  PROVE  \A k \in 0..n : k \in T
<1> SUFFICES ASSUME {k \in 0..n : k \notin T} # {} PROVE FALSE
  OBVIOUS
<1>1. PICK x \in {k \in 0..n : k \notin T} : \A y \in {k \in 0..n : k \notin T} : x <= y
  <2>1. {k \in 0..n : k \notin T} \in SUBSET Nat
    OBVIOUS
  <2> QED
    BY <2>1, LeastNumber
<1>2. x \in 1..n /\ x - 1 \in 0..n
  BY <1>1
<1>3. x - 1 \in T
  BY <1>1, <1>2
<1> QED
  BY <1>1, <1>2, <1>3

\* A loop of n rounds that starts with v and whose body is G, and its values
\* after each round.
Loop(V, v, n, G) == v \in V /\ n \in Nat /\ G \in [(1..n) \X V -> V]
Values(f, V, v, n, G) ==
  f \in [0..n -> V] /\ f[0] = v /\ \A k \in 1..n : f[k] = G[<<k, f[k - 1]>>]

\* A loop has a value after every round.
LEMMA LoopExists ==
  ASSUME NEW V, NEW v, NEW n, NEW G, Loop(V, v, n, G)
  PROVE  \E f : Values(f, V, v, n, G)
<1> USE DEF Loop
<1> DEFINE Runs(m, f) == f[0] = v /\ \A k \in 1..m : f[k] = G[<<k, f[k - 1]>>]
           T == {m \in 0..n : \E f \in [0..m -> V] : Runs(m, f)}
<1>1. 0 \in T
  <2> DEFINE f == [k \in 0..0 |-> v]
  <2>1. f \in [0..0 -> V] /\ f[0] = v
    OBVIOUS
  <2>2. 1..0 = {}
    OBVIOUS
  <2> HIDE DEF f
  <2>3. Runs(0, f)
    BY <2>1, <2>2
  <2> QED
    BY <2>1, <2>3
<1>2. ASSUME NEW m \in 1..n, m - 1 \in T PROVE m \in T
  <2>1. PICK f \in [0..(m - 1) -> V] : Runs(m - 1, f)
    BY <1>2
  <2> DEFINE g == [k \in 0..m |-> IF k = m THEN G[<<m, f[m - 1]>>] ELSE f[k]]
  <2>2. f[m - 1] \in V /\ G[<<m, f[m - 1]>>] \in V
    OBVIOUS
  <2>3. g \in [0..m -> V]
    BY <2>2
  <2>4. g[0] = v
    BY <2>1
  <2>5. ASSUME NEW k \in 1..m PROVE g[k] = G[<<k, g[k - 1]>>]
    <3>1. g[k - 1] = f[k - 1]
      OBVIOUS
    <3>2. CASE k = m
      <4>1. g[m] = G[<<m, f[m - 1]>>]
        OBVIOUS
      <4> HIDE DEF g
      <4> QED
        BY <3>1, <3>2, <4>1
    <3>3. CASE k # m
      <4>1. k \in 1..(m - 1) /\ g[k] = f[k]
        BY <3>3
      <4> QED
        BY <2>1, <3>1, <4>1
    <3> QED
      BY <3>2, <3>3
  <2>6. Runs(m, g)
    BY <2>4, <2>5
  <2>7. m \in 0..n
    OBVIOUS
  <2> HIDE DEF Runs, g
  <2> QED
    BY <2>3, <2>6, <2>7
<1>3. n \in T
  <2> HIDE DEF T
  <2> QED
    BY <1>1, <1>2, UpTo
<1> QED
  BY <1>3 DEF Values

-----------------------------------------------------------------------------
(* What TotalBytes computes.                                               *)

\* A list of lines, whatever else they hold, and the running total of writeAll.
Lines(q) == DOMAIN q = 1..Len(q) /\ Len(q) \in Nat /\ \A k \in 1..Len(q) : q[k].bytes \in Nat
Totals(f, q) ==
  /\ f \in [0..Len(q) -> Nat] /\ f[0] = 0
  /\ \A k \in 1..Len(q) : f[k] = f[k - 1] + q[k].bytes

\* TotalBytes is the last running total.
LEMMA TotalsExist ==
  ASSUME NEW q, Lines(q)
  PROVE  \E f : Totals(f, q) /\ TotalBytes(q) = f[Len(q)]
<1> DEFINE n == Len(q)
           IsTotal(f) == f = [k \in 0..n |-> IF k = 0 THEN 0 ELSE f[k - 1] + q[k].bytes]
           G == [p \in (1..n) \X Nat |-> p[2] + q[p[1]].bytes]
           h == CHOOSE f : IsTotal(f)
<1>0. n \in Nat /\ \A k \in 1..n : q[k].bytes \in Nat
  BY DEF Lines
<1>1. PICK f \in [0..n -> Nat] : f[0] = 0 /\ \A k \in 1..n : f[k] = G[<<k, f[k - 1]>>]
  <2>1. Loop(Nat, 0, n, G)
    BY <1>0 DEF Loop
  <2>2. \E f : Values(f, Nat, 0, n, G)
    BY <2>1, LoopExists
  <2> HIDE DEF G
  <2> QED
    BY <2>2 DEF Values
<1>2. \A k \in 1..n : f[k] = f[k - 1] + q[k].bytes
  <2> SUFFICES ASSUME NEW k \in 1..n PROVE f[k] = f[k - 1] + q[k].bytes
    OBVIOUS
  <2>1. k - 1 \in 0..n /\ f[k - 1] \in Nat
    BY <1>0
  <2> QED
    BY <1>1, <2>1
<1>3. IsTotal(f)
  BY <1>0, <1>1, <1>2
<1>4. IsTotal(h)
  BY <1>3
<1>5. TotalBytes(q) = h[n]
  BY DEF TotalBytes
<1> HIDE DEF h
<1>6. h[0] = 0 /\ \A k \in 1..n : h[k] = h[k - 1] + q[k].bytes
  BY <1>0, <1>4
<1>7. \A k \in 0..n : h[k] \in Nat
  <2> DEFINE T == {k \in 0..n : h[k] \in Nat}
  <2>1. 0 \in T
    BY <1>0, <1>6
  <2>2. ASSUME NEW k \in 1..n, k - 1 \in T PROVE k \in T
    <3>1. h[k - 1] \in Nat /\ q[k].bytes \in Nat /\ k \in 0..n
      BY <1>0, <2>2
    <3> QED
      BY <1>6, <3>1
  <2>3. \A k \in 0..n : k \in T
    <3> HIDE DEF T, n
    <3> QED
      BY <1>0, <2>1, <2>2, UpTo
  <2> QED
    BY <2>3
<1>8. h \in [0..n -> Nat]
  BY <1>4, <1>7
<1> QED
  BY <1>5, <1>6, <1>8 DEF Totals

\* Lists that agree on their first n lines agree on the total of these.
LEMMA TotalsAgree ==
  ASSUME NEW q, NEW s, Lines(q), Lines(s), NEW f, NEW g, Totals(f, q), Totals(g, s),
         NEW n \in Nat, n <= Len(q), n <= Len(s), \A k \in 1..n : q[k].bytes = s[k].bytes
  PROVE  f[n] = g[n]
<1> DEFINE T == {k \in 0..n : f[k] = g[k]}
<1>1. 0 \in T
  BY DEF Totals
<1>2. \A k \in 1..n : k - 1 \in T => k \in T
  BY DEF Totals, Lines
<1>3. n \in T
  <2>1. n \in 0..n
    OBVIOUS
  <2> HIDE DEF T
  <2> QED
    BY <1>1, <1>2, <2>1, UpTo
<1> QED
  BY <1>3

\* The total of a list with one line more, of the empty list, and its type.
LEMMA TotalBytesFacts ==
  /\ \A q : Lines(q) => TotalBytes(q) \in Nat
  /\ \A q, f : Lines(q) /\ Totals(f, q) => TotalBytes(q) = f[Len(q)]
  /\ TotalBytes(<<>>) = 0
<1>1. ASSUME NEW q, Lines(q) PROVE TotalBytes(q) \in Nat
  BY <1>1, TotalsExist DEF Totals, Lines
<1>2. ASSUME NEW q, NEW f, Lines(q), Totals(f, q) PROVE TotalBytes(q) = f[Len(q)]
  <2>1. PICK g : Totals(g, q) /\ TotalBytes(q) = g[Len(q)]
    BY <1>2, TotalsExist
  <2> QED
    BY <1>2, <2>1, TotalsAgree DEF Lines
<1>3. TotalBytes(<<>>) = 0
  <2>1. Lines(<<>>) /\ Len(<<>>) = 0
    BY DEF Lines
  <2> QED
    BY <2>1, TotalsExist DEF Totals
<1> QED
  BY <1>1, <1>2, <1>3

\* Entries of the queue are lines.
LEMMA EntriesAreLines ==
  ASSUME NEW q \in Seq(Entries)
  PROVE  /\ Lines(q) /\ TotalBytes(q) \in Nat
         /\ Len(q) \in Nat /\ DOMAIN q = 1..Len(q)
         /\ \A k \in 1..Len(q) : q[k] \in Entries
<1>1. /\ Len(q) \in Nat /\ DOMAIN q = 1..Len(q)
      /\ \A k \in 1..Len(q) : q[k] \in Entries
  OBVIOUS
<1>2. \A e \in Entries : e.bytes \in Nat
  BY FileQueueAssumption DEF Entries
<1>3. Lines(q)
  BY <1>1, <1>2 DEF Lines
<1> QED
  BY <1>1, <1>3, TotalBytesFacts

\* One line more adds its length.
LEMMA AppendTotal ==
  ASSUME NEW q \in Seq(Entries), NEW e \in Entries
  PROVE  TotalBytes(Append(q, e)) = TotalBytes(q) + e.bytes
<1> DEFINE s == Append(q, e)
           n == Len(q)
<1>1. s \in Seq(Entries) /\ Len(s) = n + 1 /\ n \in Nat /\ s[n + 1] = e
  OBVIOUS
<1>2. \A k \in 1..n : q[k].bytes = s[k].bytes
  OBVIOUS
<1> HIDE DEF s
<1>3. Lines(q) /\ Lines(s)
  BY <1>1, EntriesAreLines
<1>4. PICK f : Totals(f, q) /\ TotalBytes(q) = f[n]
  BY <1>3, TotalsExist
<1>5. PICK g : Totals(g, s) /\ TotalBytes(s) = g[n + 1]
  BY <1>1, <1>3, TotalsExist
<1>6. f[n] = g[n]
  <2>1. n <= Len(q) /\ n <= Len(s)
    BY <1>1
  <2> HIDE DEF n
  <2> QED
    BY <1>1, <1>2, <1>3, <1>4, <1>5, <2>1, TotalsAgree
<1>7. n + 1 \in 1..Len(s) /\ (n + 1) - 1 = n
  BY <1>1
<1>8. g[n + 1] = g[(n + 1) - 1] + s[n + 1].bytes
  BY <1>5, <1>7 DEF Totals
<1> QED
  BY <1>1, <1>4, <1>5, <1>6, <1>7, <1>8 DEF s

-----------------------------------------------------------------------------
(* What KeepAt computes: Remove and purgeExpired.                          *)

Distinct(q) == \A j, k \in DOMAIN q : q[j].id = q[k].id => j = k

\* The list kept so far, after each of the first n rounds of the loop.
KeptTo(h, q, ks, V, n) ==
  /\ h \in [0..n -> V] /\ h[0] = <<>>
  /\ \A k \in 1..n : h[k] = IF k \in ks THEN Append(h[k - 1], q[k]) ELSE h[k - 1]
Kept(h, q, ks) == KeptTo(h, q, ks, Seq(Entries), Len(q))

\* A set of lists that a loop over the first n lines of q stays in.
Closed(V, q, n) == <<>> \in V /\ \A k \in 1..n, l \in V : Append(l, q[k]) \in V

\* The loop that keeps lines has a value after every round.
LEMMA KeptLoop ==
  ASSUME NEW q, NEW ks, NEW V, NEW n \in Nat, Closed(V, q, n)
  PROVE  \E f : KeptTo(f, q, ks, V, n)
<1> DEFINE Body(k, l) == IF k \in ks THEN Append(l, q[k]) ELSE l
           G == [p \in (1..n) \X V |-> Body(p[1], p[2])]
<1>1. ASSUME NEW k \in 1..n, NEW l \in V PROVE Body(k, l) \in V
  BY DEF Closed
<1> HIDE DEF Body
<1>2. Loop(V, <<>>, n, G)
  BY <1>1 DEF Closed, Loop
<1>3. PICK f : Values(f, V, <<>>, n, G)
  BY <1>2, LoopExists
<1>4. ASSUME NEW k \in 1..n PROVE f[k] = Body(k, f[k - 1])
  <2>1. k - 1 \in 0..n /\ f[k - 1] \in V
    BY <1>3 DEF Values
  <2> QED
    BY <1>3, <2>1 DEF Values
<1>5. f \in [0..n -> V] /\ f[0] = <<>>
  BY <1>3 DEF Values
<1> QED
  BY <1>4, <1>5 DEF Body, KeptTo

\* KeepAt is the list kept after the last round.
LEMMA KeptExists ==
  ASSUME NEW q \in Seq(Entries), NEW ks
  PROVE  \E h : Kept(h, q, ks) /\ KeepAt(q, ks) = h[Len(q)]
<1> DEFINE n == Len(q)
           V == Seq(Entries)
           Body(k, l) == IF k \in ks THEN Append(l, q[k]) ELSE l
           IsKept(f) == f = [k \in 0..n |-> IF k = 0 THEN <<>> ELSE IF k \in ks THEN Append(f[k - 1], q[k]) ELSE f[k - 1]]
           h == CHOOSE f : IsKept(f)
<1>0. n \in Nat /\ <<>> \in V /\ \A k \in 1..n : q[k] \in Entries
  BY EntriesAreLines
<1>b. ASSUME NEW k \in 1..n, NEW l \in V PROVE Body(k, l) \in V /\ Append(l, q[k]) \in V
  BY <1>0
<1>1. PICK f \in [0..n -> V] : f[0] = <<>> /\ \A k \in 1..n : f[k] = Body(k, f[k - 1])
  <2> HIDE DEF V, n
  <2>1. Closed(V, q, n)
    BY <1>0, <1>b DEF Closed
  <2>2. \E f : KeptTo(f, q, ks, V, n)
    BY <1>0, <2>1, KeptLoop
  <2> QED
    BY <2>2 DEF KeptTo
<1>3. IsKept(f)
  <2> HIDE DEF V, n
  <2>1. \A k \in 0..n : f[k] = IF k = 0 THEN <<>> ELSE Body(k, f[k - 1])
    <3> HIDE DEF Body
    <3> QED
      BY <1>0, <1>1
  <2> QED
    BY <2>1
<1>4. IsKept(h)
  BY <1>3
<1>5. KeepAt(q, ks) = h[n]
  BY DEF KeepAt
<1> HIDE DEF h
<1>6. h[0] = <<>> /\ \A k \in 1..n : h[k] = Body(k, h[k - 1])
  <2> HIDE DEF n
  <2>1. \A k \in 0..n : h[k] = IF k = 0 THEN <<>> ELSE Body(k, h[k - 1])
    BY <1>4
  <2> HIDE DEF Body
  <2> QED
    BY <1>0, <2>1
<1>7. \A k \in 0..n : h[k] \in V
  <2> DEFINE T == {k \in 0..n : h[k] \in V}
  <2> HIDE DEF n, V, Body
  <2>1. 0 \in T
    BY <1>0, <1>6
  <2>2. ASSUME NEW k \in 1..n, k - 1 \in T PROVE k \in T
    <3>1. h[k - 1] \in V /\ k \in 0..n
      BY <1>0, <2>2
    <3>2. Body(k, h[k - 1]) \in V
      BY <1>b, <3>1
    <3> QED
      BY <1>6, <3>1, <3>2
  <2>3. \A k \in 0..n : k \in T
    <3> HIDE DEF T
    <3> QED
      BY <1>0, <2>1, <2>2, UpTo
  <2> QED
    BY <2>3
<1>8. h \in [0..n -> V]
  <2> HIDE DEF V, n
  <2> QED
    BY <1>4, <1>7
<1> QED
  BY <1>5, <1>6, <1>8 DEF Kept, KeptTo

\* After every round the list holds exactly the lines to keep, in no more
\* space, and one per ID if the queue had one per ID.
LEMMA KeptSoFar ==
  ASSUME NEW q \in Seq(Entries), NEW ks, NEW h, Kept(h, q, ks), NEW f, Totals(f, q),
         NEW n \in 0..Len(q)
  PROVE  /\ \A j \in 1..Len(h[n]) : \E m \in 1..n : m \in ks /\ h[n][j] = q[m]
         /\ \A m \in 1..n : m \in ks => \E j \in 1..Len(h[n]) : h[n][j] = q[m]
         /\ TotalBytes(h[n]) <= f[n]
         /\ Distinct(q) => Distinct(h[n])
<1> DEFINE From(k) == \A j \in 1..Len(h[k]) : \E m \in 1..k : m \in ks /\ h[k][j] = q[m]
           All(k) == \A m \in 1..k : m \in ks => \E j \in 1..Len(h[k]) : h[k][j] = q[m]
           Small(k) == TotalBytes(h[k]) <= f[k]
           Single(k) == Distinct(q) => Distinct(h[k])
           T == {k \in 0..Len(q) : From(k) /\ All(k) /\ Small(k) /\ Single(k)}
<1>0. Len(q) \in Nat /\ DOMAIN q = 1..Len(q) /\ \A k \in 1..Len(q) : q[k] \in Entries
  BY EntriesAreLines
<1>1. 0 \in T
  <2>1. h[0] = <<>> /\ f[0] = 0 /\ Len(<<>>) = 0 /\ DOMAIN <<>> = {}
    BY DEF Kept, KeptTo, Totals
  <2>2. From(0) /\ All(0) /\ Single(0)
    BY <2>1 DEF Distinct
  <2>3. Small(0)
    BY <2>1, TotalBytesFacts
  <2> QED
    BY <1>0, <2>2, <2>3
<1>2. ASSUME NEW k \in 1..Len(q), k - 1 \in T PROVE k \in T
  <2> DEFINE l == h[k - 1]
             e == q[k]
  <2>0. /\ k - 1 \in 0..Len(q) /\ k \in 0..Len(q) /\ 1..(k - 1) \subseteq 1..k /\ k \in 1..k
        /\ k \notin 1..(k - 1)
    BY <1>0
  <2>1. l \in Seq(Entries) /\ e \in Entries /\ f[k] = f[k - 1] + e.bytes /\ f[k - 1] \in Nat /\ f[k] \in Nat
    BY <1>0, <2>0 DEF Kept, KeptTo, Totals
  <2>2. From(k - 1) /\ All(k - 1) /\ Small(k - 1) /\ Single(k - 1)
    BY <1>2
  <2>3. TotalBytes(l) \in Nat /\ e.bytes \in Nat
    BY <2>1, EntriesAreLines, FileQueueAssumption DEF Entries
  <2>4. CASE k \notin ks
    <3>1. h[k] = l
      BY <2>4 DEF Kept, KeptTo
    <3>2. From(k) /\ All(k) /\ Single(k)
      BY <2>0, <2>2, <2>4, <3>1, <1>0
    <3>3. Small(k)
      BY <2>1, <2>2, <2>3, <3>1
    <3> QED
      BY <2>0, <3>2, <3>3
  <2>5. CASE k \in ks
    <3>1. h[k] = Append(l, e)
      BY <2>5 DEF Kept, KeptTo
    <3>2. /\ Len(h[k]) = Len(l) + 1 /\ Len(l) \in Nat /\ h[k][Len(l) + 1] = e
          /\ \A j \in 1..Len(l) : h[k][j] = l[j]
          /\ DOMAIN h[k] = 1..(Len(l) + 1) /\ DOMAIN l = 1..Len(l)
      BY <2>1, <3>1
    <3>3. From(k)
      <4> SUFFICES ASSUME NEW j \in 1..Len(h[k]) PROVE \E m \in 1..k : m \in ks /\ h[k][j] = q[m]
        OBVIOUS
      <4>1. CASE j = Len(l) + 1
        BY <2>0, <2>5, <3>2, <4>1
      <4>2. CASE j \in 1..Len(l)
        BY <2>0, <2>2, <3>2, <4>2
      <4> QED
        BY <3>2, <4>1, <4>2
    <3>4. All(k)
      <4> SUFFICES ASSUME NEW m \in 1..k, m \in ks PROVE \E j \in 1..Len(h[k]) : h[k][j] = q[m]
        OBVIOUS
      <4>1. CASE m = k
        <5>1. Len(l) + 1 \in 1..Len(h[k])
          BY <3>2
        <5> QED
          BY <3>2, <4>1, <5>1
      <4>2. CASE m \in 1..(k - 1)
        <5>1. PICK j \in 1..Len(l) : l[j] = q[m]
          BY <2>2, <4>2
        <5>2. j \in 1..Len(h[k]) /\ h[k][j] = q[m]
          BY <3>2, <5>1
        <5> QED
          BY <5>2
      <4> QED
        BY <1>0, <4>1, <4>2
    <3>5. Small(k)
      <4>1. TotalBytes(h[k]) = TotalBytes(l) + e.bytes
        BY <2>1, <3>1, AppendTotal
      <4> QED
        BY <2>1, <2>2, <2>3, <4>1
    <3>6. Single(k)
      <4> SUFFICES ASSUME Distinct(q), NEW i \in 1..(Len(l) + 1), NEW j \in 1..(Len(l) + 1),
                          h[k][i].id = h[k][j].id
                   PROVE  i = j
        BY <3>2 DEF Distinct
      <4>1. ASSUME NEW a \in 1..Len(l) PROVE l[a].id # e.id
        <5>1. PICK m \in 1..(k - 1) : l[a] = q[m]
          BY <2>2, <4>1
        <5>2. m \in DOMAIN q /\ k \in DOMAIN q /\ m # k
          BY <1>0, <2>0, <5>1
        <5> QED
          BY <5>1, <5>2 DEF Distinct
      <4>2. CASE i \in 1..Len(l) /\ j \in 1..Len(l)
        BY <2>2, <3>2, <4>2, ZenonT(40) DEF Distinct
      <4>3. CASE i = Len(l) + 1 /\ j \in 1..Len(l)
        BY <3>2, <4>1, <4>3
      <4>4. CASE j = Len(l) + 1 /\ i \in 1..Len(l)
        BY <3>2, <4>1, <4>4
      <4>5. CASE i = Len(l) + 1 /\ j = Len(l) + 1
        BY <4>5
      <4>6. (i \in 1..Len(l) \/ i = Len(l) + 1) /\ (j \in 1..Len(l) \/ j = Len(l) + 1)
        BY <2>1
      <4> HIDE DEF l
      <4> QED
        BY <4>2, <4>3, <4>4, <4>5, <4>6
    <3> HIDE DEF From, All, Small, Single
    <3> QED
      BY <2>0, <3>3, <3>4, <3>5, <3>6
  <2> QED
    BY <2>4, <2>5
<1>3. n \in T
  <2> HIDE DEF T
  <2> QED
    BY <1>0, <1>1, <1>2, UpTo
<1> QED
  BY <1>3

\* KeepAt returns the lines at the given positions and nothing else.
LEMMA KeepAtFacts ==
  ASSUME NEW q \in Seq(Entries), NEW ks \in SUBSET DOMAIN q
  PROVE  /\ KeepAt(q, ks) \in Seq(Entries)
         /\ \A j \in DOMAIN KeepAt(q, ks) : \E m \in ks : KeepAt(q, ks)[j] = q[m]
         /\ \A m \in ks : \E j \in DOMAIN KeepAt(q, ks) : KeepAt(q, ks)[j] = q[m]
         /\ TotalBytes(KeepAt(q, ks)) <= TotalBytes(q)
         /\ Distinct(q) => Distinct(KeepAt(q, ks))
<1> DEFINE n == Len(q)
<1>1. PICK h : Kept(h, q, ks) /\ KeepAt(q, ks) = h[n]
  BY KeptExists
<1>2. PICK f : Totals(f, q) /\ TotalBytes(q) = f[n]
  BY EntriesAreLines, TotalsExist
<1>3. n \in 0..Len(q) /\ DOMAIN q = 1..n /\ h[n] \in Seq(Entries) /\ DOMAIN h[n] = 1..Len(h[n])
  BY <1>1, EntriesAreLines DEF Kept, KeptTo
<1>4. /\ \A j \in 1..Len(h[n]) : \E m \in 1..n : m \in ks /\ h[n][j] = q[m]
      /\ \A m \in 1..n : m \in ks => \E j \in 1..Len(h[n]) : h[n][j] = q[m]
      /\ TotalBytes(h[n]) <= f[n]
      /\ Distinct(q) => Distinct(h[n])
  <2> HIDE DEF n
  <2> QED
    BY <1>1, <1>2, <1>3, KeptSoFar
<1> QED
  BY <1>1, <1>2, <1>3, <1>4

\* Removing an ID leaves the entries of the others, in no more space.
LEMMA WithoutFacts ==
  ASSUME NEW q \in Seq(Entries), NEW i
  PROVE  /\ Without(q, i) \in Seq(Entries)
         /\ \A k \in DOMAIN q : q[k].id # i => q[k].id \in IdsOf(Without(q, i))
         /\ TotalBytes(Without(q, i)) <= TotalBytes(q)
         /\ Distinct(q) => Distinct(Without(q, i))
<1> DEFINE ks == {k \in DOMAIN q : q[k].id # i}
<1>1. ks \in SUBSET DOMAIN q /\ Without(q, i) = KeepAt(q, ks)
  BY DEF Without
<1>2. \A k \in DOMAIN q : q[k].id # i => k \in ks
  OBVIOUS
<1> HIDE DEF ks
<1> QED
  BY <1>1, <1>2, KeepAtFacts DEF IdsOf

\* The same for the retention purge.
LEMMA UnexpiredFacts ==
  ASSUME NEW q \in Seq(Entries), NEW t
  PROVE  /\ Unexpired(q, t) \in Seq(Entries)
         /\ \A k \in DOMAIN q : q[k].at >= t => q[k].id \in IdsOf(Unexpired(q, t))
         /\ TotalBytes(Unexpired(q, t)) <= TotalBytes(q)
         /\ Distinct(q) => Distinct(Unexpired(q, t))
<1> DEFINE ks == {k \in DOMAIN q : q[k].at >= t}
<1>1. ks \in SUBSET DOMAIN q /\ Unexpired(q, t) = KeepAt(q, ks)
  BY DEF Unexpired
<1>2. \A k \in DOMAIN q : q[k].at >= t => k \in ks
  OBVIOUS
<1> HIDE DEF ks
<1> QED
  BY <1>1, <1>2, KeepAtFacts DEF IdsOf

-----------------------------------------------------------------------------
(* What Upsert and Compact compute: Enqueue and writeAll.                  *)

\* An ID that is in a list has a first place there.
LEMMA FirstOfId ==
  ASSUME NEW q \in Seq(Entries), NEW i \in IdsOf(q)
  PROVE  \E k \in DOMAIN q : q[k].id = i /\ \A j \in 1..(k - 1) : q[j].id # i
<1> DEFINE S == {k \in DOMAIN q : q[k].id = i}
<1>0. Len(q) \in Nat /\ DOMAIN q = 1..Len(q)
  BY EntriesAreLines
<1>1. S \in SUBSET Nat /\ S # {}
  BY <1>0 DEF IdsOf
<1>2. PICK k \in S : \A j \in S : k <= j
  <2> HIDE DEF S
  <2> QED
    BY <1>1, LeastNumber
<1>3. k \in 1..Len(q) /\ q[k].id = i
  BY <1>0
<1>4. ASSUME NEW j \in 1..(k - 1) PROVE q[j].id # i
  <2>1. j \in 1..Len(q) /\ ~(k <= j)
    BY <1>0, <1>3
  <2> QED
    BY <1>0, <1>2, <2>1
<1> QED
  BY <1>0, <1>3, <1>4

\* Enqueue replaces the entry of its ID or appends one: IDs stay distinct.
LEMMA UpsertFacts ==
  ASSUME NEW q \in Seq(Entries), NEW i \in Ids, NEW t \in 0..MaxTime, NEW b \in Sizes
  PROVE  /\ Upsert(q, i, t, b) \in Seq(Entries)
         /\ Distinct(q) => Distinct(Upsert(q, i, t, b))
<1>0. Len(q) \in Nat /\ DOMAIN q = 1..Len(q) /\ \A k \in 1..Len(q) : q[k] \in Entries
  BY EntriesAreLines
<1>e. \A n \in Nat : Entry(i, t, n, b) \in Entries /\ Entry(i, t, n, b).id = i
  BY DEF Entry, Entries
<1>1. CASE i \in IdsOf(q)
  <2> DEFINE First(k) == q[k].id = i /\ \A j \in 1..(k - 1) : q[j].id # i
             k0 == CHOOSE k \in DOMAIN q : First(k)
             e == Entry(i, t, q[k0].retry + 1, b)
             s == [q EXCEPT ![k0] = e]
  <2>1. \E k \in DOMAIN q : First(k)
    BY <1>1, FirstOfId
  <2>2. k0 \in DOMAIN q /\ q[k0].id = i
    BY <2>1
  <2> HIDE DEF k0
  <2>3. e \in Entries /\ e.id = i
    <3>1. q[k0].retry + 1 \in Nat
      BY <1>0, <2>2 DEF Entries
    <3> QED
      BY <1>e, <3>1
  <2>4. Upsert(q, i, t, b) = s
    BY <1>1 DEF Upsert, k0
  <2> HIDE DEF e
  <2>5. s \in Seq(Entries) /\ DOMAIN s = DOMAIN q
    BY <1>0, <2>2, <2>3
  <2>6. \A k \in DOMAIN q : s[k].id = q[k].id
    BY <2>2, <2>3
  <2> HIDE DEF s
  <2> QED
    BY <2>4, <2>5, <2>6 DEF Distinct
<1>2. CASE i \notin IdsOf(q)
  <2> DEFINE e == Entry(i, t, 0, b)
             s == Append(q, e)
  <2>1. e \in Entries /\ e.id = i
    BY <1>e
  <2>2. Upsert(q, i, t, b) = s
    BY <1>2 DEF Upsert
  <2> HIDE DEF e
  <2>3. /\ s \in Seq(Entries) /\ DOMAIN s = 1..(Len(q) + 1) /\ s[Len(q) + 1] = e
        /\ \A k \in 1..Len(q) : s[k] = q[k]
    BY <1>0, <2>1
  <2> HIDE DEF s
  <2>4. \A k \in 1..Len(q) : s[k].id # i
    BY <1>0, <1>2, <2>3 DEF IdsOf
  <2>5. ASSUME Distinct(q), NEW j \in DOMAIN s, NEW k \in DOMAIN s, s[j].id = s[k].id PROVE j = k
    <3>1. CASE j \in 1..Len(q) /\ k \in 1..Len(q)
      BY <1>0, <2>3, <2>5, <3>1 DEF Distinct
    <3>2. CASE j = Len(q) + 1 \/ k = Len(q) + 1
      BY <1>0, <2>1, <2>3, <2>4, <2>5, <3>2
    <3> QED
      BY <1>0, <2>3, <3>1, <3>2
  <2> QED
    BY <2>2, <2>3, <2>5 DEF Distinct
<1> QED
  BY <1>1, <1>2

\* The size bound has a place to start from: a list is dropped whole at worst.
LEMMA CompactStarts ==
  ASSUME NEW q \in Seq(Entries)
  PROVE  \E k \in 1..(Len(q) + 1) :
           /\ TotalBytes(SubSeq(q, k, Len(q))) <= MaxBytes
           /\ \A j \in 1..(k - 1) : TotalBytes(SubSeq(q, j, Len(q))) > MaxBytes
<1> DEFINE n == Len(q)
           Rest(k) == SubSeq(q, k, n)
           Fits(k) == TotalBytes(Rest(k)) <= MaxBytes
           S == {k \in 1..(n + 1) : Fits(k)}
<1>0. n \in Nat /\ MaxBytes \in Nat
  BY EntriesAreLines, FileQueueAssumption
<1>1. ASSUME NEW k \in 1..(n + 1) PROVE TotalBytes(Rest(k)) \in Nat
  <2>1. Rest(k) \in Seq(Entries)
    BY <1>0
  <2> HIDE DEF Rest
  <2> QED
    BY <2>1, EntriesAreLines
<1>2. Rest(n + 1) = <<>>
  BY <1>0
<1>3. S \in SUBSET Nat /\ n + 1 \in S
  <2> HIDE DEF Rest
  <2> QED
    BY <1>0, <1>2, TotalBytesFacts
<1>4. PICK k \in S : \A j \in S : k <= j
  <2> HIDE DEF S
  <2> QED
    BY <1>3, LeastNumber
<1>5. k \in 1..(n + 1) /\ Fits(k)
  OBVIOUS
<1>6. ASSUME NEW j \in 1..(k - 1) PROVE TotalBytes(Rest(j)) > MaxBytes
  <2>1. j \in 1..(n + 1) /\ ~(k <= j)
    BY <1>0, <1>5
  <2>2. ~Fits(j)
    BY <1>4, <2>1
  <2>3. TotalBytes(Rest(j)) \in Nat
    BY <1>1, <2>1
  <2> HIDE DEF Rest
  <2> QED
    BY <1>0, <2>2, <2>3
<1> QED
  BY <1>5, <1>6

\* The size bound leaves the end of a list, within the bound, and leaves a
\* list alone that is within it.
LEMMA CompactFacts ==
  ASSUME NEW q \in Seq(Entries)
  PROVE  /\ Compact(q, MaxBytes) \in Seq(Entries)
         /\ Distinct(q) => Distinct(Compact(q, MaxBytes))
         /\ TotalBytes(Compact(q, MaxBytes)) <= MaxBytes
         /\ TotalBytes(q) <= MaxBytes => Compact(q, MaxBytes) = q
<1> DEFINE n == Len(q)
           Rest(k) == SubSeq(q, k, n)
           First(k) == TotalBytes(Rest(k)) <= MaxBytes /\ \A j \in 1..(k - 1) : TotalBytes(Rest(j)) > MaxBytes
           from == CHOOSE k \in 1..(n + 1) : First(k)
<1>0. n \in Nat /\ DOMAIN q = 1..n /\ (\A k \in 1..n : q[k] \in Entries) /\ MaxBytes \in Nat
  BY EntriesAreLines, FileQueueAssumption
<1>1. ASSUME NEW k \in 1..(n + 1)
      PROVE  /\ Rest(k) \in Seq(Entries) /\ Len(Rest(k)) = n - k + 1
             /\ \A j \in 1..(n - k + 1) : Rest(k)[j] = q[k + j - 1]
             /\ TotalBytes(Rest(k)) \in Nat
  <2>1. /\ Rest(k) \in Seq(Entries) /\ Len(Rest(k)) = n - k + 1
        /\ \A j \in 1..(n - k + 1) : Rest(k)[j] = q[k + j - 1]
    BY <1>0
  <2> HIDE DEF Rest
  <2> QED
    BY <2>1, EntriesAreLines
<1>2. Rest(n + 1) = <<>> /\ Rest(1) = q
  BY <1>0
<1>3. \E k \in 1..(n + 1) : First(k)
  BY CompactStarts
<1>4. from \in 1..(n + 1) /\ First(from)
  BY <1>3
<1>5. Compact(q, MaxBytes) = Rest(from)
  BY DEF Compact
<1> HIDE DEF from
<1>6. Distinct(q) => Distinct(Rest(from))
  <2> SUFFICES ASSUME Distinct(q), NEW j \in DOMAIN Rest(from), NEW k \in DOMAIN Rest(from),
                      Rest(from)[j].id = Rest(from)[k].id
               PROVE  j = k
    BY DEF Distinct
  <2> DEFINE m == from
  <2>1. /\ j \in 1..(n - m + 1) /\ k \in 1..(n - m + 1)
        /\ Rest(m)[j] = q[m + j - 1] /\ Rest(m)[k] = q[m + k - 1]
    <3>1. DOMAIN Rest(m) = 1..(n - m + 1)
      BY <1>1, <1>4
    <3> QED
      BY <1>1, <1>4, <3>1
  <2>2. m + j - 1 \in DOMAIN q /\ m + k - 1 \in DOMAIN q
    BY <1>0, <1>4, <2>1, SMTT(20)
  <2>3. m + j - 1 = m + k - 1
    BY <2>1, <2>2 DEF Distinct
  <2> QED
    BY <1>0, <1>4, <2>1, <2>3
<1>7. ASSUME TotalBytes(q) <= MaxBytes PROVE Rest(from) = q
  <2>1. from = 1
    <3> SUFFICES ASSUME from # 1 PROVE FALSE
      OBVIOUS
    <3>1. 1 \in 1..(from - 1)
      BY <1>0, <1>4
    <3>2. TotalBytes(q) > MaxBytes
      BY <1>2, <1>4, <3>1
    <3>3. TotalBytes(q) \in Nat
      BY EntriesAreLines
    <3> QED
      BY <1>0, <1>7, <3>2, <3>3
  <2> QED
    BY <1>2, <2>1
<1> QED
  BY <1>1, <1>4, <1>5, <1>6, <1>7

\* The size bound takes only entries that do not fit together with all that
\* stands behind them.
LEMMA CompactKeeps ==
  ASSUME NEW q \in Seq(Entries), NEW k \in DOMAIN q,
         ~(TotalBytes(SubSeq(q, k, Len(q))) > MaxBytes)
  PROVE  q[k].id \in IdsOf(Compact(q, MaxBytes))
<1> DEFINE n == Len(q)
           Rest(j) == SubSeq(q, j, n)
           First(j) == TotalBytes(Rest(j)) <= MaxBytes /\ \A i \in 1..(j - 1) : TotalBytes(Rest(i)) > MaxBytes
           from == CHOOSE j \in 1..(n + 1) : First(j)
<1>0. n \in Nat /\ DOMAIN q = 1..n
  BY EntriesAreLines
<1>1. \E j \in 1..(n + 1) : First(j)
  BY CompactStarts
<1>2. from \in 1..(n + 1) /\ First(from)
  BY <1>1
<1>3. Compact(q, MaxBytes) = Rest(from)
  BY DEF Compact
<1> HIDE DEF from
<1>4. from <= k
  BY <1>0, <1>2
<1>5. /\ k - from + 1 \in DOMAIN Rest(from)
      /\ Rest(from)[k - from + 1] = q[k]
  BY <1>0, <1>2, <1>4
<1> QED
  BY <1>3, <1>5 DEF IdsOf

\* Lists that agree on IDs and lengths are cut at the same place.
LEMMA SameRest ==
  ASSUME NEW q \in Seq(Entries), NEW s \in Seq(Entries), Len(q) = Len(s),
         \A k \in DOMAIN q : q[k].bytes = s[k].bytes,
         NEW k \in DOMAIN q
  PROVE  TotalBytes(SubSeq(q, k, Len(q))) = TotalBytes(SubSeq(s, k, Len(s)))
<1> DEFINE n == Len(q)
           a == SubSeq(q, k, n)
           b == SubSeq(s, k, n)
<1>0. n \in Nat /\ DOMAIN q = 1..n /\ DOMAIN s = 1..n
  BY EntriesAreLines
<1>1. /\ a \in Seq(Entries) /\ b \in Seq(Entries) /\ Len(a) = n - k + 1 /\ Len(b) = n - k + 1
      /\ \A j \in 1..(n - k + 1) : a[j] = q[k + j - 1] /\ b[j] = s[k + j - 1]
  BY <1>0
<1> HIDE DEF a, b
<1>2. Lines(a) /\ Lines(b)
  BY <1>1, EntriesAreLines
<1>3. PICK f : Totals(f, a) /\ TotalBytes(a) = f[Len(a)]
  BY <1>2, TotalsExist
<1>4. PICK g : Totals(g, b) /\ TotalBytes(b) = g[Len(b)]
  BY <1>2, TotalsExist
<1>5. \A j \in 1..(n - k + 1) : a[j].bytes = b[j].bytes
  BY <1>0, <1>1
<1>6. f[n - k + 1] = g[n - k + 1]
  <2>1. n - k + 1 \in Nat /\ n - k + 1 <= Len(a) /\ n - k + 1 <= Len(b)
    BY <1>0, <1>1
  <2> HIDE DEF n
  <2> QED
    BY <1>2, <1>3, <1>4, <1>5, <2>1, TotalsAgree
<1> QED
  BY <1>1, <1>3, <1>4, <1>6 DEF a, b

\* When an entry is stored decides neither who is in the list nor how long the
\* lines are; the IDs are those of the old list and the new one.
LEMMA UpsertAnytime ==
  ASSUME NEW q \in Seq(Entries), NEW i \in Ids, NEW b \in Sizes,
         NEW t \in 0..MaxTime, NEW u \in 0..MaxTime
  PROVE  /\ Len(Upsert(q, i, t, b)) = Len(Upsert(q, i, u, b))
         /\ \A k \in DOMAIN Upsert(q, i, t, b) :
              /\ Upsert(q, i, t, b)[k].id = Upsert(q, i, u, b)[k].id
              /\ Upsert(q, i, t, b)[k].bytes = Upsert(q, i, u, b)[k].bytes
         /\ IdsOf(q) \cup {i} \subseteq IdsOf(Upsert(q, i, t, b))
<1> DEFINE New(n, x) == Entry(i, x, n, b)
<1>0. Len(q) \in Nat /\ DOMAIN q = 1..Len(q) /\ \A k \in 1..Len(q) : q[k] \in Entries
  BY EntriesAreLines
<1>e. \A n, x : New(n, x).id = i /\ New(n, x).bytes = b
  BY DEF Entry
<1> HIDE DEF New
<1>1. CASE i \in IdsOf(q)
  <2> DEFINE k0 == CHOOSE k \in DOMAIN q : q[k].id = i /\ \A j \in 1..(k - 1) : q[j].id # i
             s(x) == [q EXCEPT ![k0] = New(q[k0].retry + 1, x)]
  <2>1. \A x : Upsert(q, i, x, b) = s(x)
    BY <1>1 DEF Upsert, New
  <2> HIDE DEF k0
  <2>2. \A x : /\ Len(s(x)) = Len(q) /\ DOMAIN s(x) = DOMAIN q
               /\ \A k \in DOMAIN q : s(x)[k] = IF k = k0 THEN New(q[k0].retry + 1, x) ELSE q[k]
    BY <1>0
  <2>3. k0 \in DOMAIN q /\ q[k0].id = i
    <3>1. \E k \in DOMAIN q : q[k].id = i /\ \A j \in 1..(k - 1) : q[j].id # i
      BY <1>1, FirstOfId
    <3> QED
      BY <3>1 DEF k0
  <2> HIDE DEF s
  <2>4. \A k \in DOMAIN q : s(t)[k].id = s(u)[k].id /\ s(t)[k].bytes = s(u)[k].bytes
    BY <1>e, <2>2
  <2>5. \A k \in DOMAIN q : s(t)[k].id = q[k].id
    BY <1>e, <2>2, <2>3
  <2>6. IdsOf(q) \cup {i} \subseteq IdsOf(s(t))
    BY <1>1, <2>2, <2>5 DEF IdsOf
  <2> QED
    BY <2>1, <2>2, <2>4, <2>6
<1>2. CASE i \notin IdsOf(q)
  <2> DEFINE s(x) == Append(q, New(0, x))
  <2>1. \A x : Upsert(q, i, x, b) = s(x)
    BY <1>2 DEF Upsert, New
  <2>2. \A x : /\ Len(s(x)) = Len(q) + 1 /\ DOMAIN s(x) = 1..(Len(q) + 1)
               /\ \A k \in 1..(Len(q) + 1) : s(x)[k] = IF k = Len(q) + 1 THEN New(0, x) ELSE q[k]
    BY <1>0
  <2> HIDE DEF s
  <2>3. \A k \in 1..(Len(q) + 1) : s(t)[k].id = s(u)[k].id /\ s(t)[k].bytes = s(u)[k].bytes
    BY <1>e, <2>2
  <2>4. IdsOf(q) \cup {i} \subseteq IdsOf(s(t))
    <3>1. Len(q) + 1 \in DOMAIN s(t) /\ s(t)[Len(q) + 1].id = i
      BY <1>0, <1>e, <2>2
    <3>2. \A k \in DOMAIN q : k \in DOMAIN s(t) /\ s(t)[k].id = q[k].id
      BY <1>0, <2>2
    <3> QED
      BY <3>1, <3>2 DEF IdsOf
  <2> QED
    BY <2>1, <2>2, <2>3, <2>4
<1> QED
  BY <1>1, <1>2

-----------------------------------------------------------------------------
(* Operations and their outcomes.                                          *)

\* The kinds of operations and what each carries.
LEMMA OpKinds ==
  ASSUME NEW o \in Ops
  PROVE  \/ o.kind = "enqueue" /\ o.id \in Ids /\ o.bytes \in Sizes
         \/ o.kind = "remove" /\ o.id \in Ids
         \/ o.kind = "purge"
BY DEF Ops

\* What Read computes is an outcome of the operation.
LEMMA ChangedIsOutcome ==
  ASSUME TypeOK, NEW o \in Ops
  PROVE  Changed(file, o) \in Outcomes(o)
<1>0. now \in Nat /\ now \in 0..MaxTime /\ Retention \in Nat /\ MaxTime \in Nat
  BY FileQueueAssumption DEF TypeOK
<1>1. CASE o.kind = "enqueue"
  BY <1>0, <1>1 DEF Changed, Outcomes
<1>2. CASE o.kind = "remove"
  BY <1>2 DEF Changed, Outcomes
<1>3. CASE o.kind = "purge"
  <2> DEFINE t == IF now >= Retention THEN now - Retention ELSE 0
  <2>1. t \in 0..MaxTime /\ (t = 0 \/ t + Retention <= now)
    BY <1>0
  <2>2. Changed(file, o) = Unexpired(file, t)
    BY <1>3 DEF Changed
  <2> HIDE DEF t
  <2> QED
    BY <1>3, <2>1, <2>2 DEF Outcomes
<1> QED
  BY <1>1, <1>2, <1>3, OpKinds

\* An outcome is a well-formed list with distinct IDs, and only an enqueue can
\* make it too long.
LEMMA OutcomeFacts ==
  ASSUME FileSound, NEW o \in Ops, NEW l \in Outcomes(o)
  PROVE  /\ l \in Seq(Entries) /\ Distinct(l)
         /\ o.kind # "enqueue" => Compact(l, MaxBytes) = l
<1>0. /\ file \in Seq(Entries) /\ Distinct(file) /\ TotalBytes(file) <= MaxBytes
      /\ now \in 0..MaxTime /\ MaxTime \in Nat /\ MaxBytes \in Nat
  BY FileQueueAssumption DEF FileSound, TypeOK, UniqueIds, Distinct, SizeBounded
<1>c. ASSUME l \in Seq(Entries), TotalBytes(l) <= TotalBytes(file) PROVE Compact(l, MaxBytes) = l
  <2>1. TotalBytes(l) \in Nat /\ TotalBytes(file) \in Nat
    BY <1>0, <1>c, EntriesAreLines
  <2>2. TotalBytes(l) <= MaxBytes
    BY <1>0, <1>c, <2>1
  <2> QED
    BY <1>c, <2>2, CompactFacts
<1>1. CASE o.kind = "enqueue" /\ o.id \in Ids /\ o.bytes \in Sizes
  <2>1. PICK t \in 0..now : l = Upsert(file, o.id, t, o.bytes)
    BY <1>1 DEF Outcomes
  <2>2. t \in 0..MaxTime
    BY <1>0
  <2> QED
    BY <1>0, <1>1, <2>1, <2>2, UpsertFacts
<1>2. CASE o.kind = "remove"
  <2>1. l = Without(file, o.id)
    BY <1>2 DEF Outcomes
  <2> QED
    BY <1>0, <1>c, <2>1, WithoutFacts
<1>3. CASE o.kind = "purge"
  <2>1. PICK t : l = Unexpired(file, t)
    BY <1>3 DEF Outcomes
  <2> QED
    BY <1>0, <1>c, <2>1, UnexpiredFacts
<1> QED
  BY <1>1, <1>2, <1>3, OpKinds

\* What an enqueue writes holds all it has no reason to push out.
LEMMA EnqueueKeeps ==
  ASSUME FileSound, NEW o \in Ops, o.kind = "enqueue", NEW l \in Outcomes(o),
         NEW i \in (IdsOf(file) \cup {o.id}) \ PushedOut(o)
  PROVE  i \in IdsOf(Compact(l, MaxBytes))
<1>0. /\ file \in Seq(Entries) /\ now \in 0..MaxTime /\ MaxTime \in Nat
      /\ o.id \in Ids /\ o.bytes \in Sizes
  BY OpKinds, FileQueueAssumption DEF FileSound, TypeOK
<1>1. PICK t \in 0..now : l = Upsert(file, o.id, t, o.bytes)
  BY DEF Outcomes
<1>2. PICK q : q = Upsert(file, o.id, now, o.bytes)
  OBVIOUS
<1>3. t \in 0..MaxTime
  BY <1>0
<1>4. q \in Seq(Entries) /\ l \in Seq(Entries)
  BY <1>0, <1>1, <1>2, <1>3, UpsertFacts
<1>5. /\ Len(l) = Len(q) /\ IdsOf(file) \cup {o.id} \subseteq IdsOf(l)
      /\ \A k \in DOMAIN l : l[k].id = q[k].id /\ l[k].bytes = q[k].bytes
  BY <1>0, <1>1, <1>2, <1>3, UpsertAnytime
<1>6. PICK k \in DOMAIN l : l[k].id = i
  BY <1>5 DEF IdsOf
<1>7. DOMAIN l = DOMAIN q
  BY <1>4, <1>5, EntriesAreLines
<1>8. ~(TotalBytes(SubSeq(q, k, Len(q))) > MaxBytes)
  BY <1>2, <1>5, <1>6, <1>7 DEF PushedOut
<1>9. TotalBytes(SubSeq(l, k, Len(l))) = TotalBytes(SubSeq(q, k, Len(q)))
  BY <1>4, <1>5, <1>6, SameRest
<1> QED
  BY <1>4, <1>6, <1>8, <1>9, CompactKeeps

\* A rename installs one outcome of the caller's operation, whole.
LEMMA RenameInstalls ==
  ASSUME IInv, NEW c \in Callers, Rename(c)
  PROVE  /\ op[c] \in Ops /\ tmp = want[c] /\ file' = want[c]
         /\ \E l \in Outcomes(op[c]) : file' = Compact(l, MaxBytes)
<1>1. pc[c] = "write" /\ Len(tmp) = Len(want[c]) /\ file' = tmp
  BY DEF Rename
<1>2. /\ tmp \in Seq(Entries) /\ want[c] \in Seq(Entries)
      /\ \A k \in DOMAIN tmp : tmp[k] = want[c][k]
  BY <1>1 DEF IInv, FileSound, TypeOK, Writing
<1>3. tmp = want[c]
  BY <1>1, <1>2
<1>4. op[c] \in Ops
  BY <1>1 DEF IInv, Exclusive
<1>5. \E l \in Outcomes(op[c]) : want[c] = Compact(l, MaxBytes)
  BY <1>1 DEF IInv, Writing
<1> QED
  BY <1>1, <1>3, <1>4, <1>5

\* Only a rename changes the file.
LEMMA OnlyRename ==
  ASSUME [Next]_vars
  PROVE  (\E c \in Callers : Rename(c)) \/ UNCHANGED <<file, kept>>
BY DEF Next, CallerStep, vars, fileVars, Call, Lock, Read, ReadOnly, Write, WriteFails, Unlock,
       PageList, PageSlice, PageSent, Crash, Tick

-----------------------------------------------------------------------------
(* IInv is inductive.                                                      *)

\* An empty queue with nobody at work satisfies the inductive invariant.
LEMMA InitIInv == Init => IInv
<1> SUFFICES ASSUME Init PROVE IInv
  OBVIOUS
<1>0. <<>> \in Seq(Entries) /\ Len(<<>>) = 0 /\ DOMAIN <<>> = {}
  OBVIOUS
<1>1. TypeOK
  <2>1. NoPage \in Pages
    BY DEF NoPage, Pages
  <2>2. 0 \in 0..MaxTime /\ 0 \in 0..MaxOps
    BY FileQueueAssumption
  <2> QED
    BY <1>0, <2>1, <2>2 DEF Init, TypeOK
<1>2. UniqueIds
  BY <1>0 DEF Init, UniqueIds
<1>3. SizeBounded
  BY TotalBytesFacts, FileQueueAssumption DEF Init, SizeBounded
<1>4. Exclusive /\ Writing /\ AcceptedKept
  BY DEF Init, Exclusive, Writing, AcceptedKept
<1>5. PageFresh /\ PageInBounds
  BY DEF Init, PageFresh, PageInBounds, NoPage
<1> QED
  BY <1>1, <1>2, <1>3, <1>4, <1>5 DEF IInv, FileSound

\* Every step keeps the types.
LEMMA NextType == IInv /\ [Next]_vars => TypeOK'
<1> SUFFICES ASSUME IInv, [Next]_vars PROVE TypeOK'
  OBVIOUS
<1>0. TypeOK
  BY DEF IInv, FileSound
<1>n. <<>> \in Seq(Entries)
  OBVIOUS
<1> USE DEF TypeOK
<1>1. CASE UNCHANGED vars
  BY <1>0, <1>1 DEF vars, fileVars, pageVars
<1>2. ASSUME NEW c \in Callers, NEW o \in Ops, Call(c, o) PROVE TypeOK'
  <2>1. ops' \in 0..MaxOps
    BY <1>0, <1>2, FileQueueAssumption DEF Call
  <2>2. pc' \in [Callers -> {"idle", "lock", "read", "write", "unlock"}] /\ op' \in [Callers -> Ops \cup {NoOp}]
    BY <1>0, <1>2 DEF Call, Goto
  <2> QED
    BY <1>0, <1>2, <2>1, <2>2 DEF Call, fileVars, pageVars
<1>3. ASSUME NEW c \in Callers, CallerStep(c) PROVE TypeOK'
  <2>p. ASSUME NEW l \in {"idle", "lock", "read", "write", "unlock"}, Goto(c, l)
        PROVE  pc' \in [Callers -> {"idle", "lock", "read", "write", "unlock"}]
    BY <1>0, <2>p DEF Goto
  <2>1. CASE Lock(c)
    BY <1>0, <2>1, <2>p DEF Lock, fileVars, pageVars
  <2>2. CASE Read(c)
    <3>1. op[c] \in Ops
      BY <2>2 DEF Read, IInv, Exclusive
    <3>2. Changed(file, op[c]) \in Seq(Entries)
      BY <1>0, <3>1, ChangedIsOutcome, OutcomeFacts DEF IInv
    <3>3. Compact(Changed(file, op[c]), MaxBytes) \in Seq(Entries)
      BY <3>2, CompactFacts
    <3>4. want' \in [Callers -> Seq(Entries)]
      BY <1>0, <2>2, <3>3 DEF Read
    <3> QED
      BY <1>0, <1>n, <2>2, <2>p, <3>4 DEF Read, pageVars
  <2>3. CASE ReadOnly(c) \/ WriteFails(c)
    BY <1>0, <2>3, <2>p DEF ReadOnly, WriteFails, fileVars, pageVars
  <2>4. CASE Write(c)
    <3>1. tmp' \in Seq(Entries)
      <4>1. tmp \in Seq(Entries) /\ want[c] \in Seq(Entries) /\ Len(tmp) < Len(want[c])
        BY <1>0, <2>4 DEF Write
      <4>2. want[c][Len(tmp) + 1] \in Entries
        BY <4>1
      <4> QED
        BY <2>4, <4>1, <4>2 DEF Write
    <3> QED
      BY <1>0, <2>4, <3>1 DEF Write, pageVars
  <2>5. CASE Rename(c)
    <3>1. op[c] \in Ops
      BY <2>5, RenameInstalls
    <3>2. kept' \subseteq Ids
      BY <1>0, <2>5, <3>1, OpKinds DEF Rename
    <3>3. grew' \in BOOLEAN
      BY <1>0, <2>5 DEF Rename
    <3> QED
      BY <1>0, <1>n, <2>5, <2>p, <3>2, <3>3 DEF Rename
  <2>6. CASE Unlock(c)
    BY <1>0, <1>n, <2>6, <2>p DEF Unlock, fileVars, pageVars
  <2> QED
    BY <1>3, <2>1, <2>2, <2>3, <2>4, <2>5, <2>6 DEF CallerStep
<1>4. ASSUME NEW limit \in Limits, NEW offset \in Offsets, PageList(limit, offset) PROVE TypeOK'
  <2>1. limit \in Nat /\ offset \in Nat /\ Len(file) \in Nat
    BY <1>0, FileQueueAssumption
  <2>2. page' \in Pages
    BY <1>4, <2>1 DEF PageList, Pages, Lesser
  <2> QED
    BY <1>0, <1>4, <2>2 DEF PageList, fileVars
<1>5. CASE PageSlice
  <2>1. PICK total \in {page.fetched} \cup (IF Readable THEN {Len(file)} ELSE {}) :
          LET from == Lesser(page.offset, total)
          IN  page' = [page EXCEPT !.at = "sliced", !.offset = from,
                                   !.end = Lesser(from + page.limit, total)]
    BY <1>5 DEF PageSlice
  <2>2. total \in Nat /\ page \in Pages
    BY <1>0 DEF Pages
  <2>3. page' \in Pages
    <3> DEFINE from == Lesser(page.offset, total)
               end == Lesser(from + page.limit, total)
    <3>1. from \in Nat /\ end \in Nat
      BY <2>2 DEF Pages, Lesser
    <3>2. page' = [page EXCEPT !.at = "sliced", !.offset = from, !.end = end]
      BY <2>1
    <3> HIDE DEF from, end
    <3> QED
      BY <2>2, <3>1, <3>2 DEF Pages
  <2> QED
    BY <1>0, <1>5, <2>3 DEF PageSlice, fileVars
<1>6. CASE PageSent
  BY <1>0, <1>6 DEF PageSent, NoPage, Pages, fileVars
<1>7. CASE Crash
  BY <1>0, <1>n, <1>7 DEF Crash, NoPage, Pages, fileVars
<1>8. CASE Tick
  BY <1>0, <1>8, FileQueueAssumption DEF Tick, fileVars, pageVars
<1> QED
  BY <1>1, <1>2, <1>3, <1>4, <1>5, <1>6, <1>7, <1>8 DEF Next

\* Every step keeps the critical section exclusive.
LEMMA NextExclusive == IInv /\ [Next]_vars => Exclusive'
<1> SUFFICES ASSUME IInv, [Next]_vars PROVE Exclusive'
  OBVIOUS
<1>0. /\ pc \in [Callers -> {"idle", "lock", "read", "write", "unlock"}]
      /\ op \in [Callers -> Ops \cup {NoOp}]
      /\ Exclusive /\ None \notin Callers
  BY FileQueueAssumption DEF IInv, FileSound, TypeOK
<1>1. CASE UNCHANGED <<lock, pc, op>>
  BY <1>0, <1>1 DEF Exclusive
<1>2. ASSUME NEW c \in Callers, NEW o \in Ops, Call(c, o) PROVE Exclusive'
  BY <1>0, <1>2 DEF Call, Goto, Exclusive
<1>3. ASSUME NEW c \in Callers, CallerStep(c) PROVE Exclusive'
  <2>1. CASE Lock(c)
    BY <1>0, <2>1 DEF Lock, Goto, Exclusive
  <2>2. CASE Read(c) \/ ReadOnly(c) \/ Write(c) \/ WriteFails(c) \/ Rename(c)
    <3>1. pc[c] \in {"read", "write"} /\ UNCHANGED <<lock, op>>
      BY <2>2 DEF Read, ReadOnly, Write, WriteFails, Rename
    <3>2. pc' = pc \/ Goto(c, "write") \/ Goto(c, "unlock")
      BY <2>2 DEF Read, ReadOnly, Write, WriteFails, Rename
    <3> QED
      BY <1>0, <3>1, <3>2 DEF Goto, Exclusive
  <2>3. CASE Unlock(c)
    BY <1>0, <2>3 DEF Unlock, Goto, Exclusive
  <2> QED
    BY <1>3, <2>1, <2>2, <2>3 DEF CallerStep
<1>4. CASE Crash
  BY <1>4 DEF Crash, Exclusive
<1> QED
  BY <1>1, <1>2, <1>3, <1>4 DEF Next, PageList, PageSlice, PageSent, Tick, vars

\* A step that leaves the files alone and lets no caller start to write.
LEMMA WritingFrame ==
  ASSUME IInv, TypeOK', UNCHANGED <<file, tmp>>, now <= now',
         \A d \in Callers : pc'[d] = "write" =>
           pc[d] = "write" /\ want'[d] = want[d] /\ op'[d] = op[d]
  PROVE  Writing'
<1> SUFFICES ASSUME NEW d \in Callers, pc'[d] = "write"
             PROVE  /\ Readable'
                    /\ \E l \in Outcomes(op[d])' : want'[d] = Compact(l, MaxBytes)
                    /\ Len(tmp') <= Len(want'[d]) /\ \A k \in DOMAIN tmp' : tmp'[k] = want'[d][k]
  BY DEF Writing
<1>1. pc[d] = "write" /\ want'[d] = want[d] /\ op'[d] = op[d] /\ op[d] \in Ops
  BY DEF IInv, Exclusive
<1>2. /\ Readable
      /\ Len(tmp) <= Len(want[d]) /\ \A k \in DOMAIN tmp : tmp[k] = want[d][k]
  BY <1>1 DEF IInv, Writing
<1>3. PICK l \in Outcomes(op[d]) : want[d] = Compact(l, MaxBytes)
  BY <1>1 DEF IInv, Writing
<1>4. l \in Outcomes(op[d])'
  <2> DEFINE o == op[d]
  <2>0. now \in Nat /\ now' \in Nat /\ Retention \in Nat /\ MaxTime \in Nat
    BY FileQueueAssumption DEF IInv, FileSound, TypeOK
  <2>1. CASE o.kind = "enqueue"
    BY <1>1, <1>3, <2>0, <2>1 DEF Outcomes
  <2>2. CASE o.kind = "remove"
    BY <1>1, <1>3, <2>2 DEF Outcomes
  <2>3. CASE o.kind = "purge"
    <3>1. PICK t \in 0..MaxTime : (t = 0 \/ t + Retention <= now) /\ l = Unexpired(file, t)
      BY <1>3, <2>3 DEF Outcomes
    <3>2. t = 0 \/ t + Retention <= now'
      BY <2>0, <3>1
    <3> QED
      BY <1>1, <2>3, <3>1, <3>2 DEF Outcomes
  <2> QED
    BY <1>1, <2>1, <2>2, <2>3, OpKinds
<1> QED
  BY <1>1, <1>2, <1>3, <1>4 DEF Readable

\* Every step keeps what a caller writes out up to date with the file: the
\* mutex keeps everyone else from changing either.
LEMMA NextWriting == IInv /\ [Next]_vars => Writing'
<1> SUFFICES ASSUME IInv, [Next]_vars PROVE Writing'
  OBVIOUS
<1>0. /\ pc \in [Callers -> {"idle", "lock", "read", "write", "unlock"}]
      /\ op \in [Callers -> Ops \cup {NoOp}] /\ want \in [Callers -> Seq(Entries)]
      /\ tmp \in Seq(Entries) /\ now \in Nat
      /\ TypeOK /\ TypeOK' /\ Exclusive /\ Writing
  BY NextType, FileQueueAssumption DEF IInv, FileSound, TypeOK
<1>u. now <= now
  BY <1>0
<1>a. ASSUME NEW c \in Callers, pc[c] \in {"read", "write", "unlock"},
             NEW d \in Callers, pc[d] = "write"
      PROVE  d = c
  BY <1>0, <1>a DEF Exclusive
<1>1. CASE UNCHANGED <<file, tmp, pc, op, want, now>>
  BY <1>0, <1>u, <1>1, WritingFrame
<1>2. ASSUME NEW c \in Callers, NEW o \in Ops, Call(c, o) PROVE Writing'
  <2>1. UNCHANGED <<file, tmp, want, now>>
    BY <1>2 DEF Call, fileVars
  <2>2. \A d \in Callers : pc'[d] = "write" => pc[d] = "write" /\ op'[d] = op[d]
    BY <1>0, <1>2 DEF Call, Goto
  <2> QED
    BY <1>0, <1>u, <2>1, <2>2, WritingFrame
<1>3. ASSUME NEW c \in Callers, Lock(c) \/ ReadOnly(c) \/ WriteFails(c) PROVE Writing'
  <2>1. UNCHANGED <<file, tmp, want, op, now>>
    BY <1>3 DEF Lock, ReadOnly, WriteFails, fileVars
  <2>2. \A d \in Callers : pc'[d] = "write" => pc[d] = "write"
    BY <1>0, <1>3 DEF Lock, ReadOnly, WriteFails, Goto
  <2> QED
    BY <1>0, <1>u, <2>1, <2>2, WritingFrame
<1>4. ASSUME NEW c \in Callers, Read(c) PROVE Writing'
  <2>1. /\ pc[c] = "read" /\ Readable /\ tmp' = <<>> /\ UNCHANGED <<file, op, now>>
        /\ want'[c] = Compact(Changed(file, op[c]), MaxBytes)
    BY <1>0, <1>4 DEF Read
  <2>2. \A d \in Callers : pc'[d] = "write" => d = c
    BY <1>0, <1>4, <1>a, <2>1 DEF Read, Goto
  <2>3. op[c] \in Ops /\ Changed(file, op[c]) \in Outcomes(op[c])
    BY <1>0, <2>1, ChangedIsOutcome DEF Exclusive
  <2>4. Len(<<>>) = 0 /\ DOMAIN <<>> = {} /\ Len(want'[c]) \in Nat
    BY <1>0 DEF TypeOK
  <2>5. Readable' /\ Outcomes(op[c])' = Outcomes(op[c])
    BY <2>1 DEF Readable, Outcomes
  <2> QED
    BY <2>1, <2>2, <2>3, <2>4, <2>5 DEF Writing
<1>5. ASSUME NEW c \in Callers, Write(c) PROVE Writing'
  <2>1. /\ pc[c] = "write" /\ UNCHANGED <<file, op, now, want, pc>>
        /\ Len(tmp) < Len(want[c]) /\ tmp' = Append(tmp, want[c][Len(tmp) + 1])
    BY <1>5 DEF Write
  <2>2. \A d \in Callers : pc'[d] = "write" => d = c
    BY <1>0, <1>a, <2>1
  <2>3. /\ Readable /\ want[c] \in {Compact(q, MaxBytes) : q \in Outcomes(op[c])}
        /\ \A k \in DOMAIN tmp : tmp[k] = want[c][k]
    BY <1>0, <2>1 DEF Writing
  <2>4. Readable' /\ Outcomes(op[c])' = Outcomes(op[c])
    BY <2>1, <2>3 DEF Readable, Outcomes
  <2>5. Len(tmp') <= Len(want[c]) /\ \A k \in DOMAIN tmp' : tmp'[k] = want[c][k]
    <3>0. want[c] \in Seq(Entries)
      BY <1>0
    <3>1. Len(tmp') = Len(tmp) + 1 /\ Len(tmp) \in Nat /\ Len(want[c]) \in Nat
      BY <1>0, <2>1, <3>0
    <3>2. want[c][Len(tmp) + 1] \in Entries
      BY <1>0, <2>1, <3>0, <3>1
    <3>3. /\ DOMAIN tmp' = 1..(Len(tmp) + 1) /\ DOMAIN tmp = 1..Len(tmp)
          /\ tmp'[Len(tmp) + 1] = want[c][Len(tmp) + 1]
          /\ \A k \in 1..Len(tmp) : tmp'[k] = tmp[k]
      BY <1>0, <2>1, <3>2
    <3> QED
      BY <2>1, <2>3, <3>1, <3>3
  <2> QED
    BY <2>1, <2>2, <2>3, <2>4, <2>5 DEF Writing
<1>6. ASSUME NEW c \in Callers, Rename(c) \/ Unlock(c) PROVE Writing'
  <2>1. \A d \in Callers : pc'[d] # "write"
    BY <1>0, <1>6, <1>a DEF Rename, Unlock, Goto
  <2> QED
    BY <2>1 DEF Writing
<1>7. CASE Crash
  BY <1>7 DEF Crash, Writing
<1>8. CASE Tick
  <2>1. now <= now' /\ UNCHANGED <<file, tmp, want, pc, op>>
    BY <1>0, <1>8 DEF Tick, fileVars
  <2> QED
    BY <1>0, <2>1, WritingFrame
<1> QED
  BY <1>1, <1>2, <1>3, <1>4, <1>5, <1>6, <1>7, <1>8
  DEF Next, CallerStep, PageList, PageSlice, PageSent, vars, fileVars

\* Every step leaves one entry per ID, within the bound.
LEMMA NextSound == IInv /\ [Next]_vars => UniqueIds' /\ SizeBounded'
<1> SUFFICES ASSUME IInv, [Next]_vars PROVE UniqueIds' /\ SizeBounded'
  OBVIOUS
<1>1. CASE UNCHANGED file
  BY <1>1 DEF IInv, FileSound, UniqueIds, SizeBounded
<1>2. ASSUME NEW c \in Callers, Rename(c) PROVE UniqueIds' /\ SizeBounded'
  <2>1. PICK l \in Outcomes(op[c]) : file' = Compact(l, MaxBytes)
    BY <1>2, RenameInstalls
  <2>2. l \in Seq(Entries) /\ Distinct(l)
    BY <1>2, RenameInstalls, OutcomeFacts DEF IInv
  <2>3. Distinct(file') /\ TotalBytes(file') <= MaxBytes
    BY <2>1, <2>2, CompactFacts
  <2> QED
    BY <2>3 DEF UniqueIds, SizeBounded, Distinct
<1> QED
  BY <1>1, <1>2, OnlyRename

\* A rename keeps the IDs it has no reason to drop: an enqueue loses to the
\* size bound only what does not fit, a removal or a purge nothing, and
\* retention goes by the clock of the read, which is no later than that of the
\* rename.
LEMMA NextKept == IInv /\ [Next]_vars => AcceptedKept'
<1> SUFFICES ASSUME IInv, [Next]_vars PROVE AcceptedKept'
  OBVIOUS
<1>1. CASE UNCHANGED <<file, kept>>
  BY <1>1 DEF IInv, AcceptedKept, IdsOf
<1>2. ASSUME NEW c \in Callers, Rename(c) PROVE AcceptedKept'
  <2> DEFINE o == op[c]
  <2>0. /\ FileSound /\ file \in Seq(Entries) /\ kept \subseteq IdsOf(file)
        /\ now \in Nat /\ Retention \in Nat
    BY FileQueueAssumption DEF IInv, FileSound, TypeOK, AcceptedKept
  <2>1. /\ o \in Ops /\ file' = want[c]
        /\ kept' = (IF o.kind = "enqueue" THEN kept \cup {o.id} ELSE kept) \ Dropped(o)
    BY <1>2, RenameInstalls DEF Rename
  <2>2. PICK l \in Outcomes(o) : file' = Compact(l, MaxBytes)
    BY <1>2, RenameInstalls
  <2>3. o.kind # "enqueue" => file' = l
    BY <2>0, <2>1, <2>2, OutcomeFacts
  <2>4. IdsOf(file') = IdsOf(file)'
    BY DEF IdsOf
  <2>5. CASE o.kind = "enqueue"
    <3>1. kept' = (kept \cup {o.id}) \ PushedOut(o)
      BY <2>1, <2>5 DEF Dropped
    <3>2. \A i \in (IdsOf(file) \cup {o.id}) \ PushedOut(o) : i \in IdsOf(Compact(l, MaxBytes))
      BY <2>0, <2>1, <2>5, EnqueueKeeps
    <3> QED
      BY <2>0, <2>2, <2>4, <3>1, <3>2 DEF AcceptedKept
  <2>6. CASE o.kind = "remove"
    <3>1. file' = Without(file, o.id) /\ kept' = kept \ {o.id}
      BY <2>1, <2>2, <2>3, <2>6 DEF Outcomes, Dropped
    <3>2. \A k \in DOMAIN file : file[k].id # o.id => file[k].id \in IdsOf(Without(file, o.id))
      BY <2>0, WithoutFacts
    <3>3. IdsOf(file) \ {o.id} \subseteq IdsOf(Without(file, o.id))
      <4> SUFFICES ASSUME NEW k \in DOMAIN file, file[k].id # o.id
                   PROVE  file[k].id \in IdsOf(Without(file, o.id))
        BY DEF IdsOf
      <4> QED
        BY <3>2
    <3> QED
      BY <2>0, <2>4, <3>1, <3>3 DEF AcceptedKept
  <2>7. CASE o.kind = "purge"
    <3> DEFINE old == {k \in DOMAIN file : file[k].at + Retention < now}
    <3>1. PICK t \in 0..MaxTime : (t = 0 \/ t + Retention <= now) /\ file' = Unexpired(file, t)
      BY <2>2, <2>3, <2>7 DEF Outcomes
    <3>2. kept' = kept \ {file[k].id : k \in old}
      BY <2>1, <2>7 DEF Dropped
    <3>3. ASSUME NEW k \in DOMAIN file, k \notin old PROVE file[k].id \in IdsOf(Unexpired(file, t))
      <4>1. file[k].at \in Nat /\ t \in Nat
        <5>1. file[k] \in Entries
          BY <2>0
        <5> QED
          BY <5>1, FileQueueAssumption DEF Entries
      <4>2. file[k].at >= t
        BY <2>0, <3>1, <3>3, <4>1
      <4> QED
        BY <2>0, <4>2, UnexpiredFacts
    <3>4. kept' \subseteq IdsOf(Unexpired(file, t))
      BY <2>0, <3>2, <3>3 DEF IdsOf
    <3> QED
      BY <2>4, <3>1, <3>4 DEF AcceptedKept
  <2> QED
    BY <2>1, <2>5, <2>6, <2>7, OpKinds
<1> QED
  BY <1>1, <1>2, OnlyRename

\* Every step keeps a page that was cut within what was fetched, or notes that
\* the queue grew since.
LEMMA NextPage == IInv /\ [Next]_vars => PageFresh' /\ PageInBounds'
<1> SUFFICES ASSUME IInv, [Next]_vars PROVE PageFresh' /\ PageInBounds'
  OBVIOUS
<1>0. /\ file \in Seq(Entries) /\ Len(file) \in Nat /\ page \in Pages /\ grew \in BOOLEAN
      /\ PageFresh /\ PageInBounds
  BY EntriesAreLines DEF IInv, FileSound, TypeOK
<1>p. /\ page.fetched \in Nat /\ page.limit \in Nat /\ page.offset \in Nat /\ page.end \in Nat
  BY <1>0 DEF Pages
<1>1. CASE UNCHANGED <<file, page, grew>>
  BY <1>0, <1>1 DEF PageFresh, PageInBounds
<1>2. ASSUME NEW c \in Callers, Rename(c) PROVE PageFresh' /\ PageInBounds'
  <2>1. /\ UNCHANGED page /\ file' = tmp /\ grew' = (grew \/ Len(tmp) > Len(file))
    BY <1>2 DEF Rename
  <2>2. Len(tmp) \in Nat
    BY EntriesAreLines DEF IInv, FileSound, TypeOK
  <2>3. CASE grew'
    BY <1>0, <2>1, <2>3 DEF PageFresh, PageInBounds
  <2>4. CASE ~grew'
    <3>1. ~grew /\ Len(file') <= Len(file)
      <4>1. ~grew /\ ~(Len(tmp) > Len(file))
        BY <2>1, <2>4, Zenon
      <4> QED
        BY <1>0, <2>1, <2>2, <4>1
    <3>2. PageFresh'
      <4> DEFINE n == page.limit + page.offset
      <4>1. page.at = "listed" => Lesser(Len(file), n) <= page.fetched
        BY <1>0, <1>p, <3>1 DEF PageFresh
      <4>2. Lesser(Len(file'), n) <= Lesser(Len(file), n)
        <5>1. n \in Nat
          BY <1>p
        <5> QED
          BY <1>0, <2>1, <2>2, <3>1, <5>1 DEF Lesser
      <4>3. Lesser(Len(file'), n) \in Nat /\ Lesser(Len(file), n) \in Nat
        BY <1>0, <1>p, <2>1, <2>2 DEF Lesser
      <4>4. page.at = "listed" => Lesser(Len(file'), n) <= page.fetched
        <5> HIDE DEF n
        <5> QED
          BY <1>p, <4>1, <4>2, <4>3
      <4> QED
        BY <2>1, <4>4 DEF PageFresh, Lesser
    <3> QED
      BY <1>0, <2>1, <3>1, <3>2 DEF PageInBounds
  <2> QED
    BY <2>3, <2>4
<1>3. ASSUME NEW limit \in Limits, NEW offset \in Offsets, PageList(limit, offset)
      PROVE  PageFresh' /\ PageInBounds'
  <2>1. limit \in Nat /\ offset \in Nat
    BY FileQueueAssumption
  <2>2. /\ page'.at = "listed" /\ page'.fetched = Lesser(Len(file), limit + offset)
        /\ page'.limit = limit /\ page'.offset = offset /\ file' = file
    BY <1>3 DEF PageList, fileVars
  <2>3. Lesser(Len(file), limit + offset) \in Nat
    BY <1>0, <2>1 DEF Lesser
  <2> QED
    BY <2>2, <2>3 DEF PageFresh, PageInBounds
<1>4. CASE PageSlice
  <2>1. PICK total \in {page.fetched} \cup (IF Readable THEN {Len(file)} ELSE {}) :
          LET from == Lesser(page.offset, total)
          IN  page' = [page EXCEPT !.at = "sliced", !.offset = from,
                                   !.end = Lesser(from + page.limit, total)]
    BY <1>4 DEF PageSlice
  <2> DEFINE from == Lesser(page.offset, total)
             end == Lesser(from + page.limit, total)
  <2>2. total \in Nat /\ (total = page.fetched \/ total = Len(file))
    BY <1>0, <1>p, <2>1
  <2>3. /\ from <= end /\ end <= total /\ end <= page.limit + page.offset
        /\ from \in Nat /\ end \in Nat
    BY <1>p, <2>2 DEF Lesser
  <2>4. page' = [page EXCEPT !.at = "sliced", !.offset = from, !.end = end]
    BY <2>1
  <2> HIDE DEF from, end
  <2>5. /\ page'.at = "sliced" /\ page'.offset = from /\ page'.end = end
        /\ page'.fetched = page.fetched /\ grew' = grew
    BY <1>0, <1>4, <2>4 DEF Pages, PageSlice
  <2>6. page.at = "listed"
    BY <1>4 DEF PageSlice
  <2>7. end <= page.fetched \/ grew
    <3>1. CASE grew
      BY <3>1
    <3>2. CASE Lesser(Len(file), page.limit + page.offset) <= page.fetched
      BY <1>0, <1>p, <2>2, <2>3, <3>2 DEF Lesser
    <3> QED
      BY <1>0, <2>6, <3>1, <3>2 DEF PageFresh
  <2> QED
    BY <2>3, <2>5, <2>7 DEF PageFresh, PageInBounds
<1>5. CASE PageSent \/ Crash
  <2>1. page'.at = "idle"
    BY <1>5 DEF PageSent, Crash, NoPage
  <2> QED
    BY <2>1 DEF PageFresh, PageInBounds
<1> QED
  BY <1>1, <1>2, <1>3, <1>4, <1>5
  DEF Next, CallerStep, vars, fileVars, pageVars, Call, Lock, Read, ReadOnly, Write, WriteFails,
      Unlock, Tick

\* The inductive invariant holds in every state of the queue and its readers.
LEMMA Inductive == Spec => []IInv
<1>1. IInv /\ [Next]_vars => IInv'
  BY NextType, NextSound, NextExclusive, NextWriting, NextKept, NextPage DEF IInv, FileSound
<1> QED
  BY <1>1, InitIInv, PTL DEF Spec

-----------------------------------------------------------------------------
(* The results.                                                            *)

\* Whatever Enqueue, Remove, purgeExpired, failed writes and crashes do, the
\* file holds well-formed entries, one per CloudEvent ID, within maxBytes.
THEOREM FileStaysSound == Spec => []FileSound
<1>1. IInv => FileSound
  BY DEF IInv
<1> QED
  BY <1>1, Inductive, PTL

\* An ID that Enqueue accepted is in the file until Remove takes it out, it
\* expires, or the file has no room for it and all that stands behind it.
THEOREM NoLetterLost == Spec => []AcceptedKept
<1>1. IInv => AcceptedKept
  BY DEF IInv
<1> QED
  BY <1>1, Inductive, PTL

\* The slice dlqListHandler takes of what List returned is within it unless
\* the queue grew before Size, for any limit and offset.
THEOREM PageStaysInBounds == Spec => []PageInBounds
<1>1. IInv => PageInBounds
  BY DEF IInv
<1> QED
  BY <1>1, Inductive, PTL

\* Once readAll fails on a line that is too long, no operation replaces the file.
THEOREM StuckLettersKept == Spec => StuckNotLost
<1>1. IInv /\ [Next]_vars => [~Readable => file' = file]_vars
  <2> SUFFICES ASSUME IInv, [Next]_vars, ~Readable PROVE file' = file
    OBVIOUS
  <2>1. ASSUME NEW c \in Callers, Rename(c) PROVE FALSE
    BY <2>1 DEF Rename, IInv, Writing
  <2> QED
    BY <2>1, OnlyRename
<1> QED
  BY <1>1, Inductive, PTL DEF Spec, StuckNotLost

\* The functions the abstract specification computes with are those of QueueOps.
LEMMA SameOps ==
  /\ \A q, i, t, b : Letters!Upsert(q, i, t, b) = Upsert(q, i, t, b)
  /\ \A q, m : Letters!Compact(q, m) = Compact(q, m)
  /\ \A q, i : Letters!Without(q, i) = Without(q, i)
  /\ \A q, t : Letters!Unexpired(q, t) = Unexpired(q, t)
BY DEF Letters!Upsert, Upsert, Letters!Compact, Compact, Letters!Without, Without,
       Letters!Unexpired, Unexpired, Letters!KeepAt, KeepAt, Letters!TotalBytes, TotalBytes,
       Letters!IdsOf, IdsOf, Letters!Entry, Entry

\* FileQueue implements the queue that its callers see: every step of the
\* goroutines, the file system and a crash leaves the file alone or replaces
\* it by the result of one whole Enqueue, Remove or purge.
THEOREM QueueImplemented == Spec => ImplementsDeadLetters
<1>1. Init => Letters!Init
  BY DEF Init, Letters!Init
<1>2. IInv /\ [Next]_vars => [Letters!Next]_file
  <2> SUFFICES ASSUME IInv, NEW c \in Callers, Rename(c) PROVE Letters!Next
    BY OnlyRename
  <2> DEFINE o == op[c]
  <2>0. FileSound /\ now \in 0..MaxTime /\ MaxTime \in Nat
    BY FileQueueAssumption DEF IInv, FileSound, TypeOK
  <2>1. o \in Ops
    BY RenameInstalls
  <2>2. PICK l \in Outcomes(o) : file' = Compact(l, MaxBytes)
    BY RenameInstalls
  <2>3. o.kind # "enqueue" => file' = l
    BY <2>0, <2>1, <2>2, OutcomeFacts
  <2>4. CASE o.kind = "enqueue" /\ o.id \in Ids /\ o.bytes \in Sizes
    <3>1. PICK t \in 0..now : l = Upsert(file, o.id, t, o.bytes)
      BY <2>2, <2>4 DEF Outcomes
    <3>2. t \in 0..MaxTime
      BY <2>0
    <3>3. Letters!Enqueue(o.id, t, o.bytes)
      BY <2>2, <3>1, SameOps DEF Letters!Enqueue
    <3> QED
      BY <2>4, <3>2, <3>3 DEF Letters!Next
  <2>5. CASE o.kind = "remove" /\ o.id \in Ids
    <3>1. Letters!Remove_(o.id)
      BY <2>2, <2>3, <2>5, SameOps DEF Outcomes, Letters!Remove_
    <3> QED
      BY <2>5, <3>1 DEF Letters!Next
  <2>6. CASE o.kind = "purge"
    <3>1. PICK t \in 0..MaxTime : l = Unexpired(file, t)
      BY <2>2, <2>6 DEF Outcomes
    <3>2. Letters!Expire(t)
      BY <2>3, <2>6, <3>1, SameOps DEF Letters!Expire
    <3> QED
      BY <3>2 DEF Letters!Next
  <2> QED
    BY <2>1, <2>4, <2>5, <2>6, OpKinds
<1> QED
  BY <1>1, <1>2, Inductive, PTL DEF Spec, ImplementsDeadLetters, Letters!Spec
=============================================================================
