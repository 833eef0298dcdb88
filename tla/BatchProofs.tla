---------------------------- MODULE BatchProofs ----------------------------
(***************************************************************************)
(* Proofs about Batch, for any events, closers and MaxSize: its type       *)
(* invariant, the bound on a batch, and that no accepted event is dropped, *)
(* duplicated or overtaken.                                                *)
(***************************************************************************)
EXTENDS Batch, TLAPS, SequenceTheorems

-----------------------------------------------------------------------------
(* Sequences.                                                              *)

\* Appending to the last of two sequences appends to both.
LEMMA AppendConcat ==
  ASSUME NEW S, NEW s \in Seq(S), NEW t \in Seq(S), NEW e \in S
  PROVE  s \o Append(t, e) = Append(s \o t, e)
<1>1. Append(t, e) \in Seq(S) /\ s \o t \in Seq(S)
  BY AppendProperties, ConcatProperties
<1>2. s \o Append(t, e) \in Seq(S) /\ Append(s \o t, e) \in Seq(S)
  BY <1>1, AppendProperties, ConcatProperties
<1>3. Len(s \o Append(t, e)) = Len(Append(s \o t, e))
  BY <1>1, AppendProperties, ConcatProperties, LenProperties
<1>4. ASSUME NEW i \in 1 .. Len(s \o Append(t, e))
      PROVE  (s \o Append(t, e))[i] = Append(s \o t, e)[i]
  <2>1. /\ Len(s) \in Nat /\ Len(t) \in Nat /\ Len(s \o t) = Len(s) + Len(t)
        /\ Len(Append(t, e)) = Len(t) + 1 /\ i \in 1 .. Len(s) + Len(t) + 1
    BY <1>1, AppendProperties, ConcatProperties, LenProperties
  <2>2. CASE i <= Len(s)
    BY <1>1, <2>1, <2>2, AppendProperties, ConcatProperties
  <2>3. CASE i > Len(s) /\ i <= Len(s) + Len(t)
    <3>1. (s \o Append(t, e))[i] = Append(t, e)[i - Len(s)]
      BY <1>1, <2>1, <2>3, ConcatProperties
    <3>2. Append(t, e)[i - Len(s)] = t[i - Len(s)]
      BY <2>1, <2>3, AppendProperties
    <3>3. Append(s \o t, e)[i] = (s \o t)[i]
      BY <1>1, <2>1, <2>3, AppendProperties
    <3>4. (s \o t)[i] = t[i - Len(s)]
      BY <2>1, <2>3, ConcatProperties
    <3> QED BY <3>1, <3>2, <3>3, <3>4
  <2>4. CASE i = Len(s) + Len(t) + 1
    <3>1. (s \o Append(t, e))[i] = Append(t, e)[Len(t) + 1]
      BY <1>1, <2>1, <2>4, ConcatProperties
    <3>2. Append(t, e)[Len(t) + 1] = e
      BY <2>1, AppendProperties
    <3>3. Append(s \o t, e)[i] = e
      BY <1>1, <2>1, <2>4, AppendProperties
    <3> QED BY <3>1, <3>2, <3>3
  <2> QED BY <2>1, <2>2, <2>3, <2>4
<1> QED BY <1>2, <1>3, <1>4, SeqEqual

\* Moving the head of the second sequence to the end of the first.
LEMMA MoveHead ==
  ASSUME NEW S, NEW s \in Seq(S), NEW t \in Seq(S), t # <<>>
  PROVE  Append(s, Head(t)) \o Tail(t) = s \o t
<1>1. Head(t) \in S /\ Tail(t) \in Seq(S) /\ Len(t) > 0
  BY HeadTailProperties, EmptySeq, LenProperties
<1>2. Append(s, Head(t)) \in Seq(S)
  BY <1>1, AppendProperties
<1>3. Append(s, Head(t)) \o Tail(t) \in Seq(S) /\ s \o t \in Seq(S)
  BY <1>1, <1>2, ConcatProperties
<1>4. Len(Append(s, Head(t)) \o Tail(t)) = Len(s \o t)
  BY <1>1, <1>2, ConcatProperties, AppendProperties, HeadTailProperties, LenProperties
<1>5. ASSUME NEW i \in 1 .. Len(Append(s, Head(t)) \o Tail(t))
      PROVE  (Append(s, Head(t)) \o Tail(t))[i] = (s \o t)[i]
  <2>1. Len(s) \in Nat /\ Len(t) \in Nat /\ Len(Tail(t)) = Len(t) - 1
    BY HeadTailProperties, LenProperties
  <2>2. Len(Append(s, Head(t))) = Len(s) + 1 /\ i \in 1 .. Len(s) + Len(t)
    BY <1>1, <1>2, <2>1, ConcatProperties, AppendProperties
  <2>3. CASE i <= Len(s)
    BY <1>1, <1>2, <2>1, <2>2, <2>3, ConcatProperties, AppendProperties
  <2>4. CASE i = Len(s) + 1
    <3>1. (Append(s, Head(t)) \o Tail(t))[i] = Head(t)
      BY <1>1, <1>2, <2>1, <2>2, <2>4, ConcatProperties, AppendProperties
    <3>2. (s \o t)[i] = t[1]
      BY <2>1, <2>2, <2>4, ConcatProperties
    <3> QED BY <3>1, <3>2
  <2>5. CASE i > Len(s) + 1
    <3>1. (Append(s, Head(t)) \o Tail(t))[i] = Tail(t)[i - (Len(s) + 1)]
      BY <1>1, <1>2, <2>1, <2>2, <2>5, ConcatProperties
    <3>2. Tail(t)[i - (Len(s) + 1)] = t[i - Len(s)]
      BY <2>1, <2>2, <2>5, HeadTailProperties
    <3>3. (s \o t)[i] = t[i - Len(s)]
      BY <2>1, <2>2, <2>5, ConcatProperties
    <3> QED BY <3>1, <3>2, <3>3
  <2> QED BY <2>1, <2>2, <2>3, <2>4, <2>5
<1> QED BY <1>3, <1>4, <1>5, SeqEqual

\* An exit is an event with a fate.
LEMMA ExitEvents == \A p \in Exits : p[1] \in Events
BY DEF Exits

\* What extractEvents pairs with a fate is a sequence of exits, of these
\* events.
LEMMA WithType ==
  ASSUME NEW es \in Seq(Events), NEW fate \in Fates
  PROVE  With(es, fate) \in Seq(Exits) /\ Left(With(es, fate)) = es
<1>1. DOMAIN es = 1 .. Len(es) /\ Len(es) \in Nat /\ \A k \in 1 .. Len(es) : es[k] \in Events
  BY LenProperties
<1>2. With(es, fate) \in Seq(Exits) /\ DOMAIN With(es, fate) = 1 .. Len(es)
  BY <1>1 DEF With, Exits
<1>3. Left(With(es, fate)) = [k \in 1 .. Len(es) |-> es[k]]
  BY <1>1, <1>2 DEF With, Left
<1> QED BY <1>1, <1>2, <1>3

\* The events that left are a sequence of events.
LEMMA LeftType ==
  ASSUME NEW P, \A p \in P : p[1] \in Events, NEW o \in Seq(P)
  PROVE  Left(o) \in Seq(Events) /\ Len(Left(o)) = Len(o)
<1>1. DOMAIN o = 1 .. Len(o) /\ Len(o) \in Nat /\ \A k \in 1 .. Len(o) : o[k] \in P
  BY LenProperties
<1> QED BY <1>1 DEF Left

\* A batch that leaves at once is appended to the events that left.
LEMMA LeftConcat ==
  ASSUME NEW P, \A p \in P : p[1] \in Events, NEW o \in Seq(P), NEW w \in Seq(P)
  PROVE  Left(o \o w) = Left(o) \o Left(w)
<1>1. o \o w \in Seq(P) /\ Len(o \o w) = Len(o) + Len(w)
  BY ConcatProperties
<1>2. /\ Left(o \o w) \in Seq(Events) /\ Len(Left(o \o w)) = Len(o) + Len(w)
      /\ Left(o) \in Seq(Events) /\ Len(Left(o)) = Len(o)
      /\ Left(w) \in Seq(Events) /\ Len(Left(w)) = Len(w)
  <2>1. Left(o \o w) \in Seq(Events) /\ Len(Left(o \o w)) = Len(o \o w)
    BY <1>1, LeftType
  <2>2. Left(o) \in Seq(Events) /\ Len(Left(o)) = Len(o)
    BY LeftType
  <2>3. Left(w) \in Seq(Events) /\ Len(Left(w)) = Len(w)
    BY LeftType
  <2> QED BY <1>1, <2>1, <2>2, <2>3
<1>3. Left(o) \o Left(w) \in Seq(Events) /\ Len(Left(o) \o Left(w)) = Len(o) + Len(w)
  <2>1. Left(o) \o Left(w) \in Seq(Events) /\ Len(Left(o) \o Left(w)) = Len(Left(o)) + Len(Left(w))
    BY <1>2, ConcatProperties
  <2> QED BY <1>2, <2>1
<1>4. ASSUME NEW i \in 1 .. Len(Left(o \o w))
      PROVE  Left(o \o w)[i] = (Left(o) \o Left(w))[i]
  <2>1. /\ Len(o) \in Nat /\ Len(w) \in Nat /\ i \in 1 .. Len(o) + Len(w)
        /\ DOMAIN o = 1 .. Len(o) /\ DOMAIN w = 1 .. Len(w)
        /\ DOMAIN (o \o w) = 1 .. Len(o) + Len(w)
    BY <1>1, <1>2, LenProperties
  <2>2. Left(o \o w)[i] = (o \o w)[i][1]
    BY <2>1 DEF Left
  <2>3. CASE i <= Len(o)
    <3>1. (o \o w)[i] = o[i]
      BY <2>1, <2>3, ConcatProperties
    <3>2. (Left(o) \o Left(w))[i] = Left(o)[i]
      BY <1>2, <2>1, <2>3, ConcatProperties
    <3>3. Left(o)[i] = o[i][1]
      BY <2>1, <2>3 DEF Left
    <3> QED BY <2>2, <3>1, <3>2, <3>3
  <2>4. CASE i > Len(o)
    <3>1. (o \o w)[i] = w[i - Len(o)]
      BY <2>1, <2>4, ConcatProperties
    <3>2. (Left(o) \o Left(w))[i] = Left(w)[i - Len(o)]
      <4>1. \A j \in 1 .. Len(Left(o)) + Len(Left(w)) : (Left(o) \o Left(w))[j] =
              IF j <= Len(Left(o)) THEN Left(o)[j] ELSE Left(w)[j - Len(Left(o))]
        BY <1>2, ConcatProperties
      <4> QED BY <1>2, <2>1, <2>4, <4>1
    <3>3. Left(w)[i - Len(o)] = w[i - Len(o)][1]
      BY <2>1, <2>4 DEF Left
    <3> QED BY <2>2, <3>1, <3>2, <3>3
  <2>5. i <= Len(o) \/ i > Len(o)
    BY <2>1
  <2> QED BY <2>3, <2>4, <2>5
<1> QED BY <1>2, <1>3, <1>4, SeqEqual

\* An event that leaves alone is appended to the events that left.
LEMMA LeftAppend ==
  ASSUME NEW P, \A p \in P : p[1] \in Events, NEW o \in Seq(P), NEW p \in P
  PROVE  Left(Append(o, p)) = Append(Left(o), p[1])
<1>1. Append(o, p) \in Seq(P) /\ Len(Append(o, p)) = Len(o) + 1
  BY AppendProperties
<1>2. /\ Left(Append(o, p)) \in Seq(Events) /\ Len(Left(Append(o, p))) = Len(o) + 1
      /\ Left(o) \in Seq(Events) /\ Len(Left(o)) = Len(o)
  BY <1>1, LeftType
<1>3. Append(Left(o), p[1]) \in Seq(Events) /\ Len(Append(Left(o), p[1])) = Len(o) + 1
  BY <1>2, AppendProperties
<1>4. ASSUME NEW i \in 1 .. Len(Left(Append(o, p)))
      PROVE  Left(Append(o, p))[i] = Append(Left(o), p[1])[i]
  <2>1. /\ Len(o) \in Nat /\ i \in 1 .. Len(o) + 1
        /\ DOMAIN o = 1 .. Len(o) /\ DOMAIN Append(o, p) = 1 .. Len(o) + 1
    BY <1>1, <1>2, LenProperties
  <2>2. Left(Append(o, p))[i] = Append(o, p)[i][1]
    BY <2>1 DEF Left
  <2>3. CASE i <= Len(o)
    <3>1. Append(o, p)[i] = o[i] /\ Append(Left(o), p[1])[i] = Left(o)[i]
      <4>1. p[1] \in Events /\ i \in 1 .. Len(o) /\ i \in 1 .. Len(Left(o))
        BY <1>2, <2>1, <2>3
      <4>2. Append(o, p)[i] = o[i]
        BY <4>1, AppendProperties
      <4>3. Append(Left(o), p[1])[i] = Left(o)[i]
        BY <1>2, <4>1, AppendProperties
      <4> QED BY <4>2, <4>3
    <3> QED BY <2>1, <2>2, <2>3, <3>1 DEF Left
  <2>4. CASE i = Len(o) + 1
    BY <1>2, <2>1, <2>2, <2>4, AppendProperties
  <2>5. i <= Len(o) \/ i = Len(o) + 1
    BY <2>1
  <2> QED BY <2>3, <2>4, <2>5
<1> QED BY <1>2, <1>3, <1>4, SeqEqual

-----------------------------------------------------------------------------
(* What the actions do to the line of events: Left(out), batch, buffer and *)
(* ch, one after the other.                                                *)

\* With an empty batch the line is what left, the buffer and the channel, and
\* drainBuffer does not change it.
LEMMA DrainKeepsLine ==
  ASSUME NEW l \in Seq(Events), NEW b \in Seq(Events), NEW c \in Seq(Events)
  PROVE  /\ l \o <<>> \o b \o c = l \o b \o c
         /\ l \o b \o <<>> \o c = l \o b \o c
<1>1. l \o b \in Seq(Events)
  BY ConcatProperties
<1> QED BY <1>1, ConcatEmptySeq

\* A batch that leaves with a fate does not change the line.
LEMMA BatchLeaves ==
  ASSUME NEW o \in Seq(Exits), NEW es \in Seq(Events), NEW fate \in Fates
  PROVE  /\ o \o With(es, fate) \in Seq(Exits)
         /\ Left(o \o With(es, fate)) = Left(o) \o es
         /\ Left(o \o With(es, fate)) \o <<>> = Left(o) \o es
<1>1. With(es, fate) \in Seq(Exits) /\ Left(With(es, fate)) = es
  BY WithType
<1>2. o \o With(es, fate) \in Seq(Exits)
  BY <1>1, ConcatProperties
<1>3. Left(o \o With(es, fate)) = Left(o) \o es
  BY <1>1, LeftConcat, ExitEvents
<1>4. Left(o) \in Seq(Events)
  BY LeftType, ExitEvents
<1>5. Left(o) \o es \in Seq(Events)
  BY <1>4, ConcatProperties
<1> QED BY <1>2, <1>3, <1>5, ConcatEmptySeq

\* The head of a batch that leaves does not change the line.
LEMMA HeadLeaves ==
  ASSUME NEW o \in Seq(Exits), NEW es \in Seq(Events), es # <<>>, NEW fate \in Fates
  PROVE  /\ Append(o, <<Head(es), fate>>) \in Seq(Exits)
         /\ Left(Append(o, <<Head(es), fate>>)) \o Tail(es) = Left(o) \o es
<1> DEFINE p == <<Head(es), fate>>
<1>1. Head(es) \in Events
  BY HeadTailProperties
<1>2. p \in Exits /\ p[1] = Head(es)
  BY <1>1 DEF Exits
<1> HIDE DEF p
<1>3. Append(o, p) \in Seq(Exits)
  BY <1>2, AppendProperties
<1>4. Left(Append(o, p)) = Append(Left(o), Head(es))
  BY <1>2, LeftAppend, ExitEvents
<1>5. Left(o) \in Seq(Events)
  BY LeftType, ExitEvents
<1>6. Append(Left(o), Head(es)) \o Tail(es) = Left(o) \o es
  BY <1>5, MoveHead
<1> QED BY <1>3, <1>4, <1>6 DEF p

-----------------------------------------------------------------------------
(* The inductive invariant.                                                *)

\* The sequences of the state are sequences, as the lemmas need them.
LEMMA SeqTypes ==
  ASSUME TypeOK
  PROVE  /\ Left(out) \in Seq(Events) /\ batch \in Seq(Events)
         /\ buffer \in Seq(Events) /\ ch \in Seq(Events) /\ accepted \in Seq(Events)
         /\ out \in Seq(Exits) /\ MaxSize \in Nat \ {0}
         /\ Len(ch) \in Nat /\ Len(buffer) \in Nat /\ Len(batch) \in Nat
<1>1. batch \in Seq(Events) /\ buffer \in Seq(Events) /\ ch \in Seq(Events)
      /\ accepted \in Seq(Events) /\ out \in Seq(Exits)
  BY DEF TypeOK
<1>2. Left(out) \in Seq(Events)
  BY <1>1, LeftType, ExitEvents
<1> QED BY <1>1, <1>2, LenProperties, BatchAssumption

\* New establishes the invariant.
LEMMA InitIInv == ASSUME Init PROVE IInv
<1>1. TypeOK
  <2>1. Len(<<>>) <= 2 * MaxSize
    BY BatchAssumption, EmptySeq
  <2>2. \A S : <<>> \in Seq(S)
    BY EmptySeq
  <2> QED BY <2>1, <2>2 DEF Init, TypeOK, RunPoints
<1>2. RunPhase /\ ClosePhase /\ BatchBounded
  BY BatchAssumption DEF Init, RunPhase, ClosePhase, BatchBounded, Closing
<1>3. Conserved
  <2>1. Left(<<>>) = <<>>
    BY DEF Left
  <2>2. <<>> \o <<>> = <<>>
    BY ConcatEmptySeq, EmptySeq
  <2> QED BY <2>1, <2>2 DEF Init, Conserved
<1> QED BY <1>1, <1>2, <1>3 DEF IInv

\* A step that leaves the events where they are and moves no run or close.
LEMMA HandleStep ==
  ASSUME IInv, NEW e \in Events, HandleCheck(e) \/ HandleSend(e) \/ HandlePanics(e)
  PROVE  IInv'
<1> USE DEF IInv
<1>1. CASE HandleCheck(e) \/ HandlePanics(e)
  <2>1. UNCHANGED <<ch, buffer, batch, closed, run, close, accepted, out>>
        /\ alive' \in BOOLEAN
        /\ handle' \in [Events -> {"idle", "checked", "accepted", "refused"}]
    BY <1>1 DEF HandleCheck, HandlePanics, queueVars, TypeOK
  <2>2. TypeOK'
    BY <2>1 DEF TypeOK
  <2>3. RunPhase' /\ ClosePhase'
    BY <2>1 DEF RunPhase, ClosePhase, Closing
  <2>4. Conserved' /\ BatchBounded'
    BY <2>1 DEF Conserved, BatchBounded
  <2> QED BY <2>2, <2>3, <2>4
<1>2. CASE HandleSend(e)
  <2>0. ch' = Append(ch, e) /\ accepted' = Append(accepted, e)
        /\ UNCHANGED <<buffer, batch, closed, run, close, alive, out>>
    BY <1>2 DEF HandleSend
  <2>1. ch' \in Seq(Events) /\ Len(ch') = Len(ch) + 1 /\ accepted' \in Seq(Events)
    BY <2>0, SeqTypes, AppendProperties
  <2>2. TypeOK'
    BY <1>2, <2>0, <2>1, SeqTypes DEF HandleSend, TypeOK
  <2>3. run # "done"
    BY <1>2 DEF HandleSend, RunPhase
  <2>4. RunPhase' /\ ClosePhase' /\ BatchBounded'
    BY <2>0, <2>3 DEF RunPhase, ClosePhase, BatchBounded, Closing
  <2>5. Left(out) \o batch \o buffer \in Seq(Events)
    BY SeqTypes, ConcatProperties
  <2>6. ch \in Seq(Events)
    BY SeqTypes
  <2>7. Left(out) \o batch \o buffer \o Append(ch, e) = Append(Left(out) \o batch \o buffer \o ch, e)
    BY <2>5, <2>6, AppendConcat, SMTT(20)
  <2>8. Conserved'
    BY <2>0, <2>7 DEF Conserved
  <2> QED BY <2>2, <2>4, <2>8
<1> QED BY <1>1, <1>2

\* Moving the head of the channel to the buffer keeps the line.
LEMMA ReceiveStep == ASSUME IInv, Receive PROVE IInv'
<1> USE DEF IInv
<1>0. /\ run = "select" /\ ch # <<>> /\ ch' = Tail(ch) /\ buffer' = Append(buffer, Head(ch))
      /\ UNCHANGED <<batch, closed, handle, close, alive, accepted, out>>
      /\ run' \in {"full", "select"}
      /\ run' = "select" => ~(Len(buffer') >= MaxSize)
  BY DEF Receive
<1>1. /\ Head(ch) \in Events /\ ch' \in Seq(Events) /\ Len(ch') = Len(ch) - 1
  BY <1>0, SeqTypes, HeadTailProperties
<1>2. buffer' \in Seq(Events) /\ Len(buffer') = Len(buffer) + 1 /\ buffer' # <<>>
  <2>1. buffer \in Seq(Events)
    BY SeqTypes
  <2> QED BY <1>0, <1>1, <2>1, AppendProperties
<1>3. TypeOK'
  BY <1>0, <1>1, <1>2, SeqTypes DEF TypeOK, RunPoints
<1>4. Len(buffer) < MaxSize
  BY <1>0 DEF RunPhase
<1>5. RunPhase'
  <2>1. Len(buffer') <= MaxSize /\ (run' = "select" => Len(buffer') < MaxSize)
    BY <1>0, <1>2, <1>4, SeqTypes
  <2> QED BY <1>0, <1>2, <2>1 DEF RunPhase
<1>6. ClosePhase' /\ BatchBounded'
  BY <1>0 DEF ClosePhase, BatchBounded, Closing
<1>7. Left(out) \o batch \in Seq(Events)
  BY SeqTypes, ConcatProperties
<1>8. (Left(out) \o batch) \o buffer \in Seq(Events)
  BY <1>7, SeqTypes, ConcatProperties
<1>9. Left(out) \o batch \o Append(buffer, Head(ch)) = Append(Left(out) \o batch \o buffer, Head(ch))
  <2>1. buffer \in Seq(Events)
    BY SeqTypes
  <2> QED BY <1>1, <1>7, <2>1, AppendConcat, SMTT(20)
<1>10. Append(Left(out) \o batch \o buffer, Head(ch)) \o Tail(ch) = Left(out) \o batch \o buffer \o ch
  BY <1>0, <1>8, SeqTypes, MoveHead
<1>11. Conserved'
  BY <1>0, <1>9, <1>10 DEF Conserved
<1> QED BY <1>3, <1>5, <1>6, <1>11

\* drainBuffer with an empty batch keeps the line.
LEMMA DrainStep ==
  ASSUME IInv, batch = <<>>, Drain, UNCHANGED <<ch, accepted, out>>
  PROVE  /\ Conserved' /\ BatchBounded' /\ Len(buffer') = 0 /\ buffer' = <<>>
         /\ batch' = buffer /\ batch' \in Seq(Events) /\ buffer' \in Seq(Events)
<1>1. batch' = buffer /\ buffer' = <<>>
  BY DEF Drain
<1>2. Left(out) \o <<>> \o buffer \o ch = Left(out) \o buffer \o <<>> \o ch
  BY SeqTypes, DrainKeepsLine DEF IInv
<1>3. Conserved'
  BY <1>1, <1>2 DEF IInv, Conserved
<1>4. Len(buffer) <= MaxSize
  BY DEF IInv, RunPhase
<1> QED BY <1>1, <1>3, <1>4, SeqTypes, EmptySeq DEF BatchBounded, IInv

\* A full buffer or a tick starts a flush.
LEMMA StartFlushStep == ASSUME IInv, FlushFull \/ Tick PROVE IInv'
<1> USE DEF IInv
<1>1. run \in {"full", "select"} /\ run' = "flush" /\ Drain
      /\ UNCHANGED <<ch, closed, handle, close, alive, accepted, out>>
  BY DEF FlushFull, Tick
<1>2. batch = <<>>
  BY <1>1 DEF RunPhase, ClosePhase
<1>3. /\ Conserved' /\ BatchBounded' /\ Len(buffer') = 0 /\ buffer' = <<>>
      /\ batch' = buffer /\ batch' \in Seq(Events) /\ buffer' \in Seq(Events)
  BY <1>1, <1>2, DrainStep
<1>4. TypeOK'
  BY <1>1, <1>3 DEF TypeOK, RunPoints
<1>5. buffer # <<>>
  BY DEF FlushFull, Tick, RunPhase
<1>6. RunPhase'
  BY <1>1, <1>3, <1>5, SeqTypes DEF RunPhase
<1>7. ClosePhase'
  BY <1>1 DEF ClosePhase, Closing
<1> QED BY <1>3, <1>4, <1>6, <1>7

\* A batch that leaves whole keeps the line.
LEMMA LeaveStep ==
  ASSUME IInv, NEW fate \in Fates, out' = out \o With(batch, fate), batch' = <<>>,
         UNCHANGED <<ch, buffer, accepted>>
  PROVE  /\ Conserved' /\ BatchBounded' /\ out' \in Seq(Exits)
<1>1. /\ out \o With(batch, fate) \in Seq(Exits)
      /\ Left(out \o With(batch, fate)) \o <<>> = Left(out) \o batch
  BY SeqTypes, BatchLeaves DEF IInv
<1>2. Conserved'
  BY <1>1 DEF IInv, Conserved
<1>3. Len(<<>>) <= MaxSize
  BY EmptySeq, BatchAssumption
<1> QED BY <1>1, <1>2, <1>3 DEF BatchBounded

\* The end of a flush by the goroutine.
LEMMA FlushStep == ASSUME IInv, FlushSends \/ FlushFails PROVE IInv'
<1> USE DEF IInv
<1>1. ASSUME NEW fate \in Fates, out' = out \o With(batch, fate), batch' = <<>>,
             run = "flush", run' = "select",
             UNCHANGED <<ch, buffer, closed, handle, close, alive, accepted>>
      PROVE  IInv'
  <2>1. Conserved' /\ BatchBounded' /\ out' \in Seq(Exits)
    BY <1>1, LeaveStep
  <2>2. TypeOK'
    BY <1>1, <2>1, EmptySeq DEF TypeOK, RunPoints
  <2>3. buffer = <<>> /\ Len(buffer) = 0
    BY <1>1, EmptySeq DEF RunPhase
  <2>4. RunPhase'
    BY <1>1, <2>3, BatchAssumption DEF RunPhase
  <2>5. ClosePhase'
    BY <1>1 DEF ClosePhase, Closing
  <2> QED BY <2>1, <2>2, <2>4, <2>5
<1>2. CASE FlushSends
  BY <1>1, <1>2 DEF FlushSends, Fates
<1>3. CASE FlushFails /\ ~HasQueue
  BY <1>1, <1>3 DEF FlushFails, Fates
<1>4. CASE FlushFails /\ HasQueue
  <2>1. run = "flush" /\ run' = "enqueue"
        /\ UNCHANGED <<ch, buffer, batch, closed, handle, close, alive, accepted, out>>
    BY <1>4 DEF FlushFails
  <2>2. batch # <<>>
    BY <2>1 DEF RunPhase
  <2>3. TypeOK' /\ Conserved' /\ BatchBounded'
    BY <2>1 DEF TypeOK, Conserved, BatchBounded, RunPoints
  <2>4. RunPhase' /\ ClosePhase'
    BY <2>1, <2>2 DEF RunPhase, ClosePhase, Closing
  <2> QED BY <2>3, <2>4
<1> QED BY <1>2, <1>3, <1>4

\* One event of a failed batch goes to the queue or is lost.
LEMMA EnqueueStep == ASSUME IInv, EnqueueFailed PROVE IInv'
<1> USE DEF IInv
<1> DEFINE fate == "failed"
<1>1. out' = Append(out, <<Head(batch), fate>>)
  BY DEF EnqueueFailed
<1>2. run = "enqueue" /\ batch' = Tail(batch) /\ run' \in {"select", "enqueue"}
      /\ (run' = "select" => batch' = <<>>) /\ (run' = "enqueue" => batch' # <<>>)
      /\ UNCHANGED <<ch, buffer, closed, handle, close, alive, accepted>>
  BY DEF EnqueueFailed
<1>3. batch # <<>> /\ buffer = <<>> /\ Len(buffer) = 0
  BY <1>2, EmptySeq DEF RunPhase
<1>4. fate \in Fates
  BY DEF Fates
<1>5. /\ Append(out, <<Head(batch), fate>>) \in Seq(Exits)
      /\ Left(Append(out, <<Head(batch), fate>>)) \o Tail(batch) = Left(out) \o batch
  BY <1>3, <1>4, SeqTypes, HeadLeaves
<1>6. Tail(batch) \in Seq(Events) /\ Len(Tail(batch)) = Len(batch) - 1
  BY <1>3, SeqTypes, HeadTailProperties
<1>7. TypeOK'
  BY <1>1, <1>2, <1>5, <1>6 DEF TypeOK, RunPoints
<1>8. Conserved'
  BY <1>1, <1>2, <1>5 DEF Conserved
<1>9. BatchBounded'
  BY <1>2, <1>6, SeqTypes DEF BatchBounded
<1>10. RunPhase'
  BY <1>2, <1>3, BatchAssumption DEF RunPhase
<1>11. ClosePhase'
  BY <1>2 DEF ClosePhase, Closing
<1> QED BY <1>7, <1>8, <1>9, <1>10, <1>11

\* The goroutine ends with an empty channel.
LEMMA RunEndsStep == ASSUME IInv, RunEnds PROVE IInv'
<1> USE DEF IInv
<1>1. run = "select" /\ closed /\ ch = <<>> /\ run' = "done"
      /\ UNCHANGED <<ch, buffer, batch, closed, handle, close, alive, accepted, out>>
  BY DEF RunEnds, queueVars
<1>2. TypeOK' /\ Conserved' /\ BatchBounded'
  BY <1>1 DEF TypeOK, Conserved, BatchBounded, RunPoints
<1>3. RunPhase' /\ ClosePhase'
  BY <1>1 DEF RunPhase, ClosePhase, Closing
<1> QED BY <1>2, <1>3

\* The first Close closes; later ones return.
LEMMA CloseCallStep == ASSUME IInv, NEW c \in Closers, CloseCall(c) PROVE IInv'
<1> USE DEF IInv
<1>1. /\ close[c] = "idle" /\ \A d \in Closers : close[d] # "final"
      /\ close' = [close EXCEPT ![c] = IF closed THEN "returned" ELSE "waiting"] /\ closed' = TRUE
      /\ UNCHANGED <<ch, buffer, batch, handle, run, alive, accepted, out>>
  BY DEF CloseCall, queueVars
<1>2. close \in [Closers -> {"idle", "waiting", "final", "returned"}]
  BY DEF TypeOK
<1>3. TypeOK' /\ Conserved' /\ BatchBounded'
  BY <1>1 DEF TypeOK, Conserved, BatchBounded
<1>4. RunPhase'
  BY <1>1, <1>2 DEF RunPhase
<1>5. CASE closed
  <2>1. close' = [close EXCEPT ![c] = "returned"]
    BY <1>1, <1>5
  <2>2. \A d \in Closers : (Closing(d))' <=> Closing(d)
    BY <1>1, <1>2, <2>1 DEF Closing
  <2>3. \A d \in Closers : close'[d] # "final"
    BY <1>1, <1>2, <2>1
  <2> QED BY <1>1, <1>3, <1>4, <1>5, <2>2, <2>3 DEF ClosePhase
<1>6. CASE ~closed
  <2>1. close' = [close EXCEPT ![c] = "waiting"]
    BY <1>1, <1>6
  <2>2. \A d \in Closers : (Closing(d))' <=> d = c
    BY <1>2, <1>6, <2>1 DEF Closing, ClosePhase
  <2>3. \A d \in Closers : close'[d] # "final"
    BY <1>1, <1>2, <2>1
  <2> QED BY <1>1, <1>3, <1>4, <1>6, <2>2, <2>3 DEF ClosePhase
<1> QED BY <1>5, <1>6

\* Close takes what is left in the buffer.
LEMMA CloseDrainsStep == ASSUME IInv, NEW c \in Closers, CloseDrains(c) PROVE IInv'
<1> USE DEF IInv
<1>1. /\ close[c] = "waiting" /\ run = "done" /\ Drain
      /\ close' = [close EXCEPT ![c] = IF buffer = <<>> THEN "returned" ELSE "final"]
      /\ UNCHANGED <<ch, closed, handle, run, alive, accepted, out>>
  BY DEF CloseDrains
<1>2. close \in [Closers -> {"idle", "waiting", "final", "returned"}]
  BY DEF TypeOK
<1>3. \A d \in Closers : Closing(d) => d = c
  BY <1>1 DEF ClosePhase, Closing
<1>4. batch = <<>>
  BY <1>1, <1>3 DEF RunPhase, Closing
<1>5. /\ Conserved' /\ BatchBounded' /\ Len(buffer') = 0 /\ buffer' = <<>>
      /\ batch' = buffer /\ batch' \in Seq(Events) /\ buffer' \in Seq(Events)
  BY <1>1, <1>4, DrainStep
<1>6. TypeOK'
  BY <1>1, <1>5 DEF TypeOK
<1>7. close'[c] = IF buffer = <<>> THEN "returned" ELSE "final"
  BY <1>1, <1>2
<1>8. \A d \in Closers : d # c => ~(Closing(d))' /\ close'[d] = close[d]
  BY <1>1, <1>2, <1>3 DEF Closing
<1>9. ch = <<>> /\ closed
  BY <1>1 DEF RunPhase
<1>10. RunPhase'
  BY <1>1, <1>5, <1>7, <1>9, BatchAssumption DEF RunPhase
<1>11. ClosePhase'
  BY <1>1, <1>5, <1>7, <1>8, <1>9 DEF ClosePhase, Closing
<1> QED BY <1>5, <1>6, <1>10, <1>11

\* The final flush ends the last Close.
LEMMA CloseFlushesStep == ASSUME IInv, NEW c \in Closers, CloseFlushes(c) PROVE IInv'
<1> USE DEF IInv
<1>1. /\ close[c] = "final" /\ batch' = <<>> /\ close' = [close EXCEPT ![c] = "returned"]
      /\ UNCHANGED <<ch, buffer, closed, handle, run, alive, accepted>>
  BY DEF CloseFlushes
<1>2. PICK fate \in Fates : out' = out \o With(batch, fate)
  BY DEF CloseFlushes
<1>4. Conserved' /\ BatchBounded' /\ out' \in Seq(Exits)
  BY <1>1, <1>2, LeaveStep
<1>5. close \in [Closers -> {"idle", "waiting", "final", "returned"}]
  BY DEF TypeOK
<1>6. TypeOK'
  BY <1>1, <1>4, EmptySeq DEF TypeOK
<1>7. run = "done" /\ buffer = <<>> /\ closed
  BY <1>1 DEF ClosePhase, RunPhase
<1>8. \A d \in Closers : ~(Closing(d))'
  BY <1>1, <1>5 DEF ClosePhase, Closing
<1>9. RunPhase'
  BY <1>1, <1>7 DEF RunPhase
<1>10. ClosePhase'
  BY <1>1, <1>7, <1>8 DEF ClosePhase, Closing
<1> QED BY <1>4, <1>6, <1>9, <1>10

\* Every step keeps the invariant.
LEMMA NextIInv == ASSUME IInv, [Next]_vars PROVE IInv'
<1>1. CASE UNCHANGED vars
  BY <1>1 DEF IInv, TypeOK, RunPhase, ClosePhase, Closing, Conserved, BatchBounded, vars, queueVars
<1>2. CASE \E e \in Events : HandleCheck(e) \/ HandleSend(e) \/ HandlePanics(e)
  BY <1>2, HandleStep
<1>3. CASE RunStep
  BY <1>3, ReceiveStep, StartFlushStep, FlushStep, EnqueueStep, RunEndsStep DEF RunStep, Flush
<1>4. CASE \E c \in Closers : CloseCall(c) \/ CloseDrains(c) \/ CloseFlushes(c)
  BY <1>4, CloseCallStep, CloseDrainsStep, CloseFlushesStep
<1> QED BY <1>1, <1>2, <1>3, <1>4 DEF Next

\* The state keeps its types, for any number of events and closers.
THEOREM TypeCorrect == Spec => []TypeOK
<1>1. IInv => TypeOK
  BY DEF IInv
<1> QED BY InitIInv, NextIInv, <1>1, PTL DEF Spec

\* The batching wrapper drops, duplicates and reorders nothing it accepted:
\* Handle, the background goroutine, Close and failing flushes in any order.
THEOREM AcceptedConserved == Spec => []Conserved
<1>1. IInv => Conserved
  BY DEF IInv
<1> QED BY InitIInv, NextIInv, <1>1, PTL DEF Spec

\* No flush, by size, ticker or Close, sends more than MaxSize events.
THEOREM BatchesBounded == Spec => []BatchBounded
<1>1. IInv => BatchBounded
  BY DEF IInv
<1> QED BY InitIInv, NextIInv, <1>1, PTL DEF Spec

\* When all Close calls have returned, every accepted event has left.
THEOREM CloseLeavesNothing == Spec => []NothingLeftBehind
<1>1. IInv => NothingLeftBehind
  <2> SUFFICES ASSUME IInv, closed, \A c \in Closers : close[c] \in {"idle", "returned"}
               PROVE  Left(out) = accepted
    BY DEF NothingLeftBehind
  <2>1. ~ \E c \in Closers : Closing(c)
    BY DEF Closing
  <2>2. run = "done" /\ buffer = <<>> /\ batch = <<>> /\ ch = <<>>
    BY <2>1 DEF IInv, ClosePhase, RunPhase
  <2>3. Left(out) \in Seq(Events)
    BY SeqTypes DEF IInv
  <2>4. Left(out) \o <<>> \o <<>> \o <<>> = Left(out)
    BY <2>3, ConcatEmptySeq
  <2> QED BY <2>2, <2>4 DEF IInv, Conserved
<1> QED BY InitIInv, NextIInv, <1>1, PTL DEF Spec
=============================================================================
