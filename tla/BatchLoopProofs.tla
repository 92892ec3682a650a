---------------------------- MODULE BatchLoopProofs ----------------------------
(***************************************************************************)
(* Proofs about BatchLoop for any envelopes, batch size, number of         *)
(* attempts, stream bound and set of faults.                               *)
(***************************************************************************)
EXTENDS BatchLoop, SequenceTheorems, FiniteSetTheorems, TLAPS

USE ConfigAssumption

LEMMA Empties ==
    /\ << >> \in Seq(Parsed)
    /\ << >> \in Seq(Envelope \cup {ReceiveError})
    /\ 0 \in 0..MaxAttempts /\ 1 \in 0..MaxAttempts
BY EmptySeq

LEMMA InitIInv == Init => IInv
<1> SUFFICES ASSUME Init PROVE IInv
  OBVIOUS
<1> USE DEF Init
<1>1. TypeOK
  BY Empties DEF TypeOK
<1>2. Pipeline
  BY DEF Pipeline
<1>3. BatchBounded /\ CleanReturnIsComplete
  BY DEF BatchBounded, CleanReturnIsComplete
<1>4. RecordedBeforeEnqueued
  <2>1. Range(accepted) \ ledger = {} /\ Unwritten = {}
    BY DEF Range, Unwritten
  <2> QED
    BY <2>1, FS_EmptySet DEF RecordedBeforeEnqueued, Range
<1>5. Control
  BY FS_EmptySet DEF Control, Running, Reopen
<1> QED
  BY <1>1, <1>2, <1>3, <1>4, <1>5 DEF IInv

-------------------------------------------------------------------------------
(* Sequences.                                                              *)

LEMMA AppendRange ==
    ASSUME NEW S, NEW s \in Seq(S), NEW e \in S
    PROVE  Range(Append(s, e)) = Range(s) \cup {e}
<1> DEFINE t == Append(s, e)
           n == Len(s)
<1>1. /\ DOMAIN s = 1..n /\ DOMAIN t = 1..(n + 1) /\ n \in Nat
      /\ \A i \in 1..n : t[i] = s[i]
      /\ t[n + 1] = e
  BY AppendProperties
<1> HIDE DEF t, n
<1>2. 1..(n + 1) = (1..n) \cup {n + 1}
  BY <1>1
<1>3. Range(t) \subseteq Range(s) \cup {e}
  BY <1>1, <1>2 DEF Range
<1>4. \A i \in 1..n : i \in 1..(n + 1)
  BY <1>2
<1>5. Range(s) \subseteq Range(t)
  BY <1>1, <1>4 DEF Range
<1>6. e \in Range(t)
  BY <1>1, <1>2 DEF Range
<1> QED
  BY <1>3, <1>5, <1>6 DEF t

LEMMA ConcatCids ==
    ASSUME NEW s \in Seq(Parsed), NEW t \in Seq(Parsed)
    PROVE  CidsOf(s \o t) = CidsOf(s) \cup CidsOf(t)
<1> DEFINE u == s \o t
<1>1. /\ Len(u) = Len(s) + Len(t) /\ u \in Seq(Parsed)
      /\ \A i \in 1..(Len(s) + Len(t)) :
            u[i] = IF i <= Len(s) THEN s[i] ELSE t[i - Len(s)]
      /\ Len(s) \in Nat /\ Len(t) \in Nat
  BY ConcatProperties
<1>2. DOMAIN u = 1..(Len(s) + Len(t)) /\ DOMAIN s = 1..Len(s) /\ DOMAIN t = 1..Len(t)
  BY <1>1
<1> HIDE DEF u
<1>3. ASSUME NEW i \in DOMAIN u PROVE CidOf[u[i]] \in CidsOf(s) \cup CidsOf(t)
  <2>1. CASE i <= Len(s)
    BY <1>1, <1>2, <2>1 DEF CidsOf
  <2>2. CASE i > Len(s)
    <3>1. i - Len(s) \in DOMAIN t /\ u[i] = t[i - Len(s)]
      BY <1>1, <1>2, <2>2
    <3> QED
      BY <3>1 DEF CidsOf
  <2> QED
    BY <1>1, <1>2, <2>1, <2>2
<1>4. ASSUME NEW i \in DOMAIN s PROVE CidOf[s[i]] \in CidsOf(u)
  <2>1. i \in DOMAIN u /\ u[i] = s[i]
    BY <1>1, <1>2
  <2> QED
    BY <2>1 DEF CidsOf
<1>5. ASSUME NEW i \in DOMAIN t PROVE CidOf[t[i]] \in CidsOf(u)
  <2>1. i + Len(s) \in DOMAIN u /\ u[i + Len(s)] = t[i]
    BY <1>1, <1>2
  <2> QED
    BY <2>1 DEF CidsOf
<1>6. CidsOf(u) = CidsOf(s) \cup CidsOf(t)
  BY <1>3, <1>4, <1>5 DEF CidsOf
<1> QED
  BY <1>6 DEF u

-------------------------------------------------------------------------------
(* Types.                                                                  *)

LEMMA HeadFacts ==
    ASSUME TypeOK, stream # << >>
    PROVE  /\ Head(stream) \in Envelope \cup {ReceiveError}
           /\ Tail(stream) \in Seq(Envelope \cup {ReceiveError})
BY HeadTailProperties DEF TypeOK

\* What an ingest may do to the file, whether it succeeds or breaks off.
LEMMA WriteEffect ==
    ASSUME NEW e, cut \in BOOLEAN, WriteLine(e) \/ WriteBreaksOff(e)
    PROVE  /\ ledger \subseteq ledger' /\ ledger' \subseteq ledger \cup {e}
           /\ tail' \subseteq tail \cup {e}
           /\ cut' \in BOOLEAN
           /\ (~cut => tail = {}) => (~cut' => tail' = {})
<1>1. CASE UNCHANGED <<ledger, tail, cut>>
  BY <1>1
<1>2. CASE cut' = TRUE /\ tail' \in {{}, IF cut THEN {} ELSE {e}} /\ ledger' = ledger
  BY <1>2
<1>3. CASE WriteLine(e)
  BY <1>3 DEF WriteLine
<1> QED
  BY <1>1, <1>2, <1>3 DEF WriteBreaksOff, fileVars

LEMMA WriteTypes ==
    ASSUME TypeOK, NEW e \in Envelope, WriteLine(e) \/ WriteBreaksOff(e)
    PROVE  ledger' \subseteq Envelope /\ tail' \subseteq Envelope /\ cut' \in BOOLEAN
  BY WriteEffect DEF TypeOK

LEMMA TypeStep == IInv /\ [Next]_vars => TypeOK'
<1> SUFFICES ASSUME IInv, [Next]_vars PROVE TypeOK'
  OBVIOUS
<1> USE DEF TypeOK, fileVars, subVars, ancVars, chainVars
<1>0. TypeOK
  BY DEF IInv
<1>1. ASSUME NEW item \in Envelope \cup {ReceiveError}, Broadcast(item)
      PROVE  TypeOK'
  <2>1. Append(stream, item) \in Seq(Envelope \cup {ReceiveError})
    BY <1>0, <1>1, AppendProperties
  <2> QED
    BY <1>0, <1>1, <2>1 DEF Broadcast
<1>2. CASE StreamEnds
  BY <1>0, <1>2 DEF StreamEnds
<1>3. CASE Skip
  BY <1>0, <1>3, HeadFacts DEF Skip, Take
<1>4. CASE Receive
  <2> DEFINE e == Head(stream)
  <2>1. e \in Envelope /\ Tail(stream) \in Seq(Envelope \cup {ReceiveError})
    BY <1>0, <1>4, HeadFacts DEF Receive, Take, NewItem
  <2>2. Valid(e) => /\ Append(channel, e) \in Seq(Parsed)
                    /\ Append(accepted, e) \in Seq(Parsed)
    <3>1. Valid(e) => e \in Parsed
      BY <2>1 DEF Parsed
    <3> QED
      BY <1>0, <3>1, AppendProperties
  <2>3. /\ channel' \in Seq(Parsed) /\ accepted' \in Seq(Parsed)
        /\ sub' \in {"run", "done"}
    BY <1>0, <1>4, <2>2 DEF Receive, Enqueue
  <2>4. /\ ledger' \subseteq Envelope /\ tail' \subseteq Envelope /\ cut' \in BOOLEAN
        /\ seen' \subseteq Envelope
    BY <1>0, <1>4, <2>1, WriteTypes DEF Receive, Record
  <2>5. /\ stream' \in Seq(Envelope \cup {ReceiveError})
        /\ delivered' \subseteq Envelope
    BY <1>0, <1>4, <2>1 DEF Receive, Take
  <2> QED
    BY <1>0, <1>4, <2>3, <2>4, <2>5 DEF Receive
<1>5. CASE IngestFails
  <2>1. Head(stream) \in Envelope /\ Tail(stream) \in Seq(Envelope \cup {ReceiveError})
    BY <1>0, <1>5, HeadFacts DEF IngestFails, Take, NewItem
  <2>2. ledger' \subseteq Envelope /\ tail' \subseteq Envelope /\ cut' \in BOOLEAN
    BY <1>0, <1>5, <2>1, WriteTypes DEF IngestFails
  <2> QED
    BY <1>0, <1>5, <2>1, <2>2 DEF IngestFails, Take
<1>6. CASE SubscriberEnds \/ SubscriberStops
  BY <1>0, <1>6 DEF SubscriberEnds, SubscriberStops, SubscriberDone
<1>7. CASE AnchorerReceives
  <2>1. Head(channel) \in Parsed /\ Tail(channel) \in Seq(Parsed)
    BY <1>0, <1>7, HeadTailProperties DEF AnchorerReceives
  <2>2. Append(buffer, Head(channel)) \in Seq(Parsed)
    BY <1>0, <2>1, AppendProperties
  <2> QED
    BY <1>0, <1>7, <2>1, <2>2, Empties DEF AnchorerReceives, StartFlush
<1>8. CASE ChannelClosed \/ IntervalTick \/ AnchorerShutdown
  BY <1>0, <1>8, Empties
     DEF ChannelClosed, IntervalTick, AnchorerShutdown, FlushAndStop, StartFlush
<1>9. CASE Submit
  <2>1. CidsOf(inflight) \subseteq Cid
    <3>1. \A e \in Parsed : CidOf[e] \in Cid
      BY EnvelopeAssumption DEF Parsed, Valid
    <3>2. \A i \in DOMAIN inflight : inflight[i] \in Parsed
      BY <1>0, LenProperties
    <3> QED
      BY <3>1, <3>2 DEF CidsOf
  <2> QED
    BY <1>0, <1>9, <2>1 DEF Submit
<1>10. CASE AttemptSucceeds
  BY <1>0, <1>10, Empties, ConcatProperties DEF AttemptSucceeds
<1>11. CASE AttemptFails
  BY <1>0, <1>11 DEF AttemptFails, MayRetry
<1>12. CASE GiveUp
  BY <1>0, <1>12, Empties DEF GiveUp
<1>13. CASE Join
  BY <1>0, <1>13 DEF Join
<1>14. ASSUME NEW batch \in mempool, Lands(batch) \/ IsLost(batch) PROVE TypeOK'
  BY <1>0, <1>14 DEF Lands, IsLost
<1>15. ASSUME NEW c \in Cid, SomebodyAnchors(c) PROVE TypeOK'
  BY <1>0, <1>15 DEF SomebodyAnchors
<1>16. CASE Interrupt \/ Restart
  BY <1>0, <1>16 DEF Interrupt, Restart, Reopen
<1>17. CASE Exit \/ Crash
  <2>1. ledger' \subseteq Envelope /\ tail' \subseteq Envelope /\ cut' \in BOOLEAN
    <3>1. CASE UNCHANGED fileVars
      BY <1>0, <3>1
    <3>2. CASE NewItem /\ WriteBreaksOff(Head(stream))
      BY <1>0, <3>2, HeadFacts, WriteTypes DEF NewItem
    <3> QED
      BY <1>17, <3>1, <3>2 DEF Exit, Crash
  <2> QED
    BY <1>0, <1>17, <2>1, Empties DEF Exit, Crash, GoDown
<1>18. CASE UNCHANGED vars
  BY <1>0, <1>18 DEF vars
<1> QED
  BY <1>1, <1>2, <1>3, <1>4, <1>5, <1>6, <1>7, <1>8, <1>9, <1>10, <1>11, <1>12,
     <1>13, <1>14, <1>15, <1>16, <1>17, <1>18
     DEF Next, Topic, Subscriber, Anchorer, Chain, Process

-------------------------------------------------------------------------------
(* The steps, by what they touch.                                          *)

\* A step that has nothing to do with the pipeline.
Aside ==
    /\ UNCHANGED <<channel, accepted, ancVars>>
    /\ anchored \subseteq anchored'
    /\ shutdown => shutdown'
    /\ sub = "done" => sub' = "done"
    /\ anc = "down" => UNCHANGED <<fileVars, seen, stream, sub, shutdown>>
    /\ UNCHANGED <<fileVars, seen>> \/ IngestFails

LEMMA StepCases ==
    ASSUME [Next]_vars
    PROVE  \/ Aside
           \/ Receive
           \/ AnchorerReceives \/ ChannelClosed \/ IntervalTick \/ AnchorerShutdown
           \/ Submit \/ AttemptSucceeds \/ AttemptFails \/ GiveUp \/ Join
           \/ Exit \/ Crash \/ Restart
<1> USE DEF Aside, Running, Polling, Take, fileVars, subVars, ancVars, chainVars
<1>1. (\E item \in Envelope \cup {ReceiveError} : Broadcast(item)) => Aside
  BY DEF Broadcast
<1>2. StreamEnds \/ Skip \/ IngestFails \/ SubscriberEnds \/ SubscriberStops => Aside
  BY DEF StreamEnds, Skip, IngestFails, SubscriberEnds, SubscriberStops,
         SubscriberDone
<1>3. ASSUME NEW batch \in mempool, Lands(batch) \/ IsLost(batch) PROVE Aside
  BY <1>3 DEF Lands, IsLost
<1>4. (\E c \in Cid : SomebodyAnchors(c)) => Aside
  BY DEF SomebodyAnchors
<1>5. Interrupt \/ UNCHANGED vars => Aside
  BY DEF Interrupt, vars
<1> QED
  BY <1>1, <1>2, <1>3, <1>4, <1>5
     DEF Next, Topic, Subscriber, Anchorer, Chain, Process

-------------------------------------------------------------------------------
(* Nothing is lost, duplicated or overtaken.                               *)

\* Taking the head of the channel into the buffer keeps their concatenation.
LEMMA Shift ==
    ASSUME NEW b \in Seq(Parsed), NEW c \in Seq(Parsed), c # << >>
    PROVE  Append(b, Head(c)) \o Tail(c) = b \o c
<1>1. Head(c) \in Parsed /\ Tail(c) \in Seq(Parsed) /\ Len(Tail(c)) = Len(c) - 1
      /\ \A i \in 1..Len(Tail(c)) : Tail(c)[i] = c[i + 1]
  BY HeadTailProperties
<1>2. Head(c) = c[1] /\ Len(c) \in Nat \ {0} /\ Len(b) \in Nat
  BY EmptySeq
<1> DEFINE l == Append(b, Head(c))
<1>3. /\ l \in Seq(Parsed) /\ Len(l) = Len(b) + 1
      /\ \A i \in 1..Len(b) : l[i] = b[i]
      /\ l[Len(b) + 1] = Head(c)
  BY <1>1, AppendProperties
<1> HIDE DEF l
<1>4. /\ l \o Tail(c) \in Seq(Parsed)
      /\ Len(l \o Tail(c)) = Len(l) + Len(Tail(c))
      /\ \A i \in 1..(Len(l) + Len(Tail(c))) :
           (l \o Tail(c))[i] = IF i <= Len(l) THEN l[i] ELSE Tail(c)[i - Len(l)]
  BY <1>1, <1>3, ConcatProperties
<1>5. /\ b \o c \in Seq(Parsed)
      /\ Len(b \o c) = Len(b) + Len(c)
      /\ \A i \in 1..(Len(b) + Len(c)) :
           (b \o c)[i] = IF i <= Len(b) THEN b[i] ELSE c[i - Len(b)]
  BY ConcatProperties
<1>6. Len(l \o Tail(c)) = Len(b \o c)
  BY <1>1, <1>2, <1>3, <1>4, <1>5
<1>7. ASSUME NEW i \in 1..Len(b \o c) PROVE (l \o Tail(c))[i] = (b \o c)[i]
  <2>1. CASE i <= Len(b)
    BY <1>1, <1>2, <1>3, <1>4, <1>5, <2>1
  <2>2. CASE i = Len(b) + 1
    <3>1. (l \o Tail(c))[i] = l[i] /\ l[i] = c[1]
      BY <1>1, <1>2, <1>3, <1>4, <1>5, <2>2
    <3>2. (b \o c)[i] = c[1]
      BY <1>2, <1>5, <2>2
    <3> QED
      BY <3>1, <3>2
  <2>3. CASE i > Len(b) + 1
    <3>1. (l \o Tail(c))[i] = Tail(c)[i - (Len(b) + 1)]
      BY <1>1, <1>2, <1>3, <1>4, <1>5, <2>3
    <3>2. Tail(c)[i - (Len(b) + 1)] = c[i - Len(b)]
      BY <1>1, <1>2, <1>5, <2>3
    <3>3. (b \o c)[i] = c[i - Len(b)]
      BY <1>2, <1>5, <2>3
    <3> QED
      BY <3>1, <3>2, <3>3
  <2>4. i \in Nat
    BY <1>2, <1>5
  <2>5. i <= Len(b) \/ i = Len(b) + 1 \/ i > Len(b) + 1
    BY <1>2, <2>4
  <2> QED
    BY <2>1, <2>2, <2>3, <2>5
<1>8. l \o Tail(c) = b \o c
  BY <1>4, <1>5, <1>6, <1>7, SeqEqual
<1> QED
  BY <1>8 DEF l

LEMMA PipelineStep == IInv /\ [Next]_vars => Pipeline'
<1> SUFFICES ASSUME IInv, [Next]_vars, anc' # "failed"
             PROVE  accepted' = flushed' \o inflight' \o buffer' \o channel'
  BY DEF Pipeline
<1>1. /\ channel \in Seq(Parsed) /\ accepted \in Seq(Parsed) /\ buffer \in Seq(Parsed)
      /\ inflight \in Seq(Parsed) /\ flushed \in Seq(Parsed)
  BY DEF IInv, TypeOK
<1>2. anc # "failed" => accepted = flushed \o inflight \o buffer \o channel
  BY DEF IInv, Pipeline
<1>3. anc = "select" => inflight = << >>
  BY DEF IInv, BatchBounded
<1>4. anc # "select" => buffer = << >>
  BY DEF IInv, Control
<1> DEFINE front == flushed \o inflight \o buffer
<1>5. front \in Seq(Parsed) /\ flushed \o inflight \in Seq(Parsed)
  BY <1>1, ConcatProperties
<1>6. CASE Aside
  BY <1>2, <1>6 DEF Aside, ancVars
<1>7. CASE Receive
  <2>1. CASE UNCHANGED <<channel, accepted>>
    BY <1>2, <1>7, <2>1 DEF Receive, ancVars
  <2>2. CASE Valid(Head(stream)) /\ Enqueue(Head(stream))
    <3> DEFINE e == Head(stream)
    <3>1. e \in Parsed
      BY <1>7, <2>2, HeadFacts DEF Receive, Take, NewItem, IInv, Parsed
    <3>2. Append(front \o channel, e) = (front \o channel) \o <<e>>
      BY <1>1, <1>5, <3>1, ConcatProperties, AppendIsConcat
    <3>3. (front \o channel) \o <<e>> = front \o (channel \o <<e>>)
      <4>1. <<e>> \in Seq(Parsed) /\ channel \in Seq(Parsed) /\ front \in Seq(Parsed)
        BY <1>1, <1>5, <3>1
      <4> HIDE DEF front, e
      <4> QED
        BY <4>1, ConcatAssociative
    <3>4. Append(channel, e) = channel \o <<e>>
      BY <1>1, <3>1, AppendIsConcat
    <3>5. /\ accepted' = Append(accepted, e) /\ channel' = Append(channel, e)
          /\ flushed' = flushed /\ inflight' = inflight /\ buffer' = buffer
          /\ anc' = anc
      BY <1>7, <2>2 DEF Receive, Enqueue, ancVars
    <3> QED
      BY <1>2, <3>2, <3>3, <3>4, <3>5
  <2> QED
    BY <1>7, <2>1, <2>2 DEF Receive
<1>8. CASE AnchorerReceives
  <2> DEFINE l == Append(buffer, Head(channel))
  <2>1. /\ l \o Tail(channel) = buffer \o channel
        /\ l \in Seq(Parsed) /\ Tail(channel) \in Seq(Parsed)
    BY <1>1, <1>8, Shift, HeadTailProperties, AppendProperties DEF AnchorerReceives
  <2>2. /\ anc = "select" /\ inflight = << >> /\ accepted' = accepted
        /\ channel' = Tail(channel) /\ flushed' = flushed
        /\ \/ inflight' = << >> /\ buffer' = l
           \/ inflight' = l /\ buffer' = << >>
    BY <1>3, <1>8 DEF AnchorerReceives, StartFlush
  <2>3. accepted = flushed \o (buffer \o channel)
    <3>1. accepted = (flushed \o buffer) \o channel
      BY <1>1, <1>2, <2>2, ConcatEmptySeq
    <3> QED
      BY <1>1, <3>1, ConcatAssociative
  <2> HIDE DEF l
  <2>4. accepted = (flushed \o l) \o Tail(channel)
    <3>1. (flushed \o l) \o Tail(channel) = flushed \o (l \o Tail(channel))
      <4>1. /\ flushed \in Seq(Parsed) /\ l \in Seq(Parsed)
            /\ Tail(channel) \in Seq(Parsed)
        BY <1>1, <2>1
      <4> QED
        BY <4>1, ConcatAssociative
    <3>2. accepted = flushed \o (l \o Tail(channel))
      BY <2>1, <2>3, Zenon
    <3> QED
      BY <3>1, <3>2, Zenon
  <2>5. flushed \o l \in Seq(Parsed)
    BY <1>1, <2>1, ConcatProperties
  <2>6. /\ flushed \o << >> = flushed
        /\ (flushed \o l) \o << >> = flushed \o l
    BY <1>1, <2>5, ConcatEmptySeq
  <2> QED
    BY <2>2, <2>4, <2>6
<1>9. CASE ChannelClosed \/ IntervalTick \/ AnchorerShutdown
  <2>1. /\ anc = "select" /\ inflight = << >>
        /\ accepted' = accepted /\ channel' = channel /\ flushed' = flushed
        /\ \/ inflight' = buffer /\ buffer' = << >>
           \/ inflight' = inflight /\ buffer' = buffer
    BY <1>3, <1>9
       DEF ChannelClosed, IntervalTick, AnchorerShutdown, FlushAndStop, StartFlush
  <2>2. flushed \o << >> \o buffer = flushed \o buffer \o << >>
    BY <1>1, ConcatEmptySeq, ConcatProperties
  <2> QED
    BY <1>2, <2>1, <2>2
<1>10. CASE Submit \/ AttemptFails \/ Join
  <2>1. /\ anc # "failed"
        /\ UNCHANGED <<accepted, flushed, inflight, buffer, channel>>
    BY <1>10 DEF Submit, AttemptFails, Join
  <2> QED
    BY <1>2, <2>1
<1>11. CASE AttemptSucceeds
  <2>1. /\ anc = "await" /\ flushed' = flushed \o inflight /\ inflight' = << >>
        /\ UNCHANGED <<accepted, buffer, channel>>
    BY <1>11 DEF AttemptSucceeds
  <2>2. (flushed \o inflight) \o << >> = flushed \o inflight
    BY <1>5, ConcatEmptySeq
  <2> QED
    BY <1>2, <2>1, <2>2
<1>12. CASE GiveUp
  BY <1>12 DEF GiveUp
<1>13. CASE Exit \/ Crash
  <2>1. /\ accepted' = << >> /\ flushed' = << >> /\ inflight' = << >>
        /\ buffer' = << >> /\ channel' = << >>
    BY <1>13 DEF Exit, Crash, GoDown
  <2>2. << >> \o << >> = << >>
    BY Empties, ConcatEmptySeq
  <2> QED
    BY <2>1, <2>2
<1>14. CASE Restart
  BY <1>2, <1>14 DEF Restart
<1> QED
  BY <1>6, <1>7, <1>8, <1>9, <1>10, <1>11, <1>12, <1>13, <1>14, StepCases

-------------------------------------------------------------------------------
(* The other parts of the invariant.                                       *)

LEMMA BatchBoundedStep == IInv /\ [Next]_vars => BatchBounded'
<1> SUFFICES ASSUME IInv, [Next]_vars PROVE BatchBounded'
  OBVIOUS
<1>1. /\ buffer \in Seq(Parsed) /\ channel \in Seq(Parsed)
      /\ after \in {"select", "stopped"}
  BY DEF IInv, TypeOK
<1>2. BatchBounded
  BY DEF IInv
<1>3. Len(<< >>) = 0 /\ 0 < BatchSize
  OBVIOUS
<1> USE DEF BatchBounded
<1>4. CASE Aside
  BY <1>2, <1>4 DEF Aside, ancVars
<1>5. CASE Receive
  BY <1>2, <1>5 DEF Receive, ancVars
<1>6. CASE AnchorerReceives
  <2> DEFINE l == Append(buffer, Head(channel))
  <2>1. Len(l) = Len(buffer) + 1 /\ l # << >> /\ Len(buffer) \in Nat
    <3>1. Head(channel) \in Parsed
      BY <1>1, <1>6, HeadTailProperties DEF AnchorerReceives
    <3> QED
      BY <1>1, <3>1, AppendProperties
  <2>2. Len(l) <= BatchSize
    BY <1>2, <2>1
  <2>3. CASE Full(l)
    <3>1. inflight' = l /\ buffer' = << >> /\ anc' = "submit"
      BY <1>6, <2>3 DEF AnchorerReceives, StartFlush
    <3> QED
      BY <1>3, <2>1, <2>2, <3>1
  <2>4. CASE ~Full(l)
    <3>1. inflight' = inflight /\ buffer' = l /\ anc' = "select" /\ anc = "select"
      BY <1>6, <2>4 DEF AnchorerReceives
    <3> QED
      BY <1>2, <2>1, <2>4, <3>1 DEF Full
  <2> QED
    BY <2>3, <2>4
<1>7. CASE ChannelClosed \/ IntervalTick \/ AnchorerShutdown
  <2>1. /\ anc = "select"
        /\ \/ inflight' = buffer /\ buffer' = << >> /\ buffer # << >> /\ anc' = "submit"
           \/ inflight' = inflight /\ buffer' = buffer /\ anc' = "stopped"
    BY <1>7
       DEF ChannelClosed, IntervalTick, AnchorerShutdown, FlushAndStop, StartFlush
  <2> QED
    BY <1>1, <1>2, <1>3, <2>1
<1>8. CASE Submit \/ AttemptFails \/ Join
  BY <1>2, <1>8 DEF Submit, AttemptFails, Join
<1>9. CASE AttemptSucceeds
  BY <1>1, <1>2, <1>3, <1>9 DEF AttemptSucceeds
<1>10. CASE GiveUp
  BY <1>3, <1>10 DEF GiveUp
<1>11. CASE Exit \/ Crash
  BY <1>3, <1>11 DEF Exit, Crash, GoDown
<1>12. CASE Restart
  BY <1>2, <1>12 DEF Restart
<1> QED
  BY <1>4, <1>5, <1>6, <1>7, <1>8, <1>9, <1>10, <1>11, <1>12, StepCases

LEMMA CleanReturnStep == IInv /\ [Next]_vars => CleanReturnIsComplete'
<1> SUFFICES ASSUME IInv, [Next]_vars, anc' = "returned", ~shutdown'
             PROVE  accepted' = flushed'
  BY DEF CleanReturnIsComplete
<1>1. /\ Control /\ BatchBounded /\ Pipeline /\ after \in {"select", "stopped"}
      /\ flushed \in Seq(Parsed)
  BY DEF IInv, TypeOK
<1>2. anc = "returned" /\ ~shutdown => accepted = flushed
  BY DEF IInv, CleanReturnIsComplete
<1>3. CASE Aside
  BY <1>2, <1>3 DEF Aside, ancVars
<1>4. CASE Receive
  BY <1>1, <1>4 DEF Receive, Take, Polling, Control, ancVars
<1>5. CASE Join
  <2>1. /\ anc = "stopped" /\ ~shutdown
        /\ accepted' = accepted /\ flushed' = flushed
    BY <1>5 DEF Join
  <2>2. channel = << >> /\ buffer = << >> /\ inflight = << >>
    BY <1>1, <2>1 DEF Control, BatchBounded
  <2>3. accepted = flushed \o << >> \o << >> \o << >>
    BY <1>1, <2>1, <2>2 DEF Pipeline
  <2>4. flushed \o << >> = flushed
    BY <1>1, ConcatEmptySeq
  <2> QED
    BY <2>1, <2>3, <2>4
<1>6. ~(AnchorerReceives \/ ChannelClosed \/ IntervalTick \/ AnchorerShutdown)
  BY DEF AnchorerReceives, ChannelClosed, IntervalTick, AnchorerShutdown,
         FlushAndStop, StartFlush
<1>7. ~(Submit \/ AttemptSucceeds \/ AttemptFails \/ GiveUp)
  BY <1>1 DEF Submit, AttemptSucceeds, AttemptFails, GiveUp
<1>8. ~(Exit \/ Crash \/ Restart)
  BY DEF Exit, Crash, GoDown, Restart
<1> QED
  BY <1>3, <1>4, <1>5, <1>6, <1>7, <1>8, StepCases

\* What Receive does to the ledger and to the history of the channel.
LEMMA ItemIsNew ==
    ASSUME IInv, NewItem
    PROVE  Head(stream) \in Envelope \ seen
  BY HeadFacts DEF NewItem, IInv

LEMMA ReceiveEffect ==
    ASSUME IInv, Receive
    PROVE  /\ Head(stream) \in Envelope \ seen
           /\ seen' = seen \cup {Head(stream)}
           /\ WriteLine(Head(stream))
           /\ anc # "down" /\ sub = "run"
           /\ \/ /\ Head(stream) \in Parsed /\ anc # "failed"
                 /\ accepted' = Append(accepted, Head(stream))
                 /\ channel' = Append(channel, Head(stream))
                 /\ sub' = sub
              \/ /\ Head(stream) \in Parsed /\ anc = "failed"
                 /\ UNCHANGED <<accepted, channel>>
              \/ /\ Head(stream) \notin Parsed
                 /\ UNCHANGED <<accepted, channel, sub>>
<1>1. Head(stream) \in Envelope \ seen
  BY ItemIsNew DEF Receive
<1> QED
  BY <1>1 DEF Receive, Take, Polling, Running, Record, Enqueue, Parsed

\* A line more, and the place of an envelope in the file.
LEMMA OneMoreUnwritten ==
    ASSUME NEW A, NEW U, NEW B, NEW V, NEW e, NEW c \in BOOLEAN, NEW d \in BOOLEAN,
           IsFiniteSet(A), IsFiniteSet(U), e \notin A, e \notin U,
           Cardinality(A) + (IF c THEN 1 ELSE 0) <= Cardinality(U) + 1,
           \/ B = A /\ V = U \cup {e}
           \/ B = A /\ V = U /\ (d => c)
           \/ B = A \cup {e} /\ V = U /\ c /\ ~d
    PROVE  Cardinality(B) + (IF d THEN 1 ELSE 0) <= Cardinality(V) + 1
<1>1. Cardinality(A) \in Nat /\ Cardinality(U) \in Nat
  BY FS_CardinalityType
<1>2. Cardinality(A \cup {e}) = Cardinality(A) + 1
  BY FS_AddElement
<1>3. Cardinality(U \cup {e}) = Cardinality(U) + 1
  BY FS_AddElement
<1> QED
  BY <1>1, <1>2, <1>3

\* The sets that are counted, before a step that takes a new item.
LEMMA CountedSets ==
    ASSUME IInv, NewItem, anc # "down"
    PROVE  /\ IsFiniteSet(Range(accepted) \ ledger) /\ IsFiniteSet(Unwritten)
           /\ Head(stream) \notin Range(accepted) \cup ledger \cup Unwritten
           /\ Range(accepted) \subseteq seen /\ ledger \subseteq seen
<1>1. Range(accepted) \subseteq seen /\ ledger \subseteq seen /\ IsFiniteSet(seen)
  BY DEF IInv, RecordedBeforeEnqueued, Control, Running, Reopen
<1>2. Head(stream) \notin seen
  BY ItemIsNew
<1>3. Range(accepted) \ ledger \subseteq seen /\ Unwritten \subseteq seen
  BY <1>1 DEF Unwritten
<1> QED
  BY <1>1, <1>2, <1>3, FS_Subset

LEMMA RecordedStep == IInv /\ [Next]_vars => RecordedBeforeEnqueued'
<1> SUFFICES ASSUME IInv, [Next]_vars PROVE RecordedBeforeEnqueued'
  OBVIOUS
<1>1. RecordedBeforeEnqueued /\ accepted \in Seq(Parsed) /\ cut \in BOOLEAN
  BY DEF IInv, TypeOK
<1> USE DEF RecordedBeforeEnqueued
<1>2. CASE UNCHANGED <<accepted, fileVars, seen>>
  BY <1>1, <1>2 DEF fileVars, Unwritten
<1>3. ASSUME NewItem, anc # "down", seen' = seen \cup {Head(stream)},
             UNCHANGED accepted, WriteBreaksOff(Head(stream))
      PROVE  RecordedBeforeEnqueued'
  <2> DEFINE e == Head(stream)
             A == Range(accepted) \ ledger
             U == Unwritten
  <2>1. /\ IsFiniteSet(A) /\ IsFiniteSet(U)
        /\ e \notin Range(accepted) \cup ledger \cup U
    BY <1>3, CountedSets
  <2>2. cut' \in BOOLEAN
    BY <1>1, <1>3, WriteEffect
  <2>3. \/ A' = A /\ U' = U \cup {e}
        \/ A' = A /\ U' = U /\ (cut' => cut)
    <3>1. CASE ledger' = ledger
      BY <1>3, <2>1, <3>1 DEF Unwritten
    <3>2. CASE ledger' = ledger \cup {e} /\ ~cut'
      <4>1. A' = A /\ U' = U
        BY <1>3, <2>1, <3>2 DEF Unwritten
      <4> QED
        BY <3>2, <4>1
    <3> QED
      BY <1>3, <3>1, <3>2 DEF WriteBreaksOff, WriteLine, fileVars
  <2>4. Cardinality(A) + (IF cut THEN 1 ELSE 0) <= Cardinality(U) + 1
    BY <1>1
  <2>5. Cardinality(A') + (IF cut' THEN 1 ELSE 0) <= Cardinality(U') + 1
    <3> HIDE DEF A, U, e
    <3> QED
      BY <1>1, <2>1, <2>2, <2>3, <2>4, OneMoreUnwritten DEF A, U
  <2>6. Range(accepted') \subseteq seen'
    BY <1>1, <1>3
  <2> QED
    BY <1>1, <1>3, <2>5, <2>6
<1>4. CASE IngestFails
  BY <1>3, <1>4 DEF IngestFails, Take, Polling, Running
<1>5. CASE Receive
  <2> DEFINE e == Head(stream)
             A == Range(accepted) \ ledger
             U == Unwritten
  <2>0. /\ NewItem /\ anc # "down" /\ seen' = seen \cup {e} /\ WriteLine(e)
        /\ e \in Envelope \ seen
    BY <1>5, ReceiveEffect DEF Receive
  <2>1. CASE UNCHANGED accepted
    BY <1>3, <2>0, <2>1 DEF WriteBreaksOff
  <2>2. CASE accepted' = Append(accepted, e) /\ e \in Parsed
    <3>1. /\ IsFiniteSet(A) /\ IsFiniteSet(U)
          /\ e \notin Range(accepted) \cup ledger \cup U
      BY <2>0, CountedSets
    <3>2. Range(accepted') = Range(accepted) \cup {e}
      BY <1>1, <2>2, AppendRange
    <3>3. ~cut' /\ ledger' = IF cut THEN ledger ELSE ledger \cup {e}
      BY <2>0 DEF WriteLine
    <3>4. \/ A' = A /\ U' = U /\ (cut' => cut)
          \/ A' = A \cup {e} /\ U' = U /\ cut /\ ~cut'
      <4>1. CASE cut
        BY <2>0, <3>1, <3>2, <3>3, <4>1 DEF Unwritten
      <4>2. CASE ~cut
        <5>1. A' = A /\ U' = U
          BY <2>0, <3>1, <3>2, <3>3, <4>2 DEF Unwritten
        <5> QED
          BY <3>3, <5>1
      <4> QED
        BY <4>1, <4>2
    <3>5. Cardinality(A) + (IF cut THEN 1 ELSE 0) <= Cardinality(U) + 1
      BY <1>1
    <3>6. Cardinality(A') + (IF cut' THEN 1 ELSE 0) <= Cardinality(U') + 1
      <4> HIDE DEF A, U, e
      <4> QED
        BY <1>1, <3>1, <3>3, <3>4, <3>5, OneMoreUnwritten DEF A, U
    <3>7. /\ Len(accepted) \in Nat /\ DOMAIN accepted = 1..Len(accepted)
          /\ DOMAIN accepted' = 1..(Len(accepted) + 1)
          /\ \A i \in 1..Len(accepted) : accepted'[i] = accepted[i]
          /\ accepted'[Len(accepted) + 1] = e
      BY <1>1, <2>2, AppendProperties
    <3>8. \A i \in 1..Len(accepted) : accepted[i] # e
      BY <3>1, <3>7 DEF Range
    <3>9. ASSUME NEW i \in DOMAIN accepted', NEW j \in DOMAIN accepted',
                 accepted'[i] = accepted'[j]
          PROVE  i = j
      BY <1>1, <3>7, <3>8, <3>9
    <3>10. Range(accepted') \subseteq seen'
      BY <1>1, <2>0, <3>2
    <3> QED
      BY <3>6, <3>9, <3>10
  <2> QED
    BY <1>5, <2>1, <2>2, ReceiveEffect
<1>6. ASSUME accepted' = << >>, IsFiniteSet(seen')
      PROVE  RecordedBeforeEnqueued'
  <2>1. Range(accepted') = {} /\ Range(accepted') \ ledger' = {}
    BY <1>6 DEF Range
  <2>2. Unwritten' \subseteq seen'
    BY DEF Unwritten
  <2>3. Cardinality(Unwritten') \in Nat
    BY <1>6, <2>2, FS_Subset, FS_CardinalityType
  <2>4. Cardinality(Range(accepted') \ ledger') = 0
    BY <2>1, FS_EmptySet
  <2> QED
    BY <1>6, <2>1, <2>3, <2>4
<1>7. CASE Exit \/ Crash
  BY <1>6, <1>7, FS_EmptySet DEF Exit, Crash, GoDown
<1>8. CASE Restart
  <2>1. accepted' = << >>
    BY <1>8 DEF Restart, IInv, Control
  <2>2. IsFiniteSet(seen')
    BY <1>8 DEF Restart, IInv, Control
  <2> QED
    BY <1>6, <2>1, <2>2
<1>9. Aside => UNCHANGED <<accepted, fileVars, seen>> \/ IngestFails
  BY DEF Aside
<1>10. AnchorerReceives \/ ChannelClosed \/ IntervalTick \/ AnchorerShutdown
         => UNCHANGED <<accepted, fileVars, seen>>
  BY DEF AnchorerReceives, ChannelClosed, IntervalTick, AnchorerShutdown, subVars
<1>11. Submit \/ AttemptSucceeds \/ AttemptFails \/ GiveUp \/ Join
         => UNCHANGED <<accepted, fileVars, seen>>
  BY DEF Submit, AttemptSucceeds, AttemptFails, GiveUp, Join, subVars
<1> QED
  BY <1>2, <1>4, <1>5, <1>7, <1>8, <1>9, <1>10, <1>11, StepCases

\* The file stays behind what is remembered while an ingest writes it.
LEMMA FileStep ==
    ASSUME IInv, NewItem, WriteLine(Head(stream)) \/ WriteBreaksOff(Head(stream))
    PROVE  /\ Reopen' \subseteq Reopen \cup {Head(stream)}
           /\ ~cut' => tail' = {}
           /\ IsFiniteSet(Reopen') /\ IsFiniteSet(seen \cup {Head(stream)})
<1>1. cut \in BOOLEAN /\ (~cut => tail = {}) /\ IsFiniteSet(Reopen) /\ IsFiniteSet(seen)
  BY DEF IInv, TypeOK, Control
<1>2. Reopen' \subseteq Reopen \cup {Head(stream)} /\ (~cut' => tail' = {})
  BY <1>1, WriteEffect DEF Reopen
<1>3. IsFiniteSet(Reopen \cup {Head(stream)}) /\ IsFiniteSet(seen \cup {Head(stream)})
  BY <1>1, FS_AddElement
<1> QED
  BY <1>2, <1>3, FS_Subset

LEMMA ControlStep == IInv /\ [Next]_vars => Control'
<1> SUFFICES ASSUME IInv, [Next]_vars PROVE Control'
  OBVIOUS
<1>1. Control /\ after \in {"select", "stopped"}
  BY DEF IInv, TypeOK
<1> USE DEF Control, Running
<1>2. CASE Aside /\ UNCHANGED <<fileVars, seen>>
  BY <1>1, <1>2 DEF Aside, ancVars, fileVars, Reopen
<1>3. CASE Aside /\ IngestFails
  <2>1. /\ anc # "down" /\ NewItem /\ seen' = seen \cup {Head(stream)}
        /\ WriteBreaksOff(Head(stream))
    BY <1>3 DEF IngestFails, Take, Polling
  <2>2. /\ Reopen' \subseteq Reopen \cup {Head(stream)} /\ (~cut' => tail' = {})
        /\ IsFiniteSet(Reopen') /\ IsFiniteSet(seen')
    BY <2>1, FileStep
  <2> QED
    BY <1>1, <1>3, <2>1, <2>2 DEF Aside, ancVars
<1>4. CASE Receive
  <2>1. UNCHANGED ancVars /\ shutdown' = shutdown /\ NewItem
    BY <1>4 DEF Receive
  <2>2. /\ Reopen' \subseteq Reopen \cup {Head(stream)} /\ (~cut' => tail' = {})
        /\ IsFiniteSet(Reopen') /\ IsFiniteSet(seen')
    BY <1>4, <2>1, ReceiveEffect, FileStep
  <2> QED
    BY <1>1, <1>4, <2>1, <2>2, ReceiveEffect DEF ancVars
<1>5. ASSUME UNCHANGED <<fileVars, seen>>
      PROVE  /\ Reopen' = Reopen /\ (~cut' => tail' = {})
             /\ IsFiniteSet(Reopen') /\ IsFiniteSet(seen')
  BY <1>1, <1>5 DEF fileVars, Reopen
<1>6. CASE AnchorerReceives
  BY <1>1, <1>5, <1>6 DEF AnchorerReceives, StartFlush, subVars
<1>7. CASE ChannelClosed \/ IntervalTick \/ AnchorerShutdown
  BY <1>1, <1>5, <1>7 DEF ChannelClosed, IntervalTick, AnchorerShutdown, FlushAndStop,
                    StartFlush, subVars
<1>8. CASE Submit \/ AttemptSucceeds \/ AttemptFails
  BY <1>1, <1>5, <1>8 DEF Submit, AttemptSucceeds, AttemptFails, subVars
<1>9. CASE GiveUp \/ Join
  BY <1>1, <1>5, <1>9 DEF GiveUp, Join, subVars
<1>10. CASE Exit \/ Crash
  <2>1. GoDown
    BY <1>10 DEF Exit, Crash
  <2>2. (~cut' => tail' = {}) /\ IsFiniteSet(Reopen')
    <3>1. CASE UNCHANGED fileVars
      BY <1>1, <3>1 DEF fileVars, Reopen
    <3>2. CASE NewItem /\ WriteBreaksOff(Head(stream))
      BY <3>2, FileStep
    <3> QED
      BY <1>10, <3>1, <3>2 DEF Exit, Crash
  <2>3. IsFiniteSet(seen')
    BY <2>1, FS_EmptySet DEF GoDown
  <2> QED
    BY <2>1, <2>2, <2>3 DEF GoDown
<1>11. CASE Restart
  BY <1>1, <1>11 DEF Restart, Reopen, fileVars
<1> QED
  BY <1>2, <1>3, <1>4, <1>6, <1>7, <1>8, <1>9, <1>10, <1>11, StepCases DEF Aside

-------------------------------------------------------------------------------
(* The theorems.                                                           *)

\* The inductive invariant holds in every behaviour, whatever the faults.
THEOREM Invariance == Spec => []IInv
<1>1. IInv /\ [Next]_vars => IInv'
  BY TypeStep, PipelineStep, BatchBoundedStep, CleanReturnStep,
     RecordedStep, ControlStep DEF IInv
<1> QED
  BY InitIInv, <1>1, PTL DEF Spec

\* Type correctness of the batch loop: in particular, only envelopes that
\* parsed are ever in the channel, the buffer or a batch.
THEOREM TypeCorrect == Spec => []TypeOK
<1>1. IInv => TypeOK
  BY DEF IInv
<1> QED
  BY Invariance, <1>1, PTL

\* Between the two tasks nothing is lost, duplicated or reordered, for every
\* batch size and every interleaving.
THEOREM PipelineExact == Spec => []Pipeline
<1>1. IInv => Pipeline
  BY DEF IInv
<1> QED
  BY Invariance, <1>1, PTL

\* A batch has at most batch_size entries, and is never empty.
THEOREM BatchesBounded == Spec => []BatchBounded
<1>1. IInv => BatchBounded
  BY DEF IInv
<1> QED
  BY Invariance, <1>1, PTL

\* A run that ends by itself and without an error has anchored everything it
\* took from the topic.
THEOREM CleanReturn == Spec => []CleanReturnIsComplete
<1>1. IInv => CleanReturnIsComplete
  BY DEF IInv
<1> QED
  BY Invariance, <1>1, PTL

\* After SIGINT too, only what is still in the channel when the loop returns is
\* given up: the batch in flight and the buffer are flushed first.
THEOREM ReturnFlushes == Spec => []ReturnFlushesBuffer
<1>1. IInv => ReturnFlushesBuffer
  <2> SUFFICES ASSUME IInv, anc = "returned"
               PROVE  accepted = flushed \o channel
    BY DEF ReturnFlushesBuffer
  <2>1. inflight = << >> /\ buffer = << >>
    BY DEF IInv, BatchBounded, Control
  <2>2. accepted = flushed \o << >> \o << >> \o channel
    BY <2>1 DEF IInv, Pipeline
  <2>3. flushed \o << >> = flushed
    BY ConcatEmptySeq DEF IInv, TypeOK
  <2> QED
    BY <2>2, <2>3
<1> QED
  BY Invariance, <1>1, PTL

\* An envelope is enqueued once, and with a line of its own in the ledger: of all
\* that a run enqueued, the file lacks at most one for the run before, if that was
\* killed while it wrote, and one for each ingest that failed.
THEOREM WriteAhead == Spec => []RecordedBeforeEnqueued
<1>1. IInv => RecordedBeforeEnqueued
  BY DEF IInv
<1> QED
  BY Invariance, <1>1, PTL

LEMMA NeverAgainStep ==
    IInv /\ [Next]_vars => [\A e \in ledger : accepted' # Append(accepted, e)]_vars
<1> SUFFICES ASSUME IInv, [Next]_vars, NEW e \in ledger,
                    accepted' = Append(accepted, e)
             PROVE  FALSE
  OBVIOUS
<1>1. accepted \in Seq(Parsed) /\ ledger \subseteq Envelope
  BY DEF IInv, TypeOK
<1>2. accepted' # accepted
  BY <1>1, AppendProperties
<1>3. accepted' # << >>
  BY <1>1
<1>4. CASE Receive
  <2>1. /\ accepted' = Append(accepted, Head(stream)) /\ Head(stream) \in Envelope
        /\ Head(stream) \notin seen /\ anc # "down"
    BY <1>2, <1>4, ReceiveEffect
  <2>2. Head(stream) = e
    <3>1. accepted \in Seq(Envelope) /\ e \in Envelope
      BY <1>1, SeqMonotonic DEF Parsed
    <3>2. Append(accepted, e) = Append(accepted, Head(stream))
      BY <2>1
    <3>3. Head(stream) \in Envelope
      BY <2>1
    <3> DEFINE h == Head(stream)
    <3> HIDE DEF h
    <3>4. h \in Envelope /\ Append(accepted, e) = Append(accepted, h)
      BY <3>2, <3>3 DEF h
    <3>5. e = h
      BY <3>1, <3>4, AppendInjective
    <3> QED
      BY <3>5 DEF h
  <2>3. ledger \subseteq seen
    BY <2>1 DEF IInv, Control, Running, Reopen
  <2> QED
    BY <2>1, <2>2, <2>3
<1>5. CASE Exit \/ Crash
  BY <1>3, <1>5 DEF Exit, Crash, GoDown
<1>6. ~Aside
  BY <1>2 DEF Aside
<1>7. ~(AnchorerReceives \/ ChannelClosed \/ IntervalTick \/ AnchorerShutdown)
  BY <1>2 DEF AnchorerReceives, ChannelClosed, IntervalTick, AnchorerShutdown
<1>8. ~(Submit \/ AttemptSucceeds \/ AttemptFails \/ GiveUp \/ Join \/ Restart)
  BY <1>2 DEF Submit, AttemptSucceeds, AttemptFails, GiveUp, Join, Restart
<1> QED
  BY <1>4, <1>5, <1>6, <1>7, <1>8, StepCases

\* An envelope that has a line of its own in the ledger is never enqueued again,
\* across any number of crashes and restarts, failed writes and torn lines.
THEOREM AtMostOnce == Spec => NeverEnqueuedAgain
<1>1. IInv /\ [Next]_vars => [\A e \in ledger : accepted' # Append(accepted, e)]_vars
  BY NeverAgainStep
<1> QED
  BY Invariance, <1>1, PTL DEF Spec, NeverEnqueuedAgain

-------------------------------------------------------------------------------
(* What strands an envelope.                                               *)

StrandingFault ==
    \/ Crash
    \/ GiveUp
    \/ anc = "failed" /\ Receive
    \/ IngestFails
    \/ shutdown /\ Receive
    \/ /\ shutdown
       /\ AnchorerShutdown \/ AttemptSucceeds
       /\ Stranded' \ Stranded \subseteq Range(channel)

\* The three reasons why a step strands nothing: what was recorded is still
\* recorded, what was anchored still anchored, and what leaves the pipeline is
\* anchored.
LEMMA NotStranding ==
    ASSUME Recorded' \subseteq Recorded,
           anchored \subseteq anchored',
           \A e \in InPipeline : e \in InPipeline' \/ CidOf[e] \in anchored'
    PROVE  Stranded' \subseteq Stranded
BY DEF Stranded, Valid

LEMMA ShiftRange ==
    ASSUME NEW b \in Seq(Parsed), NEW c \in Seq(Parsed), c # << >>
    PROVE  Range(Append(b, Head(c))) \cup Range(Tail(c)) = Range(b) \cup Range(c)
<1>1. Head(c) \in Parsed /\ Tail(c) \in Seq(Parsed)
  BY HeadTailProperties
<1>2. Append(b, Head(c)) \in Seq(Parsed)
  BY <1>1, AppendProperties
<1> DEFINE l == Append(b, Head(c))
           t == Tail(c)
<1>3. l \o t = b \o c
  BY Shift
<1> HIDE DEF l, t
<1>4. l \in Seq(Parsed) /\ t \in Seq(Parsed)
  BY <1>1, <1>2 DEF l, t
<1>5. Range(l \o t) = Range(l) \cup Range(t)
  BY <1>4, RangeConcatenation
<1>6. Range(b \o c) = Range(b) \cup Range(c)
  BY RangeConcatenation
<1>7. Range(l) \cup Range(t) = Range(b) \cup Range(c)
  BY <1>3, <1>5, <1>6
<1> QED
  BY <1>7 DEF l, t

\* A shutdown strands nothing but what it leaves in the channel.
LEMMA ShutdownStrands ==
    ASSUME IInv, AnchorerShutdown \/ AttemptSucceeds
    PROVE  Stranded' \ Stranded \subseteq Range(channel)
<1>1. /\ UNCHANGED <<fileVars, seen, channel, anchored>>
      /\ anc \in {"select", "await"} /\ anc' # "down"
  BY DEF AnchorerShutdown, AttemptSucceeds, FlushAndStop, StartFlush, subVars, chainVars,
         IInv, TypeOK
<1>2. Recorded' = Recorded
  BY <1>1 DEF Recorded, Running
<1>3. ASSUME NEW e \in InPipeline
      PROVE  e \in InPipeline' \/ CidOf[e] \in anchored' \/ e \in Range(channel)
  <2>1. e \in Range(inflight) \cup Range(buffer) \cup Range(channel)
    BY <1>1, <1>3 DEF InPipeline
  <2>2. CASE AnchorerShutdown /\ buffer # << >>
    <3>1. inflight' = buffer /\ anc' = "submit" /\ inflight = << >>
      BY <2>2 DEF AnchorerShutdown, FlushAndStop, StartFlush, IInv, BatchBounded
    <3> QED
      BY <2>1, <3>1 DEF InPipeline, Range
  <2>3. CASE AnchorerShutdown /\ buffer = << >>
    <3>1. inflight = << >>
      BY <2>3 DEF AnchorerShutdown, IInv, BatchBounded
    <3> QED
      BY <2>1, <2>3, <3>1 DEF Range
  <2>4. CASE AttemptSucceeds
    <3>1. CidsOf(inflight) \subseteq anchored /\ anchored' = anchored /\ buffer = << >>
      BY <2>4 DEF AttemptSucceeds, Confirmed, chainVars, IInv, Control
    <3> QED
      BY <2>1, <3>1 DEF CidsOf, Range
  <2> QED
    BY <2>2, <2>3, <2>4
<1> QED
  BY <1>1, <1>2, <1>3 DEF Stranded, Valid

LEMMA StrandedStep ==
    ASSUME IInv, [Next]_vars, ~StrandingFault
    PROVE  Stranded' \subseteq Stranded
<1>0. /\ ~Crash /\ ~GiveUp /\ ~IngestFails
      /\ Receive => anc # "failed" /\ ~shutdown
      /\ AnchorerShutdown \/ AttemptSucceeds => ~shutdown
  BY ShutdownStrands DEF StrandingFault
<1> USE DEF fileVars, Reopen
<1>1. /\ buffer \in Seq(Parsed) /\ channel \in Seq(Parsed) /\ inflight \in Seq(Parsed)
      /\ Control /\ BatchBounded /\ after \in {"select", "stopped"}
      /\ anc \in {"select", "submit", "await", "stopped", "returned", "failed", "down"}
  BY DEF IInv, TypeOK
<1>2. Range(<< >>) = {}
  BY DEF Range
<1>3. CASE Aside
  <2>1. UNCHANGED <<fileVars, seen, channel, buffer, inflight, anc>>
        /\ anchored \subseteq anchored'
    BY <1>0, <1>3 DEF Aside, ancVars
  <2> QED
    BY <2>1, NotStranding DEF Recorded, Running, InPipeline
<1>4. CASE Receive
  <2> DEFINE e == Head(stream)
  <2>1. /\ seen' = seen \cup {e} /\ anc \notin {"down", "failed", "stopped", "returned"}
        /\ UNCHANGED <<buffer, inflight, anc, anchored>>
    <3>1. /\ UNCHANGED <<buffer, inflight, anc, anchored>>
      BY <1>4 DEF Receive, ancVars, chainVars
    <3>2. seen' = seen \cup {e} /\ anc # "down" /\ anc # "failed" /\ ~shutdown /\ sub = "run"
      BY <1>0, <1>4, ReceiveEffect
    <3> QED
      BY <1>1, <3>1, <3>2 DEF Control
  <2>2. Recorded' = Recorded \cup {e}
    BY <2>1 DEF Recorded, Running
  <2>3. CASE e \in Parsed /\ channel' = Append(channel, e)
    <3>1. Range(channel') = Range(channel) \cup {e}
      BY <1>1, <2>3, AppendRange
    <3>2. InPipeline' = InPipeline \cup {e}
      BY <1>1, <2>1, <3>1 DEF InPipeline
    <3> QED
      BY <2>1, <2>2, <3>2 DEF Stranded, Valid
  <2>4. CASE e \notin Parsed /\ channel' = channel
    <3>1. ~Valid(e)
      BY <1>4, <2>4, ReceiveEffect DEF Parsed
    <3>2. InPipeline' = InPipeline
      BY <2>1, <2>4 DEF InPipeline
    <3> QED
      BY <2>1, <2>2, <3>1, <3>2 DEF Stranded, Valid
  <2> QED
    BY <1>4, <2>1, <2>3, <2>4, ReceiveEffect
<1>5. CASE AnchorerReceives
  <2> DEFINE l == Append(buffer, Head(channel))
  <2>1. /\ anc = "select" /\ channel # << >> /\ channel' = Tail(channel)
        /\ UNCHANGED <<fileVars, seen, anchored>>
        /\ \/ inflight' = l /\ buffer' = << >> /\ anc' = "submit" /\ inflight = << >>
           \/ inflight' = inflight /\ buffer' = l /\ anc' = "select"
    BY <1>1, <1>5 DEF AnchorerReceives, StartFlush, subVars, chainVars, BatchBounded
  <2>2. Range(l) \cup Range(Tail(channel)) = Range(buffer) \cup Range(channel)
    BY <1>1, <2>1, ShiftRange
  <2> HIDE DEF l
  <2>3. InPipeline' = InPipeline
    BY <1>2, <2>1, <2>2 DEF InPipeline
  <2> QED
    BY <2>1, <2>3, NotStranding DEF Recorded, Running
<1>6. CASE ChannelClosed \/ IntervalTick \/ AnchorerShutdown
  <2>1. ~AnchorerShutdown
    BY <1>0 DEF AnchorerShutdown
  <2>2. ChannelClosed \/ IntervalTick
    BY <1>6, <2>1
  <2>3. /\ anc = "select" /\ channel' = channel /\ UNCHANGED <<fileVars, seen, anchored>>
        /\ inflight = << >>
        /\ \/ inflight' = buffer /\ buffer' = << >> /\ anc' = "submit"
           \/ channel = << >> /\ buffer = << >> /\ anc' = "stopped"
    BY <1>1, <2>2 DEF ChannelClosed, IntervalTick, FlushAndStop, StartFlush,
                      subVars, chainVars, BatchBounded
  <2>4. InPipeline \subseteq InPipeline'
    BY <1>2, <2>3 DEF InPipeline
  <2> QED
    BY <2>3, <2>4, NotStranding DEF Recorded, Running
<1>7. CASE Submit \/ AttemptFails
  <2>1. /\ UNCHANGED <<fileVars, seen, channel, buffer, inflight, anchored>>
        /\ anc \in {"submit", "await"} /\ anc' \in {"submit", "await"}
    BY <1>7 DEF Submit, AttemptFails, subVars, chainVars
  <2> QED
    BY <2>1, NotStranding DEF Recorded, Running, InPipeline
<1>8. CASE AttemptSucceeds
  <2>1. /\ UNCHANGED <<fileVars, seen, channel, buffer, anchored>>
        /\ anc = "await" /\ anc' = after /\ inflight' = << >>
        /\ CidsOf(inflight) \subseteq anchored /\ ~shutdown
    BY <1>0, <1>8 DEF AttemptSucceeds, Confirmed, subVars, chainVars
  <2>2. \A e \in Range(inflight) : CidOf[e] \in anchored
    BY <2>1 DEF CidsOf, Range
  <2>3. buffer = << >> /\ (after = "stopped" => channel = << >>)
    BY <1>1, <2>1 DEF Control
  <2>4. \A e \in InPipeline : e \in InPipeline' \/ CidOf[e] \in anchored'
    BY <1>1, <1>2, <2>1, <2>2, <2>3 DEF InPipeline
  <2>5. Recorded' = Recorded
    BY <1>1, <2>1 DEF Recorded, Running
  <2> QED
    BY <2>1, <2>4, <2>5, NotStranding
<1>9. CASE Join
  <2>1. /\ UNCHANGED <<fileVars, seen, anchored>> /\ anc = "stopped" /\ anc' = "returned"
    BY <1>9 DEF Join, subVars, chainVars
  <2> QED
    BY <2>1, NotStranding DEF Recorded, Running, InPipeline
<1>10. CASE Exit
  <2>1. /\ UNCHANGED <<fileVars, anchored>> /\ anc \in {"returned", "failed"}
        /\ anc' = "down" /\ Reopen \subseteq seen
    BY <1>1, <1>10 DEF Exit, GoDown, chainVars, Control, Running
  <2> QED
    BY <2>1, NotStranding DEF Recorded, Running, InPipeline
<1>11. CASE Restart
  <2>1. /\ UNCHANGED <<fileVars, anchored>> /\ anc = "down" /\ anc' = "select"
        /\ seen' = Reopen
    BY <1>11 DEF Restart, Reopen, chainVars
  <2> QED
    BY <2>1, NotStranding DEF Recorded, Running, InPipeline
<1> QED
  BY <1>0, <1>3, <1>4, <1>5, <1>6, <1>7, <1>8, <1>9, <1>10, <1>11, StepCases

\* Only a fault or a shutdown strands an envelope; no interleaving of the two
\* tasks, of the flush triggers and of the retries does.
THEOREM OnlyFaultsStrand == Spec => StrandedOnlyByFaults
<1> DEFINE A == ~(Stranded' \subseteq Stranded) => StrandingFault
<1>1. IInv /\ [Next]_vars => [A]_vars
  BY StrandedStep
<1>2. Spec => [][A]_vars
  <2> HIDE DEF A
  <2> QED
    BY Invariance, <1>1, PTL DEF Spec
<1> QED
  BY <1>2 DEF StrandedOnlyByFaults, StrandingFault

-------------------------------------------------------------------------------
(* The loop as a caller of the registry.                                   *)

LEMMA CidsOfBatch ==
    /\ CidsOf(<< >>) = {}
    /\ \A s \in Seq(Parsed) : s # << >> => CidsOf(s) # {} /\ CidsOf(s) \subseteq Cid
<1>1. CidsOf(<< >>) = {}
  BY DEF CidsOf
<1>2. ASSUME NEW s \in Seq(Parsed), s # << >>
      PROVE  CidsOf(s) # {} /\ CidsOf(s) \subseteq Cid
  <2>1. 1 \in DOMAIN s /\ \A i \in DOMAIN s : s[i] \in Parsed
    BY <1>2
  <2>2. \A e \in Parsed : CidOf[e] \in Cid
    BY EnvelopeAssumption DEF Parsed, Valid
  <2> QED
    BY <2>1, <2>2 DEF CidsOf
<1> QED
  BY <1>1, <1>2

\* A flush begins a call for what it takes.
LEMMA FlushAsks ==
    ASSUME NEW s \in Seq(Parsed), s # << >>, anc = "select", StartFlush(s, after'),
           UNCHANGED chainVars
    PROVE  C!Next
<1>1. /\ Phase = "closed" /\ Phase' = "submit" /\ attempt' = 1
      /\ CidsOf(inflight)' = CidsOf(s) /\ CidsOf(flushed)' = CidsOf(flushed)
      /\ mempool' = mempool /\ anchored' = anchored
  BY DEF StartFlush, Phase, CidsOf, chainVars
<1>2. CidsOf(s) # {} /\ CidsOf(s) \in SUBSET Cid
  BY CidsOfBatch
<1>3. C!Ask(CidsOf(s))
  BY <1>1, <1>2 DEF C!Ask, C!chainVars
<1> QED
  BY <1>2, <1>3 DEF C!Next

\* What leaves the batch, its answers and the chain alone is nothing to the client.
LEMMA NotTheClient ==
    ASSUME UNCHANGED <<inflight, flushed, attempt, chainVars>>, Phase' = Phase
    PROVE  UNCHANGED C!vars
  BY DEF C!vars, C!callVars, C!chainVars, CidsOf, chainVars

\* The call and the process.
LEMMA CallSteps ==
    ASSUME IInv, Anchorer \/ Process
    PROVE  [C!Next]_(C!vars)
<1>1. buffer \in Seq(Parsed) /\ channel \in Seq(Parsed) /\ inflight \in Seq(Parsed)
      /\ flushed \in Seq(Parsed) /\ after \in {"select", "stopped"}
  BY DEF IInv, TypeOK
<1>2. CASE AnchorerReceives
  <2> DEFINE l == Append(buffer, Head(channel))
  <2>1. l \in Seq(Parsed) /\ l # << >>
    <3>1. Head(channel) \in Parsed
      BY <1>1, <1>2, HeadTailProperties DEF AnchorerReceives
    <3> QED
      BY <1>1, <3>1, AppendProperties
  <2>2. CASE Full(l)
    <3>1. anc = "select" /\ StartFlush(l, after') /\ UNCHANGED chainVars
      BY <1>2, <2>2 DEF AnchorerReceives, StartFlush
    <3> HIDE DEF l
    <3> QED
      BY <2>1, <3>1, FlushAsks
  <2>3. CASE ~Full(l)
    <3>1. UNCHANGED <<inflight, flushed, attempt, anc, chainVars>>
      BY <1>2, <2>3 DEF AnchorerReceives
    <3> QED
      BY <3>1, NotTheClient DEF Phase
  <2> QED
    BY <2>2, <2>3
<1>3. CASE ChannelClosed \/ IntervalTick \/ AnchorerShutdown
  <2>1. anc = "select" /\ UNCHANGED chainVars
    BY <1>3 DEF ChannelClosed, IntervalTick, AnchorerShutdown
  <2>2. \/ buffer # << >> /\ StartFlush(buffer, after')
        \/ anc' = "stopped" /\ UNCHANGED <<inflight, attempt, flushed>>
    BY <1>3 DEF ChannelClosed, IntervalTick, AnchorerShutdown, FlushAndStop, StartFlush
  <2>3. CASE anc' = "stopped" /\ UNCHANGED <<inflight, attempt, flushed>>
    BY <2>1, <2>3, NotTheClient DEF Phase
  <2> QED
    BY <1>1, <2>1, <2>2, <2>3, FlushAsks
<1>4. CASE Submit
  <2>1. /\ Phase = "submit" /\ Phase' = "await"
        /\ mempool' = mempool \cup {CidsOf(inflight)}
        /\ CidsOf(inflight)' = CidsOf(inflight) /\ CidsOf(flushed)' = CidsOf(flushed)
        /\ attempt' = attempt /\ anchored' = anchored
    BY <1>4 DEF Submit, Phase, CidsOf
  <2>2. C!Submit
    BY <2>1 DEF C!Submit
  <2> QED
    BY <2>2 DEF C!Next
<1>5. CASE AttemptSucceeds
  <2>1. /\ Phase = "await" /\ Phase' = "closed" /\ attempt' = 0
        /\ mempool' = mempool /\ anchored' = anchored
        /\ CidsOf(inflight) \subseteq anchored
    BY <1>1, <1>5 DEF AttemptSucceeds, Phase, Confirmed, chainVars
  <2>2. CidsOf(inflight)' = {} /\ CidsOf(flushed)' = CidsOf(flushed \o inflight)
    BY <1>5, CidsOfBatch DEF AttemptSucceeds, CidsOf
  <2>3. CidsOf(flushed \o inflight) = CidsOf(flushed) \cup CidsOf(inflight)
    BY <1>1, ConcatCids
  <2>4. C!Succeed
    BY <2>1, <2>2, <2>3 DEF C!Succeed, C!chainVars
  <2> QED
    BY <2>4 DEF C!Next
<1>6. CASE AttemptFails
  <2>1. /\ anc \in {"submit", "await"} /\ anc' = "submit"
        /\ attempt < MaxAttempts /\ attempt' = attempt + 1
        /\ UNCHANGED <<inflight, flushed, mempool, anchored>>
    BY <1>6 DEF AttemptFails, MayRetry, chainVars
  <2>2. /\ Phase \in {"submit", "await"} /\ Phase' = "submit"
        /\ CidsOf(inflight)' = CidsOf(inflight) /\ CidsOf(flushed)' = CidsOf(flushed)
    BY <2>1 DEF Phase, CidsOf
  <2>3. C!Retry
    BY <2>1, <2>2 DEF C!Retry, C!Open, C!MaybeSubmitted
  <2> QED
    BY <2>3 DEF C!Next
<1>7. ASSUME inflight' = << >>, attempt' = 0, flushed' \in {flushed, << >>},
             anc' \notin {"submit", "await"}, UNCHANGED chainVars
      PROVE  C!Next
  <2>1. /\ Phase' = "closed" /\ CidsOf(inflight)' = {}
        /\ CidsOf(flushed)' \in {CidsOf(flushed), {}}
    BY <1>7, CidsOfBatch DEF Phase, CidsOf
  <2>2. C!GiveUp
    BY <1>7, <2>1 DEF C!GiveUp, C!MaybeSubmitted, chainVars
  <2> QED
    BY <2>2 DEF C!Next
<1>8. CASE GiveUp
  BY <1>7, <1>8 DEF GiveUp
<1>9. CASE Exit \/ Crash
  BY <1>7, <1>9 DEF Exit, Crash, GoDown
<1>10. CASE Join
  BY <1>10, NotTheClient DEF Join, Phase
<1>11. CASE Restart
  BY <1>11, NotTheClient DEF Restart, Phase
<1>12. CASE Interrupt
  BY <1>12, NotTheClient DEF Interrupt, ancVars, Phase
<1> QED
  BY <1>2, <1>3, <1>4, <1>5, <1>6, <1>8, <1>9, <1>10, <1>11, <1>12 DEF Anchorer, Process

\* The chain.
LEMMA ChainSteps ==
    ASSUME Chain
    PROVE  C!Next
<1>1. /\ Phase' = Phase /\ attempt' = attempt
      /\ CidsOf(inflight)' = CidsOf(inflight) /\ CidsOf(flushed)' = CidsOf(flushed)
  BY DEF Chain, Lands, IsLost, SomebodyAnchors, ancVars, Phase, CidsOf
<1>2. ASSUME NEW batch \in mempool, Lands(batch) PROVE C!Lands(batch)
  BY <1>1, <1>2 DEF Lands, C!Lands, C!Leaves, C!callVars
<1>3. ASSUME NEW batch \in mempool, IsLost(batch) PROVE C!IsLost(batch)
  BY <1>1, <1>3 DEF IsLost, C!IsLost, C!Leaves, C!callVars
<1>4. ASSUME NEW c \in Cid, SomebodyAnchors(c) PROVE C!SomebodyAnchors(c)
  BY <1>1, <1>4 DEF SomebodyAnchors, C!SomebodyAnchors, C!callVars
<1> QED
  BY <1>2, <1>3, <1>4 DEF Chain, C!Next

\* The registry that the loop is modelled with, and the way the loop uses it,
\* also when it crashes and is started again, stay within the client that
\* LezAdapter provides (AdapterIsClient): no call succeeds, no transaction goes
\* under way and no CID gets an entry otherwise.
THEOREM LoopIsCaller == Spec => UsesClient
<1>1. Init => C!Init
  BY CidsOfBatch DEF Init, C!Init, Phase
<1>2. IInv /\ [Next]_vars => [C!Next]_(C!vars)
  <2> SUFFICES ASSUME IInv, [Next]_vars PROVE [C!Next]_(C!vars)
    OBVIOUS
  <2>1. CASE Anchorer \/ Process
    BY <2>1, CallSteps
  <2>2. CASE Chain
    BY <2>2, ChainSteps
  <2>3. CASE Topic \/ Subscriber \/ UNCHANGED vars
    <3>1. UNCHANGED <<ancVars, chainVars>>
      BY <2>3 DEF Topic, Broadcast, StreamEnds, Subscriber, Skip, Receive, IngestFails,
         SubscriberEnds, SubscriberStops, SubscriberDone, vars
    <3> QED
      BY <3>1, NotTheClient DEF ancVars, Phase
  <2> QED
    BY <2>1, <2>2, <2>3 DEF Next
<1> QED
  BY <1>1, <1>2, Invariance, PTL DEF Spec, UsesClient, C!Spec

-------------------------------------------------------------------------------
(* Why the tasks cannot run without end.                                   *)

\* The weights of the items, as numbers.
LEMMA OneItemLess ==
    ASSUME NEW w \in Nat, NEW n \in Nat
    PROVE  w * n \in Nat /\ w * (n + 1) = w * n + w
<1>1. w * (n + 1) = w * n + w
  OBVIOUS
<1> QED
  BY <1>1

Weight(k, s, c, b, l) == (k + 2) * s + (k + 1) * c + k * b + l

\* A step uses up work when it moves an item on, flushes the buffer, drops
\* items, or does one thing less without any item.
LEMMA LessWeight ==
    ASSUME NEW k \in Nat \ {0}, NEW s \in Nat, NEW c \in Nat, NEW b \in Nat,
           NEW l \in Nat, NEW m \in Nat
    PROVE  /\ Weight(k, s, c, b, l) \in Nat
           /\ m <= l => Weight(k, s, c, b, m) <= Weight(k, s, c, b, l)
           /\ m < l => Weight(k, s, c, b, m) < Weight(k, s, c, b, l)
           /\ m < l => Weight(k, s, 0, 0, m) < Weight(k, s, c, b, l)
           /\ m <= l => Weight(k, 0, 0, 0, m) <= Weight(k, s, c, b, l)
           /\ m <= l => Weight(k, s, c, b, m) < Weight(k, s + 1, c, b, l)
           /\ m <= l => Weight(k, s, c + 1, b, m) < Weight(k, s + 1, c, b, l)
           /\ m <= l => Weight(k, s, c, b + 1, m) < Weight(k, s, c + 1, b, l)
           /\ m < l + k => Weight(k, s, c, 0, m) < Weight(k, s, c + 1, b, l)
           /\ m < l + k => Weight(k, s, c, 0, m) < Weight(k, s, c, b + 1, l)
<1> DEFINE S == (k + 2) * s
           C1 == (k + 1) * c
           B == k * b
<1>1. S \in Nat /\ (k + 2) * (s + 1) = S + (k + 2) /\ (k + 2) * 0 = 0
  BY OneItemLess
<1>2. C1 \in Nat /\ (k + 1) * (c + 1) = C1 + (k + 1) /\ (k + 1) * 0 = 0
  BY OneItemLess
<1>3. B \in Nat /\ k * (b + 1) = B + k /\ k * 0 = 0
  BY OneItemLess
<1>4. /\ Weight(k, s, c, b, l) = S + C1 + B + l
      /\ Weight(k, s, c, b, m) = S + C1 + B + m
      /\ Weight(k, s, 0, 0, m) = S + m
      /\ Weight(k, 0, 0, 0, m) = m
      /\ Weight(k, s + 1, c, b, l) = S + (k + 2) + C1 + B + l
      /\ Weight(k, s, c + 1, b, m) = S + C1 + (k + 1) + B + m
      /\ Weight(k, s, c + 1, b, l) = S + C1 + (k + 1) + B + l
      /\ Weight(k, s, c, b + 1, m) = S + C1 + B + k + m
      /\ Weight(k, s, c, b + 1, l) = S + C1 + B + k + l
      /\ Weight(k, s, c, 0, m) = S + C1 + m
  <2>1. k \in Nat /\ k + 1 \in Nat /\ k + 2 \in Nat
    OBVIOUS
  <2> QED
    BY <1>1, <1>2, <1>3, <2>1 DEF Weight
<1> HIDE DEF S, C1, B
<1> QED
  BY <1>1, <1>2, <1>3, <1>4

LEMMA WorkIsWeight ==
    WorkLeft = Weight(PerEntry, Len(stream), Len(channel), Len(buffer), LeftOfTasks)
  BY DEF WorkLeft, Weight

LEMMA WorkIsWeightNext ==
    (WorkLeft = Weight(PerEntry, Len(stream), Len(channel), Len(buffer), LeftOfTasks))'
  BY WorkIsWeight, PTL

\* What there is to count, in every state.
LEMMA Countable ==
    ASSUME IInv
    PROVE  /\ Len(stream) \in Nat /\ Len(channel) \in Nat /\ Len(buffer) \in Nat
           /\ LeftOfBatch \in 0..(2 * MaxAttempts + 2) /\ LeftOfLoop \in 0..2
           /\ LeftOfTasks \in Nat
           /\ PerEntry \in Nat \ {0}
<1>1. Len(stream) \in Nat /\ Len(channel) \in Nat /\ Len(buffer) \in Nat
  BY DEF IInv, TypeOK
<1>2. MaxAttempts \in Nat \ {0} /\ attempt \in 0..MaxAttempts
  BY ConfigAssumption DEF IInv, TypeOK
<1>3. LeftOfBatch \in 0..(2 * MaxAttempts + 2)
  BY <1>2 DEF LeftOfBatch
<1>4. LeftOfLoop \in 0..2
  BY DEF LeftOfLoop, IInv, TypeOK
<1>5. (IF sub = "run" THEN 1 ELSE 0) \in 0..1
  OBVIOUS
<1>6. LeftOfTasks \in Nat
  BY <1>2, <1>3, <1>4, <1>5 DEF LeftOfTasks
<1> QED
  BY <1>1, <1>2, <1>3, <1>4, <1>6 DEF PerEntry

LEMMA CountableNext ==
    (IInv => /\ Len(stream) \in Nat /\ Len(channel) \in Nat /\ Len(buffer) \in Nat
             /\ LeftOfTasks \in Nat)'
<1>1. IInv => /\ Len(stream) \in Nat /\ Len(channel) \in Nat /\ Len(buffer) \in Nat
              /\ LeftOfTasks \in Nat
  BY Countable
<1> QED
  BY <1>1, PTL

LEMMA CountableBatchNext ==
    (IInv => LeftOfBatch \in Int /\ LeftOfLoop \in Int)'
<1>1. IInv => LeftOfBatch \in Int /\ LeftOfLoop \in Int
  BY Countable
<1> QED
  BY <1>1, PTL

\* How a step may use up work: it takes an item out of the stream, perhaps into
\* the channel; takes one out of the channel, into the buffer or with all of it
\* into a batch; flushes the buffer; drops everything; or only gets on.
LEMMA UsesWork ==
    ASSUME IInv, IInv',
           \/ /\ Len(stream) = Len(stream)' + 1
              /\ Len(channel)' \in {Len(channel), Len(channel) + 1}
              /\ Len(buffer)' = Len(buffer)
              /\ LeftOfTasks' <= LeftOfTasks
           \/ /\ Len(stream)' = Len(stream)
              /\ \/ /\ Len(channel) = Len(channel)' + 1
                    /\ \/ Len(buffer)' = Len(buffer) + 1 /\ LeftOfTasks' <= LeftOfTasks
                       \/ Len(buffer)' = 0 /\ LeftOfTasks' < LeftOfTasks + PerEntry
                 \/ /\ Len(channel)' = Len(channel)
                    /\ Len(buffer) # 0 /\ Len(buffer)' = 0
                    /\ LeftOfTasks' < LeftOfTasks + PerEntry
                 \/ Len(channel)' = 0 /\ Len(buffer)' = 0 /\ LeftOfTasks' < LeftOfTasks
                 \/ Len(channel)' = Len(channel) /\ Len(buffer)' = Len(buffer)
                      /\ LeftOfTasks' < LeftOfTasks
    PROVE  WorkLeft' < WorkLeft
<1> DEFINE s == Len(stream)
           c == Len(channel)
           b == Len(buffer)
           l == LeftOfTasks
           k == PerEntry
           w == WorkLeft
<1>1. s \in Nat /\ c \in Nat /\ b \in Nat /\ l \in Nat /\ k \in Nat \ {0}
  BY Countable
<1>2. s' \in Nat /\ c' \in Nat /\ b' \in Nat /\ l' \in Nat
  BY CountableNext
<1>3. w = Weight(k, s, c, b, l)
  BY WorkIsWeight
<1>4. w' = Weight(k, s', c', b', l')
  BY WorkIsWeightNext
<1>5. \/ s = s' + 1 /\ c' \in {c, c + 1} /\ b' = b /\ l' <= l
      \/ s' = s /\ c = c' + 1 /\ b' = b + 1 /\ l' <= l
      \/ s' = s /\ c = c' + 1 /\ b' = 0 /\ l' < l + k
      \/ s' = s /\ c' = c /\ b # 0 /\ b' = 0 /\ l' < l + k
      \/ s' = s /\ c' = 0 /\ b' = 0 /\ l' < l
      \/ s' = s /\ c' = c /\ b' = b /\ l' < l
  OBVIOUS
<1> HIDE DEF s, c, b, l, k, w
<1>6. CASE s = s' + 1 /\ c' \in {c, c + 1} /\ b' = b /\ l' <= l
  <2>1. CASE c' = c
    BY <1>1, <1>2, <1>3, <1>4, <1>6, <2>1, LessWeight DEF w
  <2>2. CASE c' = c + 1
    BY <1>1, <1>2, <1>3, <1>4, <1>6, <2>2, LessWeight DEF w
  <2> QED
    BY <1>6, <2>1, <2>2
<1>7. CASE s' = s /\ c = c' + 1 /\ b' = b + 1 /\ l' <= l
  BY <1>1, <1>2, <1>3, <1>4, <1>7, LessWeight DEF w
<1>8. CASE s' = s /\ c = c' + 1 /\ b' = 0 /\ l' < l + k
  BY <1>1, <1>2, <1>3, <1>4, <1>8, LessWeight DEF w
<1>9. CASE s' = s /\ c' = c /\ b # 0 /\ b' = 0 /\ l' < l + k
  <2>1. b - 1 \in Nat /\ b = (b - 1) + 1
    BY <1>1, <1>9
  <2>2. Weight(k, s, c, 0, l') < Weight(k, s, c, (b - 1) + 1, l)
    BY <1>1, <1>2, <1>9, <2>1, LessWeight
  <2> QED
    BY <1>3, <1>4, <1>9, <2>1, <2>2 DEF w
<1>10. CASE s' = s /\ c' = 0 /\ b' = 0 /\ l' < l
  BY <1>1, <1>2, <1>3, <1>4, <1>10, LessWeight DEF w
<1>11. CASE s' = s /\ c' = c /\ b' = b /\ l' < l
  BY <1>1, <1>2, <1>3, <1>4, <1>11, LessWeight DEF w
<1> QED
  BY <1>5, <1>6, <1>7, <1>8, <1>9, <1>10, <1>11

\* The lengths of a sequence with an item more or less.
LEMMA OneLonger ==
    ASSUME NEW S, NEW q \in Seq(S), NEW e \in S
    PROVE  Len(Append(q, e)) = Len(q) + 1
  BY AppendProperties

LEMMA OneShorter ==
    ASSUME NEW S, NEW q \in Seq(S), q # << >>
    PROVE  Len(q) = Len(Tail(q)) + 1
<1>1. Len(q) \in Nat \ {0} /\ Len(Tail(q)) = Len(q) - 1
  BY HeadTailProperties, EmptySeq
<1> QED
  BY <1>1

LEMMA WorkIsNumber == ASSUME IInv PROVE WorkLeft \in Nat
  BY WorkIsWeight, Countable, LessWeight

LEMMA WorkIsNumberNext == (IInv => WorkLeft \in Nat)'
<1>1. IInv => WorkLeft \in Nat
  BY WorkIsNumber
<1> QED
  BY <1>1, PTL

\* The tasks' share, and how it follows what is left of the batch and the loop.
LEMMA Shares ==
    ASSUME NEW r \in 0..1, NEW b \in Int, NEW l \in Int, NEW b1 \in Int, NEW l1 \in Int,
           NEW k \in Int
    PROVE  /\ b1 + l1 < b + l => r + b1 + l1 < r + b + l
           /\ b1 + l1 < b + l + k => r + b1 + l1 < r + b + l + k
  OBVIOUS

LEMMA SubscriberUsesWork ==
    ASSUME IInv, IInv', Subscriber
    PROVE  WorkLeft' < WorkLeft
<1> USE DEF subVars, ancVars, chainVars
<1>0. TypeOK
  BY DEF IInv
<1>1. LeftOfTasks \in Nat /\ Len(channel) \in Nat
  BY Countable
<1>2. CASE Skip \/ Receive \/ IngestFails
  <2>1. Take /\ UNCHANGED ancVars
    BY <1>2 DEF Skip, Receive, IngestFails
  <2>2. Len(stream) = Len(stream)' + 1
    BY <1>0, <2>1, OneShorter DEF Take, TypeOK
  <2>3. Len(channel)' \in {Len(channel), Len(channel) + 1}
    <3>1. CASE Skip \/ IngestFails
      BY <3>1 DEF Skip, IngestFails
    <3>2. CASE Receive /\ channel' # channel
      <4>1. Valid(Head(stream)) /\ channel' = Append(channel, Head(stream))
        BY <3>2 DEF Receive, Enqueue
      <4>2. Head(stream) \in Parsed
        BY <1>0, <3>2, <4>1, HeadFacts DEF Receive, Take, NewItem, Parsed
      <4> QED
        BY <1>0, <4>1, <4>2, OneLonger DEF TypeOK
    <3>3. CASE channel' = channel
      BY <3>3
    <3> QED
      BY <1>2, <3>1, <3>2, <3>3
  <2>4. LeftOfBatch' = LeftOfBatch /\ LeftOfLoop' = LeftOfLoop
    BY <2>1 DEF LeftOfBatch, LeftOfLoop
  <2>5. sub = "run" /\ sub' \in {"run", "done"}
    BY <1>2 DEF Skip, Receive, IngestFails, Take, Polling
  <2>6. LeftOfTasks' <= LeftOfTasks
    <3>1. LeftOfBatch \in Nat /\ LeftOfLoop \in Nat
      BY Countable
    <3>2. LeftOfTasks = 1 + LeftOfBatch + LeftOfLoop
      BY <2>5 DEF LeftOfTasks
    <3>3. LeftOfTasks' = (IF sub' = "run" THEN 1 ELSE 0) + LeftOfBatch + LeftOfLoop
      BY <2>4 DEF LeftOfTasks
    <3> QED
      BY <3>1, <3>2, <3>3
  <2>7. Len(buffer)' = Len(buffer)
    BY <2>1
  <2> QED
    BY <2>2, <2>3, <2>6, <2>7, UsesWork
<1>3. CASE SubscriberEnds \/ SubscriberStops
  <2>1. /\ sub = "run" /\ sub' = "done"
        /\ UNCHANGED <<stream, channel, ancVars>>
    BY <1>3 DEF SubscriberEnds, SubscriberStops, SubscriberDone, Polling
  <2>2. LeftOfBatch' = LeftOfBatch /\ LeftOfLoop' = LeftOfLoop
    BY <2>1 DEF LeftOfBatch, LeftOfLoop
  <2>3. LeftOfBatch \in Nat /\ LeftOfLoop \in Nat
    BY Countable
  <2>4. LeftOfTasks' < LeftOfTasks
    BY <2>1, <2>2, <2>3 DEF LeftOfTasks
  <2> QED
    BY <2>1, <2>4, UsesWork
<1> QED
  BY <1>2, <1>3 DEF Subscriber

LEMMA FlushSum ==
    ASSUME NEW m \in Nat \ {0}, NEW r \in 0..1, NEW l \in 1..2
    PROVE  /\ r + 0 + 2 = r + 2
           /\ r + (2 * (m - 1) + 2) + l = r + 2 * m + l
           /\ r + 2 * m + l < r + 2 + (2 * m + 1)
<1>1. 2 * (m - 1) + 2 = 2 * m /\ 2 * m \in Nat
  OBVIOUS
<1> DEFINE t == 2 * m
<1>2. t \in Nat /\ r + t + l < r + 2 + (t + 1)
  <2> HIDE DEF t
  <2>1. t \in Nat
    BY <1>1 DEF t
  <2> QED
    BY <2>1
<1> QED
  BY <1>1, <1>2

\* What a flush costs: less than its last entry brings.
LEMMA FlushCosts ==
    ASSUME IInv, NEW entries, NEW next \in {"select", "stopped"},
           anc = "select", sub' = sub, StartFlush(entries, next)
    PROVE  LeftOfTasks' < LeftOfTasks + PerEntry
<1>1. MaxAttempts \in Nat \ {0}
  BY ConfigAssumption
<1>2. LeftOfBatch = 0 /\ LeftOfLoop = 2
  BY DEF LeftOfBatch, LeftOfLoop
<1>3. anc' = "submit" /\ attempt' = 1 /\ after' = next
  BY DEF StartFlush
<1>4. LeftOfBatch' = 2 * (MaxAttempts - 1) + 2
  BY <1>3 DEF LeftOfBatch
<1>5. LeftOfLoop' \in 1..2
  BY <1>3 DEF LeftOfLoop
<1> DEFINE r == IF sub = "run" THEN 1 ELSE 0
<1>6. /\ r \in 0..1
      /\ LeftOfTasks = r + LeftOfBatch + LeftOfLoop
      /\ LeftOfTasks' = r + LeftOfBatch' + LeftOfLoop'
  BY DEF LeftOfTasks
<1> HIDE DEF r
<1>7. LeftOfTasks = r + 2 /\ LeftOfTasks' = r + 2 * MaxAttempts + LeftOfLoop'
  BY <1>1, <1>2, <1>4, <1>6, FlushSum
<1>8. r + 2 * MaxAttempts + LeftOfLoop' < r + 2 + (2 * MaxAttempts + 1)
  BY <1>1, <1>5, <1>6, FlushSum
<1> QED
  BY <1>7, <1>8 DEF PerEntry

\* Leaving the loop, with or without a last flush.
LEMMA StopUsesWork ==
    ASSUME IInv, IInv', anc = "select", UNCHANGED <<stream, channel, sub>>, FlushAndStop
    PROVE  WorkLeft' < WorkLeft
<1>1. LeftOfTasks \in Nat /\ Len(buffer) \in Nat
  BY Countable
<1>2. CASE buffer # << >>
  <2>1. StartFlush(buffer, "stopped")
    BY <1>2 DEF FlushAndStop
  <2>2. LeftOfTasks' < LeftOfTasks + PerEntry
    BY <2>1, FlushCosts
  <2>3. Len(buffer) # 0 /\ Len(buffer)' = 0
    BY <1>2, <2>1, EmptySeq DEF StartFlush, IInv, TypeOK
  <2> QED
    BY <2>2, <2>3, UsesWork
<1>3. CASE buffer = << >>
  <2>1. anc' = "stopped" /\ buffer' = buffer
    BY <1>3 DEF FlushAndStop
  <2>2. LeftOfBatch = 0 /\ LeftOfLoop = 2 /\ LeftOfBatch' = 0 /\ LeftOfLoop' = 1
    BY <2>1 DEF LeftOfBatch, LeftOfLoop
  <2>3. LeftOfTasks' < LeftOfTasks
    BY <2>2 DEF LeftOfTasks
  <2> QED
    BY <2>1, <2>3, UsesWork
<1> QED
  BY <1>2, <1>3

LEMMA AnchorerUsesWork ==
    ASSUME IInv, IInv', Anchorer
    PROVE  WorkLeft' < WorkLeft
<1> USE DEF subVars, ancVars, chainVars
<1>0. TypeOK
  BY DEF IInv
<1>1. /\ MaxAttempts \in Nat \ {0} /\ attempt \in 0..MaxAttempts
      /\ LeftOfTasks \in Nat /\ LeftOfLoop \in Nat
  BY <1>0, Countable, ConfigAssumption DEF TypeOK
<1>2. CASE AnchorerReceives
  <2>1. /\ anc = "select" /\ channel # << >> /\ channel' = Tail(channel)
        /\ UNCHANGED <<stream, sub>>
    BY <1>2 DEF AnchorerReceives
  <2>2. Len(channel) = Len(channel)' + 1
    BY <1>0, <2>1, OneShorter DEF TypeOK
  <2>3. CASE Full(Append(buffer, Head(channel)))
    <3>1. StartFlush(Append(buffer, Head(channel)), "select")
      BY <1>2, <2>3 DEF AnchorerReceives
    <3>2. LeftOfTasks' < LeftOfTasks + PerEntry
      BY <2>1, <3>1, FlushCosts
    <3>3. Len(buffer)' = 0
      BY <3>1, EmptySeq DEF StartFlush
    <3> QED
      BY <2>1, <2>2, <3>2, <3>3, UsesWork
  <2>4. CASE ~Full(Append(buffer, Head(channel)))
    <3>1. /\ buffer' = Append(buffer, Head(channel))
          /\ UNCHANGED <<anc, after, attempt, sub>>
      BY <1>2, <2>4 DEF AnchorerReceives
    <3>2. Head(channel) \in Parsed
      BY <1>0, <2>1, HeadTailProperties DEF TypeOK
    <3>3. Len(buffer)' = Len(buffer) + 1
      BY <1>0, <3>1, <3>2, OneLonger DEF TypeOK
    <3>4. LeftOfTasks' = LeftOfTasks
      BY <3>1 DEF LeftOfTasks, LeftOfBatch, LeftOfLoop
    <3> QED
      BY <1>1, <2>1, <2>2, <3>3, <3>4, UsesWork
  <2> QED
    BY <2>3, <2>4
<1>3. CASE ChannelClosed \/ AnchorerShutdown
  <2>1. /\ anc = "select" /\ UNCHANGED <<stream, channel, sub>>
        /\ FlushAndStop
    BY <1>3 DEF ChannelClosed, AnchorerShutdown
  <2> QED
    BY <2>1, StopUsesWork
<1>4. CASE IntervalTick
  <2>1. /\ anc = "select" /\ buffer # << >> /\ UNCHANGED <<stream, channel, sub>>
        /\ StartFlush(buffer, "select")
    BY <1>4 DEF IntervalTick
  <2>2. LeftOfTasks' < LeftOfTasks + PerEntry
    BY <2>1, FlushCosts
  <2>3. Len(buffer) # 0 /\ Len(buffer)' = 0
    BY <1>0, <2>1, EmptySeq DEF StartFlush, TypeOK
  <2> QED
    BY <2>1, <2>2, <2>3, UsesWork
<1>5. CASE Submit \/ AttemptSucceeds \/ AttemptFails \/ Join
  <2>1. UNCHANGED <<stream, channel, buffer, sub, after>>
    BY <1>5 DEF Submit, AttemptSucceeds, AttemptFails, Join
  <2>2. after \in {"select", "stopped"}
    BY <1>0 DEF TypeOK
  <2>3. LeftOfBatch' + LeftOfLoop' < LeftOfBatch + LeftOfLoop
    <3>1. CASE Submit
      BY <1>1, <3>1 DEF Submit, LeftOfBatch, LeftOfLoop
    <3>2. CASE AttemptSucceeds
      <4>1. anc = "await" /\ anc' = after /\ after' = after
        BY <3>2 DEF AttemptSucceeds
      <4>2. LeftOfBatch \in Nat \ {0} /\ LeftOfBatch' = 0
        BY <1>1, <2>2, <4>1 DEF LeftOfBatch
      <4>3. LeftOfLoop' = LeftOfLoop
        BY <2>2, <4>1 DEF LeftOfLoop
      <4> QED
        BY <1>1, <4>2, <4>3
    <3>3. CASE AttemptFails
      BY <1>1, <3>3 DEF AttemptFails, MayRetry, LeftOfBatch, LeftOfLoop
    <3>4. CASE Join
      BY <3>4 DEF Join, LeftOfBatch, LeftOfLoop
    <3> QED
      BY <1>5, <3>1, <3>2, <3>3, <3>4
  <2>4. LeftOfTasks' < LeftOfTasks
    <3>1. /\ LeftOfBatch \in Int /\ LeftOfLoop \in Int
          /\ LeftOfBatch' \in Int /\ LeftOfLoop' \in Int
      BY Countable, CountableBatchNext
    <3> DEFINE r == IF sub = "run" THEN 1 ELSE 0
    <3>2. /\ r \in 0..1
          /\ LeftOfTasks = r + LeftOfBatch + LeftOfLoop
          /\ LeftOfTasks' = r + LeftOfBatch' + LeftOfLoop'
      BY <2>1 DEF LeftOfTasks
    <3> HIDE DEF r
    <3>3. r + LeftOfBatch' + LeftOfLoop' < r + LeftOfBatch + LeftOfLoop
      BY <2>3, <3>1, <3>2, Shares
    <3> QED
      BY <3>2, <3>3
  <2> QED
    BY <2>1, <2>4, UsesWork
<1>6. CASE GiveUp
  <2>1. /\ anc \in {"submit", "await"} /\ anc' = "failed"
        /\ buffer' = << >> /\ channel' = << >> /\ UNCHANGED <<stream, sub>>
    BY <1>6 DEF GiveUp
  <2>2. Len(buffer)' = 0 /\ Len(channel)' = 0
    BY <2>1, EmptySeq
  <2>3. LeftOfBatch' = 0 /\ LeftOfLoop' = 0 /\ LeftOfBatch \in Nat \ {0}
    BY <1>1, <2>1 DEF LeftOfBatch, LeftOfLoop
  <2>4. LeftOfTasks' < LeftOfTasks
    BY <1>1, <2>1, <2>3 DEF LeftOfTasks
  <2> QED
    BY <2>1, <2>2, <2>4, UsesWork
<1> QED
  BY <1>2, <1>3, <1>4, <1>5, <1>6 DEF Anchorer

LEMMA NobodyElseAddsWork ==
    ASSUME IInv, IInv', [Next]_vars, ~Restart,
           ~\E item \in Envelope \cup {ReceiveError} : Broadcast(item)
    PROVE  ~(WorkLeft' > WorkLeft)
<1> USE DEF vars, subVars, ancVars, chainVars
<1>1. WorkLeft \in Nat /\ WorkLeft' \in Nat
  BY WorkIsNumber, WorkIsNumberNext
<1>2. CASE Subscriber \/ Anchorer
  BY <1>1, <1>2, SubscriberUsesWork, AnchorerUsesWork
<1>3. CASE StreamEnds \/ Chain \/ Interrupt \/ UNCHANGED vars
  <2>1. UNCHANGED <<stream, channel, buffer, attempt, anc, after, sub>>
    BY <1>3 DEF StreamEnds, Chain, Lands, IsLost, SomebodyAnchors, Interrupt
  <2>2. WorkLeft' = WorkLeft
    BY <2>1 DEF WorkLeft, LeftOfTasks, LeftOfBatch, LeftOfLoop
  <2> QED
    BY <1>1, <2>2
<1>4. CASE Exit \/ Crash
  <2>1. GoDown
    BY <1>4 DEF Exit, Crash
  <2>2. Len(stream)' = 0 /\ Len(channel)' = 0 /\ Len(buffer)' = 0
    BY <2>1, EmptySeq DEF GoDown
  <2>3. LeftOfTasks' = 0
    BY <2>1 DEF GoDown, LeftOfTasks, LeftOfBatch, LeftOfLoop
  <2>4. PerEntry * 0 = 0 /\ (PerEntry + 1) * 0 = 0 /\ (PerEntry + 2) * 0 = 0
    BY Countable
  <2>5. WorkLeft' = 0
    BY <2>2, <2>3, <2>4 DEF WorkLeft
  <2> QED
    BY <1>1, <2>5
<1> QED
  BY <1>2, <1>3, <1>4 DEF Next, Topic, Process

\* What the two tasks can still do is bounded: a task's step always leaves less
\* of it, and nothing but the topic and a restart brings more.  So a run on a
\* finite stream, or one that is asked to stop, makes finitely many steps
\* (retries, flushes and late receives included) before both tasks are done.
THEOREM BoundedWork == Spec => WorkIsBounded
<1>1. IInv /\ IInv' /\ [Next]_vars =>
        [/\ WorkLeft \in Nat
         /\ Subscriber \/ Anchorer => WorkLeft' < WorkLeft
         /\ WorkLeft' > WorkLeft
              => Restart \/ \E item \in Envelope \cup {ReceiveError} : Broadcast(item)
        ]_vars
  BY WorkIsNumber, SubscriberUsesWork, AnchorerUsesWork, NobodyElseAddsWork
<1> QED
  BY <1>1, Invariance, PTL DEF Spec, WorkIsBounded

===============================================================================
