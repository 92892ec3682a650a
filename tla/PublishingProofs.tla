---------------------------- MODULE PublishingProofs ----------------------------
(***************************************************************************)
(* Proofs about Publishing, for any number of library tasks, UIs, files,   *)
(* attempts and faults: its steps are steps of the adapter, whose theorems *)
(* carry over, and everything in the registry comes from an envelope that  *)
(* was built, stored and (but for a UI's) broadcast.                       *)
(***************************************************************************)
EXTENDS Publishing, LezAdapterProofs, SetInduction, SequenceTheorems

LEMMA Hosts == Host \subseteq Client /\ Tool \in Client /\ Publisher \subseteq Host /\ UiHost \subseteq Host
  BY PublishAssumption DEF Host

LEMMA PublishedIsEnvelope ==
    ASSUME NEW e \in Published
    PROVE  e \in Envelope /\ e.cid \in Cid /\ e \in Metadata
<1>1. e \in Envelope
  BY PublishAssumption DEF Published
<1> QED
  BY <1>1, PublishAssumption DEF Envelope

LEMMA PayloadFacts ==
    ASSUME NEW e \in Published
    PROVE  /\ Json(e) \in Payload /\ Json(e).envelope = e
           /\ Base64(e) \in Payload /\ Base64(e).envelope = e
           /\ \A f \in Published : Json(f) # Base64(e)
  BY DEF Json, Base64, Payload

\* A single entry is a request that a caller may pass.
LEMMA SingleRequest ==
    ASSUME NEW e \in Published
    PROVE  <<Ask(e)>> \in Request
<1>1. 1 \in 1..BatchSize
  BY PublishAssumption
<1>2. <<Ask(e)>> \in [1..1 -> {Ask(f) : f \in Published}]
  OBVIOUS
<1> QED
  BY <1>1, <1>2, BatchAssumption

\* And so is what the batch tool takes from the front of its buffer.
LEMMA BatchRequest ==
    ASSUME PublishTypeOK, NEW n \in 1..BatchSize, n <= Len(pending)
    PROVE  /\ SubSeq(pending, 1, n) \in Request
           /\ SubSeq(pending, n + 1, Len(pending)) \in Seq({Ask(e) : e \in Published})
<1> DEFINE S == {Ask(e) : e \in Published}
<1>1. pending \in Seq(S) /\ n \in Nat /\ Len(pending) \in Nat
  BY PublishAssumption DEF PublishTypeOK
<1>2. \A i \in 1..Len(pending) : pending[i] \in S
  BY <1>1
<1> HIDE DEF S
<1>3. SubSeq(pending, 1, n) \in Seq(S) /\ Len(SubSeq(pending, 1, n)) = n
  <2>1. \A i \in 1..n : pending[i] \in S
    BY <1>1, <1>2
  <2> QED
    BY <1>1, <2>1, SubSeqProperties
<1>4. SubSeq(pending, 1, n) \in [1..n -> S]
  BY <1>3, LenProperties
<1>5. SubSeq(pending, n + 1, Len(pending)) \in Seq(S)
  <2>1. \A i \in (n + 1)..Len(pending) : pending[i] \in S
    BY <1>1, <1>2
  <2> QED
    BY <1>1, <2>1, SubSeqProperties
<1> QED
  BY <1>4, <1>5, BatchAssumption DEF S

-------------------------------------------------------------------------------
(* Every step is a step of the adapter or leaves its variables alone.      *)

LEMMA AdapterStep ==
    ASSUME PInv, [PublishNext]_allVars
    PROVE  [Next]_vars
<1>1. ASSUME NEW h \in Host, AnchorPublished(h) \/ AnchorOneFfi(h) PROVE Next
  <2>1. <<Ask(envelope[h])>> \in Request
    BY <1>1, SingleRequest DEF AnchorPublished, AnchorOneFfi, PInv, HostState
  <2> QED
    BY <1>1, <2>1, Hosts DEF AnchorPublished, AnchorOneFfi, Next
<1>2. CASE FlushBatch
  <2>1. PICK n \in 1..BatchSize : n <= Len(pending) /\ Call(Tool, SubSeq(pending, 1, n))
    BY <1>2 DEF FlushBatch
  <2>2. SubSeq(pending, 1, n) \in Request
    BY <2>1, BatchRequest DEF PInv
  <2> QED
    BY <2>1, <2>2, Hosts DEF Next
<1>3. CASE Adapter
  BY <1>3 DEF Adapter, Next
<1>4. ASSUME NEW h \in Host, Library(h) \/ Ui(h), ~AnchorPublished(h), ~AnchorOneFfi(h)
      PROVE  UNCHANGED vars
  BY <1>4 DEF Library, Ui, PublishFile, Upload, UploadSucceeds, UploadIsBlank, UploadErrs,
     Broadcast, BroadcastSucceeds, BroadcastErrs, ComputeMetadataHash, BestEffortBroadcast
<1>5. ASSUME NEW x \in topic, Ingest(x) \/ IngestFails(x) PROVE UNCHANGED vars
  BY <1>5 DEF Ingest, IngestFails, Yields
<1>6. CASE Shutdown \/ ToolStarts
  BY <1>6 DEF Shutdown, ToolStarts
<1>7. CASE ToolEnds
  BY <1>7, Hosts DEF ToolEnds, Next
<1>8. CASE UNCHANGED allVars
  BY <1>8 DEF allVars
<1> QED
  BY <1>1, <1>2, <1>3, <1>4, <1>5, <1>6, <1>7, <1>8, Hosts DEF PublishNext, BatchTool

-------------------------------------------------------------------------------
(* The inductive invariant: what is not yet told of the composition.       *)

\* Asked for once, an entry can be asked for ever after.
LEMMA AsksStays ==
    ASSUME NEW es, Asks(es), Anchorable \subseteq Anchorable'
    PROVE  \A i \in DOMAIN es : /\ es[i].metadata_hash \in Anchorable'
                                /\ es[i].cid = es[i].metadata_hash.cid
  BY DEF Asks

LEMMA AnchorableGrows ==
    ASSUME topic \subseteq topic', \A h \in Host : built[h] \subseteq built'[h]
    PROVE  Anchorable \subseteq Anchorable'
  BY Hosts DEF Anchorable, Broadcasted

\* A host's step before its anchor leaves the calls, the chain and the tool
\* alone; it may add to what was built, stored and broadcast.
LEMMA HostStepKeeps ==
    ASSUME PInv, UNCHANGED <<toolVars, vars>>, PublishTypeOK', HostState',
           topic \subseteq topic', \A h \in Host : built[h] \subseteq built'[h],
           \A x \in topic' : x.envelope \in Built', \A e \in Built' : e.cid \in stored'
    PROVE  PInv'
<1>1. IInv'
  BY DEF PInv, IInv, TypeOK, Progress, ReturnedIsFinal, vars, chainVars, callVars
<1>2. Anchorable \subseteq Anchorable'
  BY AnchorableGrows
<1>3. Asks(pending)' /\ pending' = pending
  BY <1>2 DEF toolVars, PInv, Provenance, Asks
<1>4. \A p \in Client : Asks(call[p])'
  BY <1>2 DEF vars, callVars, PInv, Provenance, Asks
<1>5. \A t \in mempool' : Asks(t.entries)'
  BY <1>2 DEF vars, chainVars, PInv, Provenance, Asks
<1>6. \A c \in Cid : entry'[c] # NoEntry =>
          /\ entry'[c].metadata_hash \in Anchorable'
          /\ entry'[c].metadata_hash.cid = c
  BY <1>2 DEF vars, chainVars, PInv, Provenance
<1> QED
  BY <1>1, <1>3, <1>4, <1>5, <1>6 DEF PInv, Provenance

\* with_retry gives up or counts one more attempt.
LEMMA RetryTypes ==
    ASSUME PublishTypeOK, NEW h \in Host, TryAgain(h) \/ Gives(h, "failed") \/ Gives(h, "published")
    PROVE  /\ step' \in [Host -> {"idle", "upload", "broadcast", "published", "failed"}]
           /\ try' \in [Host -> Nat]
           /\ \A g \in Host : try'[g] <= MaxAttempts[g]
           /\ \A g \in Host : g # h => step'[g] = step[g]
<1>1. \A g \in Host : try[g] \in Nat /\ MaxAttempts[g] \in Nat \ {0}
  BY Hosts, AdapterAssumption DEF PublishTypeOK
<1>2. ASSUME NEW s \in {"failed", "published"}, Gives(h, s)
      PROVE  /\ step' \in [Host -> {"idle", "upload", "broadcast", "published", "failed"}]
             /\ try' \in [Host -> Nat]
             /\ \A g \in Host : try'[g] <= MaxAttempts[g]
             /\ \A g \in Host : g # h => step'[g] = step[g]
  <2>1. try' = [try EXCEPT ![h] = 0] /\ step' = [step EXCEPT ![h] = s]
    BY <1>2 DEF Gives
  <2>2. \A g \in Host : try'[g] <= MaxAttempts[g]
    BY <1>1, <2>1 DEF PublishTypeOK
  <2> QED
    BY <2>1, <2>2 DEF PublishTypeOK
<1>3. CASE try[h] < MaxAttempts[h] /\ try' = [try EXCEPT ![h] = @ + 1] /\ UNCHANGED step
  BY <1>1, <1>3 DEF PublishTypeOK
<1> QED
  BY <1>2, <1>3 DEF TryAgain

LEMMA PublishFileKeeps ==
    ASSUME PInv, NEW h \in Publisher, PublishFile(h)
    PROVE  PInv'
<1>1. PICK e \in Publishes[h] : envelope' = [envelope EXCEPT ![h] = e]
  BY DEF PublishFile
<1>2. h \in Host /\ e \in Published /\ MaxAttempts[h] \in Nat \ {0}
  BY Hosts, AdapterAssumption DEF Published
<1>3. PublishTypeOK'
  <2>1. try' \in [Host -> Nat] /\ \A g \in Host : try'[g] <= MaxAttempts[g]
    BY <1>2 DEF PublishFile, PInv, PublishTypeOK
  <2> QED
    BY <1>1, <1>2, <2>1 DEF PublishFile, PInv, PublishTypeOK, toolVars
<1>4. HostState' /\ topic' = topic /\ built' = built
  BY <1>1, <1>2 DEF PublishFile, PInv, PublishTypeOK, HostState, Anchorable, Broadcasted
<1> QED
  BY <1>3, <1>4, HostStepKeeps DEF PublishFile, PInv, Provenance, Built

LEMMA UploadSucceedsKeeps ==
    ASSUME PInv, NEW h \in Publisher, UploadSucceeds(h)
    PROVE  PInv'
<1>1. h \in Host /\ envelope[h] \in Published /\ envelope[h].cid \in Cid
      /\ MaxAttempts[h] \in Nat \ {0}
  BY Hosts, AdapterAssumption, PublishedIsEnvelope DEF UploadSucceeds, PInv, HostState
<1>2. PublishTypeOK'
  <2>1. try' \in [Host -> Nat] /\ \A g \in Host : try'[g] <= MaxAttempts[g]
    BY <1>1 DEF UploadSucceeds, PInv, PublishTypeOK
  <2> QED
    BY <1>1, <2>1 DEF UploadSucceeds, PInv, PublishTypeOK, toolVars
<1>3. /\ \A g \in Host : built[g] \subseteq built'[g]
      /\ \A g \in Host : built'[g] \subseteq built[g] \cup {envelope[h]}
      /\ envelope[h] \in built'[h]
      /\ topic' = topic /\ envelope' = envelope
  BY <1>1 DEF UploadSucceeds, PInv, PublishTypeOK
<1>4. HostState'
  <2>1. Anchorable \subseteq Anchorable'
    BY <1>3, AnchorableGrows
  <2>2. step'[h] = "broadcast" /\ \A g \in Host : g # h => step'[g] = step[g]
    BY <1>1 DEF UploadSucceeds, PInv, PublishTypeOK
  <2> QED
    BY <1>1, <1>3, <2>1, <2>2 DEF PInv, HostState
<1>5. (\A x \in topic' : x.envelope \in Built') /\ \A e \in Built' : e.cid \in stored'
  BY <1>1, <1>3 DEF UploadSucceeds, PInv, Provenance, Built
<1> QED
  BY <1>2, <1>3, <1>4, <1>5, HostStepKeeps DEF UploadSucceeds

LEMMA UploadFailsKeeps ==
    ASSUME PInv, NEW h \in Publisher, UploadIsBlank(h) \/ UploadErrs(h)
    PROVE  PInv'
<1>1. h \in Host /\ envelope[h] \in Published /\ envelope[h].cid \in Cid
      /\ step[h] = "upload"
  BY Hosts, PublishedIsEnvelope DEF UploadIsBlank, UploadErrs, PInv, HostState
<1>2. /\ stored \subseteq stored' /\ stored' \subseteq Cid
      /\ topic' = topic /\ built' = built /\ envelope' = envelope
      /\ TryAgain(h) \/ Gives(h, "failed")
      /\ UNCHANGED <<toolVars, vars>>
  BY <1>1 DEF UploadIsBlank, UploadErrs, PInv, PublishTypeOK
<1>3. PublishTypeOK'
  BY <1>1, <1>2, RetryTypes DEF PInv, PublishTypeOK, toolVars
<1>4. step'[h] \in {"upload", "failed"} /\ \A g \in Host : g # h => step'[g] = step[g]
  BY <1>1, <1>2, RetryTypes DEF TryAgain, Gives, PInv, PublishTypeOK
<1>5. HostState'
  BY <1>1, <1>2, <1>4 DEF PInv, HostState, Anchorable, Broadcasted
<1> QED
  BY <1>2, <1>3, <1>5, HostStepKeeps DEF PInv, Provenance, Built

LEMMA BroadcastKeeps ==
    ASSUME PInv, NEW h \in Publisher, Broadcast(h)
    PROVE  PInv'
<1>1. h \in Host /\ envelope[h] \in Published /\ envelope[h] \in built[h]
      /\ step[h] = "broadcast"
  BY Hosts DEF Broadcast, BroadcastSucceeds, BroadcastErrs, PInv, HostState
<1>2. /\ topic \subseteq topic' /\ topic' \subseteq topic \cup {Json(envelope[h])}
      /\ stored' = stored /\ built' = built /\ envelope' = envelope
      /\ TryAgain(h) \/ (Gives(h, "published") /\ Json(envelope[h]) \in topic')
      /\ UNCHANGED <<toolVars, vars>>
  BY DEF Broadcast, BroadcastSucceeds, BroadcastErrs
<1>3. PublishTypeOK'
  BY <1>1, <1>2, RetryTypes, PayloadFacts DEF PInv, PublishTypeOK, toolVars
<1>4. /\ \A g \in Host : g # h => step'[g] = step[g]
      /\ step'[h] = "published" => envelope[h] \in Broadcasted'
  BY <1>1, <1>2, RetryTypes DEF TryAgain, Gives, Broadcasted, PInv, PublishTypeOK
<1>5. HostState'
  <2>1. Anchorable \subseteq Anchorable' /\ Broadcasted' \subseteq Anchorable'
    BY <1>2 DEF Anchorable, Broadcasted
  <2> QED
    BY <1>1, <1>2, <1>4, <2>1 DEF PInv, HostState
<1>6. (\A x \in topic' : x.envelope \in Built') /\ \A e \in Built' : e.cid \in stored'
  BY <1>1, <1>2, PayloadFacts DEF PInv, Provenance, Built
<1> QED
  BY <1>2, <1>3, <1>5, <1>6, HostStepKeeps

LEMMA ComputeMetadataHashKeeps ==
    ASSUME PInv, NEW h \in UiHost, ComputeMetadataHash(h)
    PROVE  PInv'
<1>1. PICK e \in Publishes[h] : /\ envelope' = [envelope EXCEPT ![h] = e]
                                /\ built' = [built EXCEPT ![h] = @ \cup {e}]
                                /\ stored' = stored \cup {e.cid}
  BY DEF ComputeMetadataHash
<1>2. h \in Host /\ e \in Published /\ e.cid \in Cid
  <2>1. h \in Host /\ e \in Published
    BY Hosts DEF Published
  <2> QED
    BY <2>1, PublishedIsEnvelope
<1>3. PublishTypeOK'
  BY <1>1, <1>2 DEF ComputeMetadataHash, PInv, PublishTypeOK, toolVars
<1>4. /\ \A g \in Host : built[g] \subseteq built'[g]
      /\ \A g \in Host : built'[g] \subseteq built[g] \cup {e}
      /\ e \in built'[h] /\ envelope'[h] = e /\ topic' = topic
      /\ \A g \in Host : g # h => step'[g] = step[g] /\ envelope'[g] = envelope[g]
  BY <1>1, <1>2 DEF ComputeMetadataHash, PInv, PublishTypeOK
<1>5. HostState'
  <2>1. Anchorable \subseteq Anchorable' /\ e \in Anchorable'
    BY <1>4, AnchorableGrows DEF Anchorable
  <2> QED
    BY <1>2, <1>4, <2>1 DEF PInv, HostState
<1>6. (\A x \in topic' : x.envelope \in Built') /\ \A f \in Built' : f.cid \in stored'
  BY <1>1, <1>4 DEF PInv, Provenance, Built
<1> QED
  BY <1>3, <1>4, <1>5, <1>6, HostStepKeeps DEF ComputeMetadataHash

LEMMA BestEffortBroadcastKeeps ==
    ASSUME PInv, NEW h \in UiHost, BestEffortBroadcast(h)
    PROVE  PInv'
<1> PICK e \in built[h] : topic' = topic \cup {Base64(e)}
  BY DEF BestEffortBroadcast
<1>1. e \in Published /\ e \in Built
  BY Hosts DEF PInv, PublishTypeOK, Built
<1>2. PublishTypeOK'
  BY <1>1, PayloadFacts DEF BestEffortBroadcast, PInv, PublishTypeOK, hostVars, toolVars
<1>3. HostState'
  <2>1. Anchorable \subseteq Anchorable'
    BY DEF BestEffortBroadcast, hostVars, Anchorable, Broadcasted
  <2> QED
    BY <2>1 DEF BestEffortBroadcast, hostVars, PInv, HostState
<1>4. (\A x \in topic' : x.envelope \in Built') /\ \A f \in Built' : f.cid \in stored'
  BY <1>1, PayloadFacts DEF BestEffortBroadcast, hostVars, PInv, Provenance, Built
<1> QED
  BY <1>2, <1>3, <1>4, HostStepKeeps DEF BestEffortBroadcast, hostVars

\* A call asks for what is anchorable, and leaves the rest as it is.
LEMMA CallAsks ==
    ASSUME PInv, NEW p \in Client, NEW es \in Request, Call(p, es), Asks(es),
           UNCHANGED <<hostVars, stored, topic, tool, seen, refused>>, Asks(pending'),
           pending' \in Seq({Ask(e) : e \in Published})
    PROVE  PInv'
<1>1. IInv'
  BY CallKeeps DEF PInv
<1>2. PublishTypeOK' /\ HostState' /\ Anchorable' = Anchorable /\ Built' = Built
  BY DEF hostVars, PInv, PublishTypeOK, HostState, Anchorable, Broadcasted, Built
<1>3. /\ call'[p] = es /\ \A q \in Client : q # p => call'[q] = call[q]
      /\ mempool' = mempool /\ entry' = entry
  BY DEF Call, chainVars, PInv, IInv, TypeOK
<1>4. Provenance'
  <2>1. \A q \in Client : Asks(call[q])'
    BY <1>2, <1>3 DEF PInv, Provenance, Asks
  <2>2. Asks(pending)'
    BY <1>2 DEF Asks
  <2>3. \A t \in mempool' : Asks(t.entries)'
    BY <1>2, <1>3 DEF PInv, Provenance, Asks
  <2> QED
    BY <1>2, <1>3, <2>1, <2>2, <2>3 DEF PInv, Provenance, hostVars
<1> QED
  BY <1>1, <1>2, <1>4 DEF PInv

LEMMA AnchorPublishedKeeps ==
    ASSUME PInv, NEW h \in Host, AnchorPublished(h) \/ AnchorOneFfi(h)
    PROVE  PInv'
<1>1. envelope[h] \in Published /\ envelope[h] \in Anchorable
  BY DEF AnchorPublished, AnchorOneFfi, PInv, HostState
<1>2. Asks(<<Ask(envelope[h])>>)
  BY <1>1 DEF Asks, Ask
<1> QED
  BY <1>1, <1>2, SingleRequest, CallAsks, Hosts
     DEF AnchorPublished, AnchorOneFfi, publishVars, toolVars, PInv, PublishTypeOK, Provenance

LEMMA LibraryKeeps ==
    ASSUME PInv, NEW h \in Publisher, Library(h)
    PROVE  PInv'
  BY PublishFileKeeps, UploadSucceedsKeeps, UploadFailsKeeps, BroadcastKeeps,
     AnchorPublishedKeeps, Hosts DEF Library, Upload

\* The front of what is pending asks for what all of it asks for.
LEMMA FrontAsks ==
    ASSUME NEW T, NEW es \in Seq(T), Asks(es), NEW n \in Nat, n <= Len(es)
    PROVE  SubSeq(es, 1, n) \in Seq(T) /\ Asks(SubSeq(es, 1, n))
<1> DEFINE first == SubSeq(es, 1, n)
<1>1. \A i \in 1..n : es[i] \in T
  OBVIOUS
<1>2. Len(first) = n /\ first \in Seq(T) /\ \A i \in 1..n : first[i] = es[i]
  <2>1. \A i \in 1..(n - 1 + 1) : first[i] = es[1 + i - 1]
    BY <1>1, SubSeqProperties
  <2>2. Len(first) = n /\ first \in Seq(T)
    BY <1>1, SubSeqProperties
  <2> QED
    BY <2>1, <2>2
<1>3. \A i \in DOMAIN first : i \in DOMAIN es /\ first[i] = es[i]
  BY <1>2
<1> HIDE DEF first
<1>4. Asks(first)
  BY <1>3 DEF Asks
<1> QED
  BY <1>2, <1>4 DEF first

LEMMA FlushBatchKeeps ==
    ASSUME PInv, FlushBatch
    PROVE  PInv'
<1>1. PICK n \in 1..BatchSize :
         /\ n <= Len(pending)
         /\ Call(Tool, SubSeq(pending, 1, n))
         /\ pending' = SubSeq(pending, n + 1, Len(pending))
  BY DEF FlushBatch
<1> DEFINE first == SubSeq(pending, 1, n)
           rest == SubSeq(pending, n + 1, Len(pending))
           S == {Ask(e) : e \in Published}
<1>2. first \in Request /\ rest \in Seq(S)
  BY <1>1, BatchRequest DEF PInv
<1>3. /\ n \in Nat /\ Len(pending) \in Nat /\ pending \in Seq(S)
      /\ \A i \in 1..Len(pending) : pending[i] \in S
  BY PublishAssumption DEF PInv, PublishTypeOK
<1>4. \A i \in 1..Len(pending) : /\ pending[i].metadata_hash \in Anchorable
                                  /\ pending[i].cid = pending[i].metadata_hash.cid
  BY <1>3 DEF PInv, Provenance, Asks
<1>5. Asks(first)
  BY <1>1, <1>3, FrontAsks DEF PInv, Provenance
<1>6. Asks(rest)
  <2> DEFINE m == n + 1
             l == Len(pending)
  <2>1. \A i \in m..l : pending[i] \in S
    BY <1>1, <1>3
  <2>2. /\ rest \in Seq(S)
        /\ Len(rest) = IF m <= l THEN l - m + 1 ELSE 0
        /\ \A i \in 1..(l - m + 1) : rest[i] = pending[m + i - 1]
    <3> HIDE DEF S
    <3> QED
      BY <1>3, <2>1, SubSeqProperties
  <2>3. \A i \in DOMAIN rest : i \in 1..(l - m + 1) /\ m + i - 1 \in 1..l
    BY <1>1, <1>3, <2>2
  <2> HIDE DEF rest, m, l
  <2>4. \A i \in DOMAIN rest : \E j \in 1..l : rest[i] = pending[j]
    BY <2>2, <2>3
  <2> QED
    BY <1>4, <2>4 DEF Asks, l
<1> QED
  BY <1>1, <1>2, <1>5, <1>6, CallAsks, Hosts DEF FlushBatch

\* Only the tool changes; what is pending was so before or is a payload's.
LEMMA ToolStepKeeps ==
    ASSUME PInv, UNCHANGED <<hostVars, stored, topic>>, IInv',
           entry' = entry, mempool' = mempool, \A p \in Client : Asks(call'[p]),
           tool' \in {"run", "stopping", "down"}, seen' \subseteq topic, refused' \subseteq seen',
           pending' \in Seq({Ask(e) : e \in Published}), Asks(pending')
    PROVE  PInv'
<1>1. PublishTypeOK' /\ HostState' /\ Anchorable' = Anchorable /\ Built' = Built
  BY DEF hostVars, PInv, PublishTypeOK, HostState, Anchorable, Broadcasted, Built
<1>2. Provenance'
  BY <1>1 DEF PInv, Provenance, Asks, hostVars
<1> QED
  BY <1>1, <1>2 DEF PInv

LEMMA IngestKeeps ==
    ASSUME PInv, NEW x \in topic, Ingest(x) \/ IngestFails(x)
    PROVE  PInv'
<1> DEFINE e == x.envelope
           S == {Ask(f) : f \in Published}
<1>1. e \in Published /\ (x.form = "json" => e \in Anchorable)
  <2>1. x \in Payload
    BY DEF PInv, PublishTypeOK
  <2>2. x.form = "json" => x = Json(e)
    BY <2>1 DEF Payload, Json
  <2> QED
    BY <2>1, <2>2 DEF Payload, Anchorable, Broadcasted
<1>2. pending' = pending \/ (pending' = Append(pending, Ask(e)) /\ e \in Anchorable)
  BY <1>1 DEF Ingest, IngestFails, Forwards
<1>3. pending \in Seq(S) /\ Asks(pending) /\ Ask(e) \in S
  BY <1>1 DEF PInv, PublishTypeOK, Provenance
<1>4. pending' \in Seq(S) /\ Asks(pending')
  <2>1. CASE pending' = pending
    BY <1>3, <2>1
  <2>2. CASE pending' = Append(pending, Ask(e)) /\ e \in Anchorable
    <3> HIDE DEF S, e
    <3>1. pending' \in Seq(S)
      BY <1>3, <2>2
    <3>2. \A i \in DOMAIN pending' : \/ i \in DOMAIN pending /\ pending'[i] = pending[i]
                                     \/ pending'[i] = Ask(e)
      BY <1>3, <2>2
    <3> QED
      BY <1>3, <2>2, <3>1, <3>2 DEF Asks, Ask
  <2> QED
    BY <1>2, <2>1, <2>2
<1>5. UNCHANGED <<hostVars, stored, topic, tool, vars>> /\ seen' = seen \cup {x}
      /\ refused' \subseteq refused \cup {x}
  BY DEF Ingest, IngestFails, Yields
<1>6. IInv'
  BY <1>5 DEF PInv, IInv, TypeOK, Progress, ReturnedIsFinal, vars, chainVars, callVars
<1>7. \A p \in Client : Asks(call'[p])
  BY <1>5 DEF PInv, Provenance, vars, callVars
<1> QED
  BY <1>4, <1>5, <1>6, <1>7, ToolStepKeeps DEF PInv, PublishTypeOK, vars, chainVars

LEMMA ShutdownKeeps ==
    ASSUME PInv, Shutdown
    PROVE  PInv'
<1> DEFINE S == {Ask(e) : e \in Published}
<1>1. PICK n \in 0..(BatchSize - 1) : n <= Len(pending) /\ pending' = SubSeq(pending, 1, n)
  BY DEF Shutdown
<1>2. n \in Nat /\ pending \in Seq(S) /\ Asks(pending)
  BY PublishAssumption DEF PInv, PublishTypeOK, Provenance
<1>3. pending' \in Seq(S) /\ Asks(pending')
  BY <1>1, <1>2, FrontAsks
<1>4. UNCHANGED <<hostVars, stored, topic, seen, refused, vars>> /\ tool' = "stopping"
  BY DEF Shutdown
<1>5. IInv'
  BY <1>4 DEF PInv, IInv, TypeOK, Progress, ReturnedIsFinal, vars, chainVars, callVars
<1>6. \A p \in Client : Asks(call'[p])
  BY <1>4 DEF PInv, Provenance, vars, callVars
<1> QED
  BY <1>3, <1>4, <1>5, <1>6, ToolStepKeeps DEF PInv, PublishTypeOK, vars, chainVars

LEMMA ToolEndsKeeps ==
    ASSUME PInv, ToolEnds
    PROVE  PInv'
<1>1. IInv' /\ Ends(Tool)
  BY EndsKeeps, Hosts DEF ToolEnds, PInv
<1>2. Asks(<< >>) /\ << >> \in Seq({Ask(e) : e \in Published})
  BY DEF Asks
<1>3. \A p \in Client : Asks(call'[p])
  BY <1>1, <1>2, Hosts DEF Ends, PInv, Provenance, IInv, TypeOK
<1> QED
  BY <1>1, <1>2, <1>3, ToolStepKeeps DEF ToolEnds, Ends, PInv, PublishTypeOK, chainVars

LEMMA ToolStartsKeeps ==
    ASSUME PInv, ToolStarts
    PROVE  PInv'
<1>1. IInv'
  BY DEF ToolStarts, PInv, IInv, TypeOK, Progress, ReturnedIsFinal, vars, chainVars, callVars
<1>2. \A p \in Client : Asks(call'[p])
  BY DEF ToolStarts, PInv, Provenance, vars, callVars
<1> QED
  BY <1>1, <1>2, ToolStepKeeps DEF ToolStarts, PInv, PublishTypeOK, Provenance, vars, chainVars

\* What a call sends is what it asks for, and what lands on the chain is what a
\* transaction asks for.
LEMMA AdapterKeeps ==
    ASSUME PInv, Adapter
    PROVE  PInv'
<1>1. IInv'
  BY StepKeeps DEF Adapter, Next, PInv
<1>2. /\ PublishTypeOK' /\ HostState' /\ Anchorable' = Anchorable /\ Built' = Built
      /\ topic' = topic /\ stored' = stored /\ pending' = pending
  BY DEF Adapter, publishVars, hostVars, toolVars, PInv, PublishTypeOK, HostState,
     Anchorable, Broadcasted, Built
<1>3. call' = call
  BY DEF Adapter, Step, Send, SendFails, Confirm, ReadEntry, ReadEmpty, ReadFails,
     AttemptFails, Lands, IsLost, callVars, chainVars
<1>4. \A t \in mempool' : Asks(t.entries)
  <2>1. ASSUME NEW p \in Client, Step(p)
        PROVE  \A t \in mempool' : t \in mempool \/ \E now \in Time : t = Sent(p, now)
    BY <2>1 DEF Step, Send, SendFails, Confirm, ReadEntry, ReadEmpty, ReadFails, chainVars
  <2>2. ASSUME NEW t \in mempool, Lands(t) \/ IsLost(t)
        PROVE  mempool' \subseteq mempool
    BY <2>2 DEF Lands, IsLost
  <2>3. ASSUME NEW p \in Client, NEW now \in Time
        PROVE  Asks(Sent(p, now).entries)
    BY DEF Sent, PInv, Provenance
  <2> QED
    BY <2>1, <2>2, <2>3 DEF Adapter, PInv, Provenance
<1>5. \A c \in Cid : entry'[c] # NoEntry =>
          /\ entry'[c].metadata_hash \in Anchorable
          /\ entry'[c].metadata_hash.cid = c
  <2>1. ASSUME NEW t \in mempool, Lands(t), NEW c \in Cid, entry'[c] # NoEntry
        PROVE  /\ entry'[c].metadata_hash \in Anchorable
               /\ entry'[c].metadata_hash.cid = c
    <3>1. PICK win \in [CidsOf(t) -> DOMAIN t.entries] :
             /\ \A d \in CidsOf(t) : t.entries[win[d]].cid = d
             /\ entry' = [d \in Cid |-> IF d \in CidsOf(t) THEN PostState(t, win[d], d)
                                                           ELSE entry[d]]
      BY <2>1 DEF Lands
    <3>2. CASE c \in CidsOf(t) /\ entry[c] = NoEntry
      <4>1. /\ win[c] \in DOMAIN t.entries /\ t.entries[win[c]].cid = c
            /\ entry'[c].metadata_hash = t.entries[win[c]].metadata_hash
        BY <3>1, <3>2 DEF PostState
      <4>2. Asks(t.entries)
        BY DEF PInv, Provenance
      <4> QED
        BY <4>1, <4>2 DEF Asks
    <3>3. CASE c \notin CidsOf(t) \/ entry[c] # NoEntry
      <4>1. entry'[c] = entry[c]
        BY <3>1, <3>3 DEF PostState
      <4> QED
        BY <2>1, <4>1 DEF PInv, Provenance
    <3> QED
      BY <3>2, <3>3
  <2>2. ASSUME NEW p \in Client, Step(p) PROVE entry' = entry
    BY <2>2 DEF Step, Send, SendFails, Confirm, ReadEntry, ReadEmpty, ReadFails, chainVars
  <2>3. ASSUME NEW t \in mempool, IsLost(t) PROVE entry' = entry
    BY <2>3 DEF IsLost
  <2> QED
    BY <2>1, <2>2, <2>3 DEF Adapter, PInv, Provenance
<1>6. Provenance'
  BY <1>2, <1>3, <1>4, <1>5 DEF PInv, Provenance, Asks
<1> QED
  BY <1>1, <1>2, <1>6 DEF PInv

LEMMA PublishStepKeeps ==
    ASSUME PInv, [PublishNext]_allVars
    PROVE  PInv'
<1>1. ASSUME NEW h \in UiHost, Ui(h) PROVE PInv'
  BY <1>1, ComputeMetadataHashKeeps, BestEffortBroadcastKeeps, AnchorPublishedKeeps, Hosts
     DEF Ui
<1>2. CASE BatchTool
  BY <1>2, IngestKeeps, FlushBatchKeeps, ShutdownKeeps, ToolEndsKeeps, ToolStartsKeeps
     DEF BatchTool
<1>3. CASE UNCHANGED allVars
  <2>1. UNCHANGED <<toolVars, vars>> /\ PublishTypeOK' /\ HostState'
        /\ topic' = topic /\ built' = built /\ stored' = stored
    BY <1>3 DEF allVars, publishVars, hostVars, toolVars, PInv, PublishTypeOK,
       HostState, Anchorable, Broadcasted
  <2> QED
    BY <2>1, HostStepKeeps DEF PInv, Provenance, Built
<1> QED
  BY <1>1, <1>2, <1>3, LibraryKeeps, AdapterKeeps DEF PublishNext

LEMMA PublishInitially == PublishInit => PInv
<1> SUFFICES ASSUME PublishInit PROVE PInv
  OBVIOUS
<1>1. IInv
  BY Initially DEF PublishInit
<1>2. PublishTypeOK
  <2>1. \A h \in Host : 0 <= MaxAttempts[h]
    BY Hosts, AdapterAssumption
  <2> QED
    BY <2>1 DEF PublishInit, PublishTypeOK
<1>3. HostState
  BY DEF PublishInit, HostState
<1>4. Provenance
  BY DEF PublishInit, Init, Provenance, Asks, Built
<1> QED
  BY <1>1, <1>2, <1>3, <1>4 DEF PInv

-------------------------------------------------------------------------------
(* The theorems.                                                           *)

\* Every reachable state satisfies the inductive invariant.
THEOREM PublishInvariance == PublishSpec => []PInv
<1>1. PInv /\ [PublishNext]_allVars => PInv'
  BY PublishStepKeeps
<1> QED
  BY <1>1, PublishInitially, PTL DEF PublishSpec

\* Library, UIs and batch tool together make no step that the adapter's model
\* does not allow: whatever holds of LezAdapter's Spec holds of them.
THEOREM PublishUsesAdapter == PublishSpec => Spec
<1>1. PublishInit => Init
  BY DEF PublishInit
<1>2. PInv /\ [PublishNext]_allVars => [Next]_vars
  BY AdapterStep
<1> QED
  BY <1>1, <1>2, PublishInvariance, PTL DEF PublishSpec, Spec

\* The state of the hosts and of the tool keeps its type, for any number of
\* them; no upload or broadcast is tried more than max_attempts times.
THEOREM PublishTypes == PublishSpec => []PublishTypeOK
  BY PublishInvariance, PTL DEF PInv

\* Every entry is an envelope that was built for its CID and stored, and that
\* was broadcast unless a UI built it.
THEOREM NothingElseIsAnchored == PublishSpec => []AnchoredIsPublished
<1>1. PInv => AnchoredIsPublished
  <2> SUFFICES ASSUME PInv, NEW c \in Cid, entry[c] # NoEntry
               PROVE  LET e == entry[c].metadata_hash IN
                      /\ e.cid = c
                      /\ c \in stored
                      /\ e \in Built
                      /\ Json(e) \in topic \/ \E h \in UiHost : e \in built[h]
    BY DEF AnchoredIsPublished
  <2> DEFINE e == entry[c].metadata_hash
  <2>1. e \in Anchorable /\ e.cid = c
    BY DEF PInv, Provenance
  <2>2. e \in Built
    BY <2>1, Hosts, PayloadFacts DEF PInv, Provenance, Anchorable, Broadcasted, Built
  <2> QED
    BY <2>1, <2>2 DEF PInv, Provenance, Anchorable, Broadcasted
<1> QED
  BY <1>1, PublishInvariance, PTL

\* A host is given another hash than its own only if that is the hash of an
\* envelope that was built for the same CID.
THEOREM LosersLoseToEnvelopes == PublishSpec => []LosesOnlyToAnother
<1>1. PInv => LosesOnlyToAnother
  <2> SUFFICES ASSUME PInv, NEW h \in Host, pc[h] = "ok"
               PROVE  out[h][1].metadata_hash.cid = call[h][1].metadata_hash.cid
                      /\ out[h][1].metadata_hash \in Built
    BY DEF LosesOnlyToAnother
  <2>1. h \in Client
    BY Hosts
  <2>2. /\ call[h] # << >> /\ Len(out[h]) = Len(call[h])
        /\ call[h] \in Seq(Entry) /\ out[h] \in Seq(AnchorEntry)
    BY <2>1, RequestAssumption DEF PInv, IInv, TypeOK, Progress, ReturnedIsFinal
  <2>3. 1 \in DOMAIN call[h] /\ 1 \in DOMAIN out[h]
    BY <2>2
  <2>4. /\ out[h][1] = entry[call[h][1].cid] /\ out[h][1] \in AnchorEntry
        /\ call[h][1] \in Entry
    BY <2>1, <2>2, <2>3 DEF PInv, IInv, ReturnedIsFinal
  <2>5. call[h][1].cid \in Cid /\ entry[call[h][1].cid] # NoEntry
    BY <2>4, AdapterAssumption DEF Entry
  <2>6. call[h][1].cid = call[h][1].metadata_hash.cid
    BY <2>1, <2>3 DEF PInv, Provenance, Asks
  <2>7. /\ out[h][1].metadata_hash \in Anchorable
        /\ out[h][1].metadata_hash.cid = call[h][1].cid
    BY <2>4, <2>5 DEF PInv, Provenance
  <2> QED
    BY <2>6, <2>7, Hosts, PayloadFacts DEF PInv, Provenance, Anchorable, Broadcasted, Built
<1> QED
  BY <1>1, PublishInvariance, PTL

-------------------------------------------------------------------------------
(* How long with_retry sleeps.                                             *)

\* The power is the function that its equation says, and a positive number.
LEMMA PowerUnfolds ==
    ASSUME NEW b \in Nat \ {0}
    PROVE  /\ Power(b) \in [Nat -> Nat \ {0}]
           /\ Power(b)[0] = 1
           /\ \A n \in Nat : Power(b)[n + 1] = b * Power(b)[n]
<1> DEFINE times == [n \in Nat |-> [x \in Nat \ {0} |-> b * x]]
           p == Power(b)
<1>1. \A x \in Nat \ {0} : b * x \in Nat \ {0}
  OBVIOUS
<1>2. PICK f \in [Nat -> Nat \ {0}] : f[0] = 1 /\ \A n \in Nat : f[n + 1] = b * f[n]
  <2> DEFINE V == Nat \ {0}
             one == 1
  <2>1. times \in StepsOn(V) /\ one \in V
    BY <1>1 DEF StepsOn
  <2>2. \A n \in Nat, x \in V : times[n][x] = b * x
    OBVIOUS
  <2> HIDE DEF times, V, one
  <2>3. PICK f : Iterates(f, V, one, times)
    BY <2>1, Recursion
  <2>4. f \in [Nat -> V] /\ f[0] = one /\ \A n \in Nat : f[n + 1] = times[n][f[n]]
    BY <2>3 DEF Iterates
  <2>5. \A n \in Nat : f[n + 1] = b * f[n]
    BY <2>2, <2>4
  <2> QED
    BY <2>4, <2>5 DEF V, one
<1> HIDE DEF times
<1>3. f = [n \in Nat |-> IF n = 0 THEN 1 ELSE b * f[n - 1]]
  <2>1. \A n \in Nat : f[n] = IF n = 0 THEN 1 ELSE b * f[n - 1]
    <3> SUFFICES ASSUME NEW n \in Nat, n # 0 PROVE f[n] = b * f[n - 1]
      BY <1>2
    <3>1. n - 1 \in Nat /\ (n - 1) + 1 = n
      OBVIOUS
    <3> QED
      BY <1>2, <3>1
  <2> QED
    BY <2>1
<1>4. p = [n \in Nat |-> IF n = 0 THEN 1 ELSE b * p[n - 1]]
  BY <1>3 DEF Power
<1> HIDE DEF p
<1>5. p[0] = 1 /\ \A n \in Nat : p[n + 1] = b * p[n]
  BY <1>4
<1>6. p = f
  <2> DEFINE Same == {n \in Nat : p[n] = f[n]}
  <2>1. 0 \in Same
    BY <1>2, <1>5
  <2>2. \A n \in Nat : n \in Same => n + 1 \in Same
    <3> SUFFICES ASSUME NEW n \in Nat, p[n] = f[n] PROVE p[n + 1] = f[n + 1]
      OBVIOUS
    <3>1. p[n + 1] = b * p[n] /\ f[n + 1] = b * f[n]
      BY <1>2, <1>5
    <3> QED
      BY <3>1
  <2>3. Nat \subseteq Same
    <3> HIDE DEF Same
    <3> QED
      BY <2>1, <2>2, AllNaturals
  <2> QED
    BY <1>4, <2>3
<1> QED
  BY <1>5, <1>6 DEF p

LEMMA ProductCommutes ==
    ASSUME NEW x \in Nat, NEW y \in Nat
    PROVE  x * y = y * x /\ x * 1 = x
  OBVIOUS

\* A product grows with its second factor.
LEMMA ProductGrows ==
    ASSUME NEW x \in Nat, NEW a \in Nat, NEW b \in Nat, a <= b
    PROVE  x * a <= x * b
<1>1. PICK d \in Nat : b = a + d
  <2>1. b - a \in Nat /\ b = a + (b - a)
    OBVIOUS
  <2> QED
    BY <2>1
<1>2. x * b = x * a + x * d /\ x * d \in Nat /\ x * a \in Nat
  BY <1>1
<1> QED
  BY <1>2

\* The sleep after an attempt is a number, never more than max_backoff, and at
\* least as long as the one before.
LEMMA BackoffStep ==
    /\ \A n \in Nat : SleptBefore(n) \in Nat /\ SleptBefore(n) <= Policy.max_backoff
    /\ \A n \in Nat : SleptBefore(n) <= SleptBefore(n + 1)
<1> DEFINE P == Power(Policy.backoff_multiplier)
           I == Policy.initial_backoff
           M == Policy.max_backoff
           Pow(k) == SaturatingPow(Policy.backoff_multiplier, k)
<1>1. /\ I \in Nat /\ M \in Nat /\ CounterMax \in Nat
      /\ Policy.backoff_multiplier \in Nat \ {0}
  BY RetryAssumption
<1>2. /\ P \in [Nat -> Nat \ {0}]
      /\ \A n \in Nat : P[n + 1] = Policy.backoff_multiplier * P[n]
  BY <1>1, PowerUnfolds
<1>3. \A n \in Nat : P[n] <= P[n + 1]
  <2> SUFFICES ASSUME NEW n \in Nat PROVE P[n] <= P[n + 1]
    OBVIOUS
  <2>1. P[n] \in Nat /\ Policy.backoff_multiplier \in Nat /\ 1 <= Policy.backoff_multiplier
    BY <1>1, <1>2
  <2>2. P[n] * 1 <= P[n] * Policy.backoff_multiplier
    <3> HIDE DEF P
    <3> QED
      BY <2>1, ProductGrows
  <2>3. P[n] * 1 = P[n] /\ P[n] * Policy.backoff_multiplier = Policy.backoff_multiplier * P[n]
    <3> HIDE DEF P
    <3> QED
      BY <2>1, ProductCommutes
  <2> QED
    BY <1>2, <2>2, <2>3
<1>4. \A k \in Nat : Pow(k) \in Nat /\ Pow(k) <= Pow(k + 1)
  <2>1. \A k \in Nat : Pow(k) = Lesser(P[k], CounterMax)
    BY DEF SaturatingPow
  <2> HIDE DEF P, Pow
  <2> QED
    BY <1>1, <1>2, <1>3, <2>1 DEF Lesser
<1> HIDE DEF P, Pow
<1>5. \A k \in Nat : I * Pow(k) \in Nat /\ I * Pow(k) <= I * Pow(k + 1)
  BY <1>1, <1>4, ProductGrows
<1>6. \A n \in Nat : SleptBefore(n) = IF n <= 1 THEN 0 ELSE Lesser(I * Pow(n - 2), M)
  <2> SUFFICES ASSUME NEW n \in Nat, ~(n <= 1)
               PROVE SleptBefore(n) = Lesser(I * Pow(n - 2), M)
    BY DEF SleptBefore
  <2>1. (n - 1) - 1 = n - 2
    OBVIOUS
  <2> QED
    BY <2>1 DEF SleptBefore, BackoffFor, Pow
<1> HIDE DEF I, M
<1>7. \A n \in Nat : SleptBefore(n) \in Nat /\ SleptBefore(n) <= M
  BY <1>1, <1>5, <1>6 DEF Lesser
<1>8. ASSUME NEW n \in Nat PROVE SleptBefore(n) <= SleptBefore(n + 1)
  <2>1. CASE n <= 1
    BY <1>6, <1>7, <2>1
  <2>2. CASE ~(n <= 1)
    <3>1. n - 2 \in Nat /\ (n - 2) + 1 = (n + 1) - 2 /\ ~(n + 1 <= 1)
      BY <2>2
    <3>2. I * Pow(n - 2) <= I * Pow((n + 1) - 2) /\ I * Pow(n - 2) \in Nat /\ I * Pow((n + 1) - 2) \in Nat
      BY <1>5, <3>1
    <3> QED
      BY <1>1, <1>6, <2>2, <3>1, <3>2 DEF Lesser
  <2> QED
    BY <2>1, <2>2
<1> QED
  BY <1>7, <1>8 DEF M

\* So the later of two attempts has been waited for at least as long.
LEMMA SleepsGrow ==
    \A m, n \in Nat : m <= n => SleptBefore(m) <= SleptBefore(n)
<1> SUFFICES ASSUME NEW m \in Nat PROVE \A n \in Nat : m <= n => SleptBefore(m) <= SleptBefore(n)
  OBVIOUS
<1> DEFINE Later == {n \in Nat : m <= n => SleptBefore(m) <= SleptBefore(n)}
<1>1. 0 \in Later
  BY BackoffStep
<1>2. \A n \in Nat : n \in Later => n + 1 \in Later
  <2> SUFFICES ASSUME NEW n \in Nat, n \in Later, m <= n + 1
               PROVE SleptBefore(m) <= SleptBefore(n + 1)
    OBVIOUS
  <2>1. CASE m = n + 1
    BY <2>1, BackoffStep
  <2>2. CASE m # n + 1
    <3>1. m <= n
      BY <2>2
    <3> QED
      BY <3>1, BackoffStep
  <2> QED
    BY <2>1, <2>2
<1>3. Nat \subseteq Later
  <2> HIDE DEF Later
  <2> QED
    BY <1>1, <1>2, AllNaturals
<1> QED
  BY <1>3

\* The sleeps of a retried upload or broadcast never get shorter, and stay
\* within max_backoff, for every policy (whose multiplier is not 0) and every
\* width of the counter.
THEOREM Backoff == PublishSpec => BackoffGrows
<1>1. ASSUME NEW m \in Nat, NEW n \in Nat, n > m
      PROVE  SleptBefore(n) >= SleptBefore(m) /\ SleptBefore(n) <= Policy.max_backoff
  <2>1. SleptBefore(m) \in Nat /\ SleptBefore(n) \in Nat /\ m <= n
    BY <1>1, BackoffStep
  <2> QED
    BY <2>1, BackoffStep, SleepsGrow
<1>2. PInv /\ PInv' =>
        \A h \in Host : try'[h] > try[h] =>
            /\ SleptBefore(try'[h]) >= SleptBefore(try[h])
            /\ SleptBefore(try'[h]) <= Policy.max_backoff
  BY <1>1 DEF PInv, PublishTypeOK
<1> QED
  BY <1>2, PublishInvariance, PTL DEF BackoffGrows

\* So every anchor call of a host and of the tool is bounded, while they publish
\* and flush around it.
THEOREM PublishCallsBounded == PublishSpec => CallsAreBounded
  BY PublishUsesAdapter, BoundedCalls, PTL

\* And to each of them the registry is the client of RegistryClient.
THEOREM PublishHasClients == PublishSpec => ImplementsClient
  BY PublishUsesAdapter, AdapterIsClient, PTL

===============================================================================
