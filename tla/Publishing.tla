------------------------------ MODULE Publishing ------------------------------
(***************************************************************************)
(* From a file to an entry: Publisher (indexing/src/publisher.rs), the UI  *)
(* host's calls of the FFI (ui/ffi/src/lib.rs) and a batch tool            *)
(* (indexing/src/batch.rs), side by side over storage, the Delivery topic  *)
(* and the registry.  Their anchor calls are those of LezAdapter, whose    *)
(* variables and steps this module extends.                                *)
(*                                                                         *)
(* Hashes are injective, so the hash of an envelope is the envelope, and   *)
(* storage is content-addressed, so a file is named by its CID.            *)
(***************************************************************************)
EXTENDS LezAdapter, Retry

CONSTANTS
    Publisher,      \* tasks that use the library
    UiHost,         \* UIs; their anchor calls go through the FFI
    Tool,           \* the batch tool
    Inputs,         \* MetadataInputs
    Publishes,      \* what each host may publish
    NoEnvelope,
    BatchSize,
    PublishFaults   \* what may go wrong beside the calls

PublishFaultKind ==
    {"storage",     \* upload_file answers with an error
     "blank_cid",   \* or with a CID of blanks
     "delivery",    \* publish answers with an error
     "ledger",      \* the tool cannot record a payload
     "shutdown"}    \* SIGINT to the tool

Host == Publisher \cup UiHost

Envelope == [cid : Cid, inputs : Inputs]
Published == UNION {Publishes[h] : h \in Host}

\* A payload as a subscriber gets it.  The delivery module encodes what it is
\* handed and the receiving side decodes that once (external: indexing/API.md:47,
\* adapters/qt/NOTES.md:43).  So the library's JSON arrives as JSON, and the
\* base64 that the UI hands over arrives as base64.
Payload == [envelope : Published, form : {"json", "base64"}]
Json(e) == [envelope |-> e, form |-> "json"]
Base64(e) == [envelope |-> e, form |-> "base64"]

\* The entry that is asked for an envelope.
Ask(e) == [cid |-> e.cid, metadata_hash |-> e]

ASSUME PublishAssumption ==
    /\ Client = Host \cup {Tool}
    /\ Publisher \cap UiHost = {}
    /\ Tool \notin Host
    /\ Metadata = Envelope
    /\ \A h \in UiHost : MaxAttempts[h] = 1
    /\ Publishes \in [Host -> SUBSET Envelope]
    /\ NoEnvelope \notin Envelope
    /\ BatchSize \in Nat \ {0}
    /\ PublishFaults \subseteq PublishFaultKind

\* Nobody asks for more than BatchSize entries at a time.
ASSUME BatchAssumption ==
    \A n \in 1..BatchSize : [1..n -> {Ask(e) : e \in Published}] \subseteq Request

VARIABLES
    step,       \* where the publish of a host is
    envelope,   \* the envelope it is about: PublishOutcome
    try,        \* with_retry's attempt of the upload or of the broadcast
    built,      \* the envelopes that a host has built so far
    stored,     \* the CIDs that storage has
    topic,      \* the payloads that are on the topic
    tool,       \* the batch tool: "run", "stopping" after SIGINT, "down"
    seen,       \* its dedupe store
    refused,    \* those of seen that its process could not record
    pending     \* its buffer and channel

hostVars == <<step, envelope, try, built>>
toolVars == <<tool, seen, refused, pending>>
publishVars == <<hostVars, stored, topic, toolVars>>
allVars == <<vars, publishVars>>

PublishInit ==
    /\ Init
    /\ step = [h \in Host |-> "idle"]
    /\ envelope = [h \in Host |-> NoEnvelope]
    /\ try = [h \in Host |-> 0]
    /\ built = [h \in Host |-> {}]
    /\ stored = {}
    /\ topic = {}
    /\ tool = "run"
    /\ seen = {}
    /\ refused = {}
    /\ pending = << >>

Built == UNION {built[h] : h \in Host}

-------------------------------------------------------------------------------
(* The library: publish_file.                                              *)

Free(h) == Returned(h) /\ step[h] \in {"idle", "published", "failed"}

PublishFile(h) ==
    /\ Free(h)
    /\ \E e \in Publishes[h] : envelope' = [envelope EXCEPT ![h] = e]
    /\ step' = [step EXCEPT ![h] = "upload"]
    /\ try' = [try EXCEPT ![h] = 1]
    /\ UNCHANGED <<built, stored, topic, toolVars, vars>>

Gives(h, s) ==
    /\ step' = [step EXCEPT ![h] = s]
    /\ try' = [try EXCEPT ![h] = 0]

\* with_retry sees an error: another attempt while there is one, if the error
\* is retryable.
TryAgain_OneMore(h) ==
    \/ try[h] <= MaxAttempts[h] /\ try' = [try EXCEPT ![h] = @ + 1] /\ UNCHANGED step
    \/ Gives(h, "failed")
TryAgain_StartsOver(h) ==
    \/ try' = [try EXCEPT ![h] = IF @ < MaxAttempts[h] THEN @ + 1 ELSE 1] /\ UNCHANGED step
    \/ Gives(h, "failed")
TryAgain(h) ==
    \/ /\ try[h] < MaxAttempts[h]
       /\ try' = [try EXCEPT ![h] = @ + 1]
       /\ UNCHANGED step
    \/ Gives(h, "failed")

\* Storage answers with the CID of the content, and the envelope is built.
UploadSucceeds(h) ==
    /\ step[h] = "upload"
    /\ stored' = stored \cup {envelope[h].cid}
    /\ built' = [built EXCEPT ![h] = @ \cup {envelope[h]}]
    /\ step' = [step EXCEPT ![h] = "broadcast"]
    /\ try' = [try EXCEPT ![h] = 1]
    /\ UNCHANGED <<envelope, topic, toolVars, vars>>

\* CanonicalCid::new refuses the answer: InvalidCid, without a retry.
UploadIsBlank(h) ==
    /\ "blank_cid" \in PublishFaults
    /\ step[h] = "upload"
    /\ Gives(h, "failed")
    /\ UNCHANGED <<envelope, built, stored, topic, toolVars, vars>>

\* The file may be stored although the answer is an error.
UploadErrs(h) ==
    /\ "storage" \in PublishFaults
    /\ step[h] = "upload"
    /\ stored' \in {stored, stored \cup {envelope[h].cid}}
    /\ TryAgain(h)
    /\ UNCHANGED <<envelope, built, topic, toolVars, vars>>

BroadcastSucceeds(h) ==
    /\ step[h] = "broadcast"
    /\ topic' = topic \cup {Json(envelope[h])}
    /\ Gives(h, "published")
    /\ UNCHANGED <<envelope, built, stored, toolVars, vars>>

\* The payload may be on the topic although the answer is an error.
BroadcastErrs_Ignored(h) ==
    /\ "delivery" \in PublishFaults
    /\ step[h] = "broadcast"
    /\ Gives(h, "published")
    /\ UNCHANGED <<envelope, built, stored, topic, toolVars, vars>>
BroadcastErrs(h) ==
    /\ "delivery" \in PublishFaults
    /\ step[h] = "broadcast"
    /\ topic' \in {topic, topic \cup {Json(envelope[h])}}
    /\ TryAgain(h)
    /\ UNCHANGED <<envelope, built, stored, toolVars, vars>>

-------------------------------------------------------------------------------
(* The UI: the storage module has a CID, the FFI builds the envelope, and  *)
(* its broadcast is best-effort.  UiBackend has the details.               *)

ComputeMetadataHash(h) ==
    /\ Free(h)
    /\ \E e \in Publishes[h] :
          /\ envelope' = [envelope EXCEPT ![h] = e]
          /\ built' = [built EXCEPT ![h] = @ \cup {e}]
          /\ stored' = stored \cup {e.cid}
    /\ step' = [step EXCEPT ![h] = "published"]
    /\ UNCHANGED <<try, topic, toolVars, vars>>

\* The delivery module is handed the base64 of the envelope and puts it on the
\* topic, now, later or never.
BestEffortBroadcast(h) ==
    /\ \E e \in built[h] : topic' = topic \cup {Base64(e)}
    /\ UNCHANGED <<hostVars, stored, toolVars, vars>>

-------------------------------------------------------------------------------
(* The anchor, by whoever holds the outcome.                               *)

\* The library anchors under with_retry.
AnchorPublished(h) ==
    /\ step[h] = "published"
    /\ Call(h, <<Ask(envelope[h])>>)
    /\ UNCHANGED publishVars

\* The FFI makes one attempt.  (It may also refuse before: no wallet, no
\* program.  That changes nothing.)
AnchorOneFfi(h) ==
    /\ step[h] = "published"
    /\ Call(h, <<Ask(envelope[h])>>)
    /\ UNCHANGED publishVars

-------------------------------------------------------------------------------
(* The batch tool, of which BatchLoop has the details.                     *)

\* The stream yields any payload of the topic, at any time, in any order; one
\* that the dedupe store knows is skipped.
Yields(x) ==
    /\ tool # "down"
    /\ x \in topic \ seen
    /\ seen' = seen \cup {x}
    /\ UNCHANGED <<hostVars, stored, topic, tool, vars>>

\* A payload that is recorded and does not parse is not forwarded; one that
\* comes after the end of the loop finds nobody at the other end.
Forwards(x) == x.form = "json" /\ tool = "run" /\ pc[Tool] # "err"

Ingest_LosesInputs(x) ==
    /\ Yields(x)
    /\ \E i \in Inputs :
          /\ [cid |-> x.envelope.cid, inputs |-> i] \notin Published
          /\ pending' = IF Forwards(x)
                        THEN Append(pending, Ask([cid |-> x.envelope.cid, inputs |-> i]))
                        ELSE pending
    /\ UNCHANGED refused
Ingest(x) ==
    /\ Yields(x)
    /\ pending' = IF Forwards(x) THEN Append(pending, Ask(x.envelope)) ELSE pending
    /\ UNCHANGED refused

\* The write fails: the payload is in the set of the process and goes no further.
IngestFails(x) ==
    /\ "ledger" \in PublishFaults
    /\ Yields(x)
    /\ refused' = refused \cup {x}
    /\ UNCHANGED pending

\* flush_batch takes what the buffer holds, at most BatchSize, and all of it
\* when the tool stops; a batch that failed for good has ended the loop.
FlushBatch_OnlyFull ==
    /\ pc[Tool] # "err"
    /\ BatchSize <= Len(pending)
    /\ Call(Tool, SubSeq(pending, 1, BatchSize))
    /\ pending' = SubSeq(pending, BatchSize + 1, Len(pending))
    /\ UNCHANGED <<hostVars, stored, topic, tool, seen, refused>>
FlushBatch ==
    /\ pc[Tool] # "err"
    /\ \E n \in 1..BatchSize :
          /\ IF tool = "stopping" THEN n = Len(pending) ELSE n <= Len(pending)
          /\ Call(Tool, SubSeq(pending, 1, n))
          /\ pending' = SubSeq(pending, n + 1, Len(pending))
    /\ UNCHANGED <<hostVars, stored, topic, tool, seen, refused>>

\* SIGINT, seen between two batches: the buffer, which is not full, is still to
\* be flushed, and what is in the channel goes.
Shutdown ==
    /\ "shutdown" \in PublishFaults
    /\ tool = "run"
    /\ Returned(Tool) /\ pc[Tool] # "err"
    /\ tool' = "stopping"
    /\ \E n \in 0..(BatchSize - 1) :
          n <= Len(pending) /\ pending' = SubSeq(pending, 1, n)
    /\ UNCHANGED <<hostVars, stored, topic, seen, refused, vars>>

\* run_batch_anchor returns, or the tool is killed.
ToolEnds ==
    /\ tool # "down"
    /\ \/ "crash" \in Faults
       \/ pc[Tool] = "err"
       \/ tool = "stopping" /\ pending = << >>
    /\ Ends(Tool)
    /\ tool' = "down"
    /\ pending' = << >>
    /\ UNCHANGED <<hostVars, stored, topic, seen, refused>>

\* It is started again; what it finds in its file DedupeStore tells.
ToolStarts ==
    /\ tool = "down"
    /\ tool' = "run"
    /\ seen' \in SUBSET seen
    /\ refused' = {}
    /\ UNCHANGED <<hostVars, stored, topic, pending, vars>>

-------------------------------------------------------------------------------

Upload(h) == UploadSucceeds(h) \/ UploadIsBlank(h) \/ UploadErrs(h)
Broadcast(h) == BroadcastSucceeds(h) \/ BroadcastErrs(h)

Library(h) == PublishFile(h) \/ Upload(h) \/ Broadcast(h) \/ AnchorPublished(h)
Ui(h) == ComputeMetadataHash(h) \/ BestEffortBroadcast(h) \/ AnchorOneFfi(h)
BatchTool ==
    \/ \E x \in topic : Ingest(x) \/ IngestFails(x)
    \/ FlushBatch \/ Shutdown \/ ToolEnds \/ ToolStarts

\* The steps of the calls and of the chain between them.
Adapter ==
    /\ \/ \E p \in Client : Step(p)
       \/ \E t \in mempool : Lands(t) \/ IsLost(t)
    /\ UNCHANGED publishVars

PublishNext ==
    \/ \E h \in Publisher : Library(h)
    \/ \E h \in UiHost : Ui(h)
    \/ BatchTool
    \/ Adapter

PublishSpec == PublishInit /\ [][PublishNext]_allVars

\* Every upload and every broadcast is answered, well or badly (the library
\* has no timeout of its own); calls are driven on and the tool's two tasks
\* run (tokio) while there is a process; nobody has to start it again.  The
\* chain promises nothing.
PublishFairSpec ==
    /\ PublishSpec
    /\ \A h \in Publisher : WF_allVars(Upload(h)) /\ WF_allVars(Broadcast(h))
    /\ \A p \in Client : WF_allVars(Step(p) /\ UNCHANGED publishVars)
    /\ WF_allVars(FlushBatch)
    /\ WF_allVars(\E x \in topic : Ingest(x))

-------------------------------------------------------------------------------
(* Properties.                                                             *)

PublishTypeOK ==
    /\ step \in [Host -> {"idle", "upload", "broadcast", "published", "failed"}]
    /\ envelope \in [Host -> Published \cup {NoEnvelope}]
    /\ try \in [Host -> Nat]
    /\ \A h \in Host : try[h] <= MaxAttempts[h]
    /\ built \in [Host -> SUBSET Published]
    /\ stored \subseteq Cid
    /\ topic \subseteq Payload
    /\ tool \in {"run", "stopping", "down"}
    /\ seen \subseteq topic
    /\ refused \subseteq seen
    /\ pending \in Seq({Ask(e) : e \in Published})

\* Whoever anchored it, and however often uploads, broadcasts and anchors were
\* retried, the registry's entry for a CID carries the hash of an envelope
\* that somebody built for that CID, whose content is in storage; and either
\* it is on the topic, or it is a UI's, whose broadcast is only best-effort: the
\* library anchors nothing that it has not broadcast.
AnchoredIsPublished ==
    \A c \in Cid : entry[c] # NoEntry =>
        LET e == entry[c].metadata_hash IN
        /\ e.cid = c
        /\ c \in stored
        /\ e \in Built
        /\ Json(e) \in topic \/ \E h \in UiHost : e \in built[h]

\* "assert_eq!(entry.metadata_hash, outcome.metadata_hash)"
\* (indexing/tests/publisher_e2e.rs): a host that gets an entry with another
\* hash than its own has lost to an envelope that was built for the same CID.
LosesOnlyToAnother ==
    \A h \in Host : pc[h] = "ok" =>
        LET mine == call[h][1].metadata_hash
            got == out[h][1].metadata_hash
        IN  got = mine \/ (got.cid = mine.cid /\ got \in Built)

\* What may be asked for is on the topic as JSON or a UI's, and every entry that
\* is asked for is an envelope under its own CID.
Broadcasted == {e \in Published : Json(e) \in topic}
Anchorable == Broadcasted \cup UNION {built[h] : h \in UiHost}

Asks(es) ==
    \A i \in DOMAIN es : /\ es[i].metadata_hash \in Anchorable
                         /\ es[i].cid = es[i].metadata_hash.cid

\* The inductive invariant: how far a host is, and where what is on its way to
\* the registry comes from.
HostState ==
    \A h \in Host :
        /\ step[h] \in {"upload", "broadcast", "published"} => envelope[h] \in Published
        /\ step[h] \in {"broadcast", "published"} => envelope[h] \in built[h]
        /\ step[h] = "published" => envelope[h] \in Anchorable

Provenance ==
    /\ \A x \in topic : x.envelope \in Built
    /\ \A e \in Built : e.cid \in stored
    /\ Asks(pending)
    /\ \A p \in Client : Asks(call[p])
    /\ \A t \in mempool : Asks(t.entries)
    /\ \A c \in Cid : entry[c] # NoEntry =>
          /\ entry[c].metadata_hash \in Anchorable
          /\ entry[c].metadata_hash.cid = c

PInv == PublishTypeOK /\ IInv /\ HostState /\ Provenance

\* Each sleep of with_retry is at least as long as the one before, and none is
\* longer than max_backoff, also where the power no longer fits a u32.
BackoffGrows ==
    [][\A h \in Host : try'[h] > try[h] =>
          /\ SleptBefore(try'[h]) >= SleptBefore(try[h])
          /\ SleptBefore(try'[h]) <= Policy.max_backoff]_allVars

\* publish_file, anchor_published, the FFI's anchor and flush_batch come back,
\* whatever storage, delivery and the chain answer, and also when the chain
\* takes nothing.
OperationReturns ==
    /\ \A h \in Publisher :
          step[h] \in {"upload", "broadcast"} ~> step[h] \in {"published", "failed"}
    /\ CallReturns

\* An anchor that failed because the chain was slower than its timeouts can be
\* made again: while no transaction waits for ever, a host that repeats it gets
\* an entry in the end, since the transactions of the failed ones still land.
RepeatedAnchorSucceeds ==
    ChainKeepsUp =>
      \A h \in Host :
        []<>(pc[h] = "send") => []<>(pc[h] = "ok")

\* What the library broadcasts is anchored by a batch tool that runs and has not
\* seen it, also when the publisher never anchors it or is told that its anchor
\* failed: unless the tool cannot record it, a batch fails for good, or the tool
\* is stopped or killed.  (A UI's base64 has no such promise: it does not parse.)
BroadcastGetsAnchored ==
    ChainKeepsUp =>
      \A e \in Published :
        []( tool = "run" /\ Json(e) \in topic \ seen
            => <>( \/ entry[e.cid] # NoEntry \/ Json(e) \in refused
                  \/ pc[Tool] = "err" \/ tool # "run" ) )

===============================================================================
