# Whistleblower registry: TLA+ models and proofs

Formal models of the whistleblower document-publishing system: the on-chain
write-once registry, the adapter that anchors documents in it, the batch tool
that anchors what others broadcast and its ledger, the library and the plugin that
users publish with, and all of them together.
Paths below are relative to the repository's root (`src/` here).

## The system

| Component | Source | State it keeps | Operations |
|---|---|---|---|
| Registry program | `methods/guest/src/bin/whistleblower_registry.rs` | one account per anchored CID, at the program-derived address (PDA) of the CID's hash | `AnchorOne`, `AnchorBatch` over a snapshot of the named accounts |
| Core registry | `core/src/lib.rs` | `RegistryState`: a map from CID hashes to entries | `apply`, `anchor_one`, `anchor_batch`, `query_by_cid_hash` |
| Batch loop | `indexing/src/batch.rs` | stream, channel, buffer, batch in flight | subscribe, ingest, buffer, flush, shut down |
| Dedupe store | `indexing/src/orchestration.rs` | a ledger file of envelope hashes and its copy in memory | `open`, `ingest` |
| Retry | `indexing/src/retry.rs` | the attempt | `with_retry` |
| LEZ adapter | `adapters/lez/src/lib.rs` | nothing between calls; a call is a sequence of RPCs | `anchor_one`, `anchor_batch`, `query_by_cid_hash` |
| Publisher | `indexing/src/publisher.rs` | nothing between calls | `publish_file`, `anchor_published` |
| File delivery | `indexing/src/file_delivery.rs` | the records of a file | `subscribe` |
| Batch command line | `batch/src/main.rs` | the shutdown channel | run, SIGINT, exit |
| UI backend and page | `ui/src/WhistleblowerBackend.cpp`, `ui/qml/Main.qml` | selected file, last CID, hash and timestamp, busy, stage, two callback slots | pick, publish, anchor; events of two modules, timers, futures |
| UI FFI | `ui/ffi/src/lib.rs` | none | JSON functions around the adapter and the envelope hash |

How they interact. A user publishes a file in the UI: the storage module uploads
it and answers, later, with a CID; the envelope of the metadata is hashed and
broadcast. From there the CID gets anchored along one of two ways. The UI calls
the adapter on a worker thread; or somebody's batch tool receives the broadcast,
records its hash in the ledger, collects a batch and calls the same adapter. The
adapter sends a transaction and polls the accounts of its CIDs until they have
data. The program writes an account only if it is empty, so all the callers
agree on the entry of a CID, whoever came first. No test runs
the guest: `core/tests` call `RegistryState`, and `indexing/tests` a mock client with a
map of its own.

What is hard in it, component by component, and the properties that make it
correct:

* **Registry.** Anybody submits any accounts and entries, late, twice, out of
  order; a batch is judged on a snapshot. Correct: the first accepted transaction
  decides (`FirstAcceptedWins`), an entry is where queries look for it
  (`EntryAtItsPda`), and nothing is ever rewritten (`ImplementsRegistry`).
* **Guest and `RegistryState`.** Two implementations of one instruction set, of
  which only the second is unit-tested. Correct: they agree, or the difference is
  known exactly (`GuestAgreesWithCore`).
* **Adapter.** Timeouts, retries that resubmit, late landings, transactions that
  are never seen by their hash, competing callers. Correct: an answer is final
  (`ReturnedIsFinal`), calls come back, and an anchored CID never makes one fail.
* **Batch loop.** Two tasks, four flush triggers, retries, an error return that
  detaches a task, SIGINT, crash and restart on a ledger written ahead of the
  anchoring. Correct: nothing is lost, repeated or overtaken between the tasks
  (`Pipeline`, `NeverEnqueuedAgain`), what is submitted is on disk first, up to lines that
  broke off (`RecordedBeforeEnqueued`), and what can strand an envelope is a known list
  (`StrandedOnlyByFaults`).
* **Dedupe store.** A line is two writes and a sync, each of which can fail or be
  the last thing before a kill or a power loss; a second process may append to the
  same file. Correct: what was answered New is durable (`TakenIsDurable`), the
  file behaves as a durable set (`ImplementsLedger`), and how it may forget or
  repeat is known exactly (`UntornRemembers`, `NewAgainOnlyByStaleReader`).
* **Publisher, UI and batch tool together.** Three remote parties, each called with
  retries whose lost answers leave effects behind, and three kinds of client that
  anchor different envelopes for one CID. Correct: an entry is always an envelope
  that was built, stored and offered for its CID (`AnchoredIsPublished`), who loses
  a race loses to such an envelope (`LosesOnlyToAnother`), and what the library broadcasts
  gets anchored while a batch tool runs (`BroadcastGetsAnchored`).
* **UI.** Events and timers without identity, one slot each, a page that can be
  clicked meanwhile. Correct: one operation at a time, no callback without a
  timer, the anchored hash covers the anchored CID, and operations end.

## The modules

`Registry` is the abstract specification: a map from CIDs to entries, written
once. `RegistryProgram` implements it (`INSTANCE Registry WITH ...`), and so does
`CoreRegistry` (in `RegistryAgreement`). `DedupeLedger` is the abstract specification of the
dedupe store, and `DedupeStore`, the file token by token under several processes,
implements it until a line is torn. `BatchLoop` has the file of one process in a shorter
form: the hashes on whole lines (`ledger`), one alone on an unterminated last line
(`tail`), and whether the last line is unterminated (`cut`); a power loss, which only takes
back what was not answered New, is in `DedupeStore` alone.
`RegistryClient` is what one caller sees of the registry: its calls, the transactions
under way and the CIDs with an entry. `LezAdapter` stays within it for each of its
callers, and so does `BatchLoop`, which has a short form of the adapter.

| Module | Models | State and actions against the code |
|---|---|---|
| `Registry` | what `RegistryClient` promises (`traits.rs:76`) | `Anchor`: one instruction adds entries for fresh CIDs, with one timestamp |
| `RegistryProgram` | the guest and the runtime around it | `Begin` takes the snapshot (`read_nssa_inputs`); `Panic` is a failed decode, arity or PDA assert; `ProcessEntry` is one call of `process_entry`; `Commit` and `Discard` are the runtime's |
| `CoreRegistry` | `RegistryState` | `Apply` is `apply`; `AnchorBatch` is the loop of `anchor_batch`, round by round, as a recursive function |
| `RegistryAgreement` | both, given the same instructions | `CommitBoth` applies to `RegistryState` what the guest's transaction did |
| `DedupeLedger` | what the store promises (`indexing/API.md`, "Durable dedupe contract") | a durable set and what each process remembers of it |
| `DedupeStore` | `DurableDedupeStore` on its file, in one or several processes | `Open` reads the whole lines; an ingest is `Begin`, `WriteHash`, `WriteNewline`, `SyncAll`, each with its failure; `Killed` and `PowerLoss` may come anywhere |
| `BatchLoop` | `run_batch_loop`, `flush_batch`, the store, the retries, the process | the subscriber's actions (`Receive`, `Skip`, `IngestFails`, ...; `WriteLine` and `WriteBreaksOff` are the two ends of `writeln!` and `sync_all`), the anchorer's (one per branch of its `select!`, then one per outcome of an attempt), the chain, and `Crash`/`Restart` |
| `LezAdapter` | several callers of `anchor_one`/`anchor_batch` under `with_retry` | `Send`, `Confirm` (the best-effort poll), `ReadEntry`/`ReadEmpty`/`ReadFails` (one poll of one account), `AttemptFails`; `Ends` is the end of the caller's process, also in the middle of a call; the chain's `Lands` and `IsLost` |
| `RegistryClient` | one caller of `anchor_batch` under `with_retry`, whatever client is behind the trait | `Ask`, one `Submit` per attempt, `Succeed`, `Retry`, `GiveUp`; the chain and the other callers around it. It is loose where two callers' transactions for the same CIDs cannot be told apart (`Leaves`) and where the caller forgets its answers |
| `Retry` | `RetryPolicy` | `BackoffFor` is `backoff_for`, with the width of its power as a parameter |
| `Publishing` | `Publisher`, the UI's FFI calls and a batch tool over storage, the topic and the adapter | extends `LezAdapter`: an anchor of any host is a `Call` there. `PublishFile`, `Upload...`, `Broadcast...` are the steps of `publish_file` under `with_retry`; `ComputeMetadataHash`, `BestEffortBroadcast`, `AnchorOneFfi` the UI's; `Ingest`, `IngestFails`, `FlushBatch`, `Shutdown`, `ToolEnds` and `ToolStarts` the tool's |
| `UiBackend` | `WhistleblowerBackend` and the guards of the page's controls | one action per slot, event, timer and finished future, each a whole handler |
| `*Proofs` | the theorems about the module they extend (`AgreementProofs` those about `RegistryAgreement`) | |
| `SetInduction` | nothing of the code: induction over the naturals and the existence of recursive functions, for sets, as the proofs need them | |
| `MC*` | the instances that TLC checks | |

Abstractions that hold throughout: SHA-256 is injective, so a CID stands for its
hash, its PDA is an injective function (`PdaAssumption`), and an envelope stands
for its hash in the ledger; JSON and borsh encodings are left out, except that an
envelope may fail to parse (`Invalid`) and an instruction to decode
(`"Malformed"`). Time is a small set of timestamps. Backoff only says that an
attempt comes later; how long it is, is `Retry`'s. In `Publishing` a file is its CID, and a payload is an envelope in one of two
forms, `Json` or `Base64`, of which `parse_envelope` reads the first; the batch tool is
the short form of `BatchLoop` (what was seen, what of it could not be written, and one
queue for buffer and channel) and the UI that of `UiBackend` (no timers), as
both have their details in modules of their own; what a restarted tool finds in its ledger
is any part of what it had seen (`DedupeStore` tells which); only the tool is killed there,
not the hosts; and the FFI's refusals before the
adapter is called (no wallet, no program, bad hex) change nothing and are left out.

What is taken as external, and why it is as loose as it is:

* The chain. A transaction that was sent, or whose sending failed without an
  answer, lands at any later time, or never (`tx_lost`). The runtime may refuse
  what a guest returned, and when an account list repeats an address it keeps
  whichever of the post-states it likes: the code does not say which.
* The topic. Any envelope may be yielded again at any time; an item may be an
  error; a file-backed stream ends.
* The ledger's file. `writeln!` on an unbuffered `File` is one write for the hash and
  one for the line feed; appends are atomic and go to the end of the file as it is;
  after a power loss the synced part is left and some prefix of the rest, possibly
  with half a hash. The directory entry is taken to survive, and the file to stay
  valid UTF-8 (`open` refuses the file otherwise).
* The delivery module encodes what it is handed, and the receiving side decodes that once
  (`indexing/API.md:47`, `adapters/qt/NOTES.md:43`). So the library's JSON arrives as JSON,
  and the text that the UI has put into base64 itself (`WhistleblowerBackend.cpp:495`)
  arrives as base64: the tool records it and forwards nothing.
* Storage and delivery, for the library: an answer may be an error although the file
  was stored or the payload is on the topic; a CID may be blank.
* The storage and delivery modules of the UI answer an upload or a broadcast once or not at
  all, at any time.

## The runs

| Run | Shows |
|---|---|
| `registry` | any two accepted transactions with up to two entries and any account list over three addresses: types, `FirstAcceptedWins`, `EntryAtItsPda`, and the refinement of `Registry`. `RegistryState` anchors the same CIDs by the same instruction, with equal entries unless that instruction repeats the CID; its outcomes tell the truth |
| `batch_loop` | all faults at once, ledger lines that break off included: the safety of the pipeline, how much of what is enqueued a later open can miss, and that only the named faults strand an envelope |
| `batch_live` | a new envelope is anchored unless the loop gives up, goes down or is interrupted; a replay ends; SIGINT ends the loop; the work of the two tasks is bounded |
| `lez_adapter` | two callers with different metadata, killed at any point: answers are final, calls are bounded, and what each caller sees is `RegistryClient` |
| `dedupe` | two processes on one ledger, every failure: New is durable; until a line is torn the file is `DedupeLedger`'s set, and only a process that read the file before takes an envelope a second time |
| `publishing` | library, UI and batch tool publish one file with different inputs: where entries come from, who loses to whom, how retries back off, that every operation returns, that a call for anchored CIDs and a repeated anchor succeed, and that what the library broadcasts gets anchored by a tool that runs; the tool's ledger may fail, and the tool be interrupted, killed and started again |
| `ui_backend` | every order of clicks, events, timers and futures: the invariants, and that uploads, anchors and broadcasts end |

Bounds, and why they are enough. Two CIDs tell a foreign account from the right
one and let a batch be half anchored; a third address belongs to no CID. Two
accepted transactions are a first and a second writer, with every delayed or
repeated submission between them. `batch_loop` has three envelopes: one for each of two
CIDs and a second one for the first CID (these two are interchangeable: symmetry, used with
safety properties only); one line can be torn, one joined to it, and one written after
them. `batch_live` and the two runs that refute a sentence have one envelope for each CID
and one that does not parse. With a batch size
of 2 a batch can be full, partial or empty, and repeat a CID; two attempts are a
retry and a last one. `MaxStream` = 1 only bounds what waits in front of the
subscriber; the dedupe store bounds the rest. The adapter has two callers and
requests of one and two CIDs, one of them with a repetition; its callers are interchangeable (symmetry, used with
safety properties only). The UI has two files
and three uploads: one that times out, one that its late event resolves, one
after that while old timers run. The ledger has two processes and two hashes, so
that a line of one can be written into a line of the other; `MaxTokens` = 4 lets an
ingest begin on a file of up to three tokens, which is a whole line and a torn one,
or two torn ones, in front of it; hashes and processes are interchangeable
(symmetry, used with safety properties only). `publishing` has one library task, one
UI and the tool, one CID published with two envelopes, and an input and a CID that
are nobody's. Of the two payloads only the library's is JSON, so the tool's batches there
have one entry; batches of several are those of `batch_loop` and `lez_adapter`. The library has four attempts, so that with the power capped at 3 (for
`u32::MAX`) its last backoff is one where the power no longer fits; the UI's FFI
makes one attempt; the tool's one attempt is followed by its end. `registry` stops when `MaxAccepted` transactions
were applied, so it does not check for deadlock; all the others do.

Fairness. `BatchLoop`: both tasks are polled by tokio, and `select!` takes a
ready branch at random, so each branch that stays ready is taken; the chain takes
what it accepted; nobody is forced to broadcast, crash, interrupt or restart.
`batch_live` leaves out failing ledger writes, which strand an envelope in a loop
that runs on (`StrandedOnlyByFaults`), and crashes, which end a run like giving up does;
`EventuallyAnchored` itself names giving up,
a process that is down and SIGINT as the exceptions. `LezAdapter`: a call is driven
on, and the chain promises nothing, so a transaction may stay away for ever; only
`RepeatedAnchorSucceeds` and `BroadcastGetsAnchored` assume that the chain keeps up,
in their own premise. `publishing` has no RPC errors on the way to the chain: with
them a call may use up its attempts. There, storage and delivery answer each upload
and broadcast, well or badly, because the library awaits them without a timeout; the
tool takes what stays on the topic and flushes what it holds (`EventuallyAnchored`
of `batch_live`), and no user is forced to publish or to anchor. Nobody has to start a tool
that went down: `BroadcastGetsAnchored` is about one that runs, and it names what releases
it, a payload that could not be recorded, a batch that fails for good, and the end of the
tool. `UiBackend`:
timers fire and the anchor future finishes, since the adapter's call returns
(`CallReturns` in `OperationReturns`); the modules and the user owe nothing. That an operation ends does
not say that busy does: `BusyEndsWithOperation` says so for every path but the
completion event without a CID (finding `ui_empty`).

## What the documentation says and the code does not do

Each is a run whose property states the quoted sentence and which TLC refutes.

| Run | Sentence | What happens |
|---|---|---|
| `batch_graceful` | "SIGINT triggers a graceful flush" (`README.md:142`) | what is still in the channel is dropped |
| `batch_rerun` | "resumes from last successfully anchored" (`README.md:188`) | the ledger records what was taken; a re-run skips a batch that failed. For the same reason nothing is replayed at start-up (`batch.rs:16`), and re-emitting an envelope to a restarted tool (`batch.rs:77`) does nothing |
| `ui_empty` | "setError already invoked" (`WhistleblowerBackend.cpp:308`) | an event without a CID leaves the page busy |
| `ui_late` | "Cleared when the corresponding event fires" (`WhistleblowerBackend.h:128`) | the late event of one upload resolves another: a CID with the metadata of a different file, ready to anchor |
| `dedupe_torn` | "duplicate envelopes are skipped" (`indexing/API.md:81`), "so duplicate broadcasts don't get re-anchored across restarts" (`batch/src/main.rs:55`) | a kill between hash and line feed joins the next line to the torn one; after a restart an envelope that was answered New is taken again. The registry makes the second anchor a no-op |

What is true of each refuted sentence is a theorem (next section). An orderly
return, also after SIGINT, leaves exactly the rest of the channel unanchored
(`ReturnFlushesBuffer`). One batch tool alone on its ledger, restarted as often as may
be, answers New twice only after a line was torn (`AloneNewOnlyOnce`). A page that is
busy with nothing under way stays busy for ever (`StuckForGood`), and it gets there only
by an event without a CID (`CidsKeepThePageAlive`). A CID comes together with the
metadata of another file only by the late event of an earlier upload
(`MixedUpOnlyByLateEvent`). For `RerunResumes` it is `StrandedOnlyByFaults`, which lists
the ways an envelope gets left behind.

Two more sentences hold only in part, which no run is spent on. "receivers decode"
(`WhistleblowerBackend.cpp:493`) does not hold of this repository's receiver:
`parse_envelope` (`batch.rs:230`) reads JSON only, so what a UI broadcasts is anchored by
nobody but a host, and `BroadcastGetsAnchored` is stated for the library's payloads; the
modules that encode and decode are not in the repository. And "Failed anchors leave the registry unchanged" (`solutions/LP-0017.md:97`) does not
hold for a timeout, whose transaction may still land (`Lands` has no guard on its
caller); `RepeatedAnchorSucceeds` is what makes that harmless.

## What is proved

TLAPS proves these for every value of the constants, under the assumptions that
the modules name: `PdaAssumption` (the PDA is injective), `NoEntryAssumption` and
`NoTxAssumption`, `BoundAssumption`, `EnvelopeAssumption`, `ConfigAssumption` (batch size and attempts are
not 0, which the code asserts), `RequestAssumption` (no empty batch),
`AdapterAssumption`, `UiAssumption` (`None` is no file and no upload),
`DedupeAssumption`, `PublishAssumption`, `BatchAssumption`, and `RetryAssumption` (no
policy multiplies its backoff by 0; none in the repository does). Every invariant that a
passing run checks is a theorem. Most proofs go over an inductive invariant, which was put to
TLC on the run's instance before it was proved.

* `RegistryProgramProofs`. `IInv` adds `Running` to the three invariants: while a
  transaction executes, its snapshot is still current (one transaction at a time)
  and every post-state is the old data of its account or the offered entry of a
  fresh one. Without it nothing is known of what `Commit` writes. From it follow
  `TypeCorrect`, `FirstAccepted`, `PdaIntegrity`, and `Implements`: a commit adds
  entries to fresh CIDs only, all with the transaction's timestamp. `LandingIsOneStep`
  says exactly what lands: all the fresh CIDs that the transaction names and no other,
  each with an entry that the transaction offers for it, in one step for a reader of the
  chain.
* `AgreementProofs`. What the loop of `anchor_batch` computes is shown for a batch of
  any length by induction over its rounds (`After`, which `BatchEffect` establishes for
  the last round): an entry that is there stays, a fresh CID gets
  the first entry that the batch has for it, what is returned is what is then stored, the
  counters count. `ReplayChangesNothing` and `CutsDoNotMatter` are about that loop
  alone: a batch that is repeated with any metadata is a no-op with the same answer, and
  how a stream is cut into batches is invisible afterwards. `AgreementInv`
  relates the two implementations: the same CIDs are anchored, with the timestamp of the
  first instruction that names them, and the memory has an entry which that instruction
  offered. With `FirstAccepted` for the guest's side this gives `Agreement`: the
  two can differ only in the metadata of a CID that its instruction repeats.
  `OutcomesAreTruthful` and `CoreImplements` (`RegistryState` by itself refines
  `Registry`) come from the same facts, and `AgreementIsProgram` makes the theorems about
  the guest hold here.
* `BatchLoopProofs`. `IInv` (the invariants of the run `batch_loop` and `BatchBounded`)
  adds `Control`: only the select loop buffers, the
  loop is left because of a shutdown or because the subscriber is gone and the
  channel drained, a failed loop has no channel, and what is on disk is in
  memory. `CleanReturn` needs it to know that the channel was empty, `AtMostOnce`
  to know that a recorded envelope is skipped. `OnlyFaultsStrand` is a case per
  action: either the envelopes in the pipeline and the recorded ones stay the
  same set, or the step is one of the six listed. `WriteAhead` counts: lines that broke off and the
  lines that were joined to them are one to one, so there are at most as many enqueued
  envelopes without a line of their own as failed ingests, and one more after a run that
  was killed in a line (`OneMoreUnwritten`). `LoopIsCaller` maps the anchorer to
  a caller of `RegistryClient`, action by action; a crash is a `GiveUp` that
  forgets. `BoundedWork` gives every item a weight: in the buffer the steps that a batch
  with all its attempts may take, one more in the channel, two more in the stream. Each
  step of a task then uses up work, and only the topic and a restart bring
  some (`WorkIsBounded`). That is the safety half of `FiniteStreamReturns` and `ShutdownReturns`;
  the other half, that the tasks are scheduled, is fairness.
* `LezAdapterProofs`. `IInv` adds `Progress`: how far a call has read, given
  where it is. `AnswersAreFinal` then rests on one fact, that a landing
  transaction keeps every entry there is. A caller that is killed (`Ends`) only
  forgets; its transactions stay under way.
  `BoundedCalls` counts the sends, confirmations and polls that a call has left: each of
  its steps uses some up, nobody else gives it any. `AdapterIsClient` shows, for each
  caller, that every step of the chain, of the caller and of all the others is a step of
  `RegistryClient` or invisible to it; the answer is the hard case, and follows from
  `Progress`: what was read for every account of the call is in the registry.
  Together with `LoopIsCaller`: adapter and loop meet at one interface, which the
  one never exceeds in what it does and the other never in what it asks. That
  `BatchLoop`'s short form allows all the adapter does is not claimed (it submits
  one transaction per attempt, and an attempt whose sending fails may have sent).
* `UiBackendProofs`. The three safety invariants and the types are inductive
  together. `BusyEnds` and `StuckPage` are about one step: which steps end an operation,
  and that none ends the busy of a page on which nothing is under way. `MixUp` adds
  `Numbered`: the upload that is waited for is the last one and still under way, so an
  event that brings another file's CID belongs to an earlier upload.
* `DedupeStoreProofs`. `IInv` adds `Written` (a process that is inside a line has
  remembered its hash and finds it in the file), `LinesAreWhole` (in an untorn file
  every hash is a line of its own, the last one perhaps unterminated, and then
  exactly one process is between its two writes) and `KnownIsSeen`. The heart is
  `LinesStep`: a hash is appended to a terminated file or the file is torn, a line
  feed ends the line of the process that writes it, and a power loss leaves a prefix.
  `LedgerRefinement` maps `WriteHash` to `Store`, `SyncAll` to `Take`, and `PowerLoss`
  to `Lose`. `AloneTakesOnce` adds `AloneHasSeenAll`: without a second process, the one
  that is up has seen whatever was ever taken.
* `PublishingProofs`. `PublishUsesAdapter` comes first: every step is a step of
  `LezAdapter` or leaves its variables alone, so `LezAdapterProofs` holds of the
  composition, and `PublishHasClients` and
  `PublishCallsBounded` need no new induction. `PInv` is the
  adapter's `IInv` with the types, `HostState` (how far a host is and what it holds)
  and `Provenance`: everything on its way to the registry, from the tool's queue over
  calls and transactions in flight to the entries, is an envelope that is on the topic as
  JSON or that a UI has built, under its own CID. Without the part about transactions in flight nothing would
  be known of what lands after its caller has gone. `Backoff` shows by induction that the powers
  of a multiplier grow, and that saturation and cap keep the order.

Induction. The library's induction theorems take a predicate, which the provers
here cannot instantiate. `SetInduction` has the same for sets, from the library's
well-foundedness of `<`: a set that has 0 and successors has every number (`AllNaturals`, `AllUpTo`),
and a recursion whose steps are a function of the round and of the value has a solution
(`Recursion`). That is what `Power` and the loop of `anchor_batch` need, both recursive
functions.

Some proved formulas take no run of their own: `BatchBounded`, `ReturnFlushesBuffer` and
`UsesClient` of `BatchLoop`;
`TransactionsLandAtOnce`, `AgreementInv` (with `CoreFirstAccepted`) and
`CoreImplementsRegistry` of the registry; `StuckForGood`, `MixedUpOnlyByLateEvent` and
`Numbered` of `UiBackend`; `AloneNewOnlyOnce` and `AloneHasSeenAll` of `DedupeStore`. Each
can be added to the configuration of the run of its module, or, for the last two, to one
with a single process; that was done with each of them before it was proved.

Only model-checked: the liveness properties, which the prover does not reach
(`EventuallyAnchored`, `FiniteStreamReturns`, `ShutdownReturns`, `OperationEnds`,
`BroadcastSlotIsFreed`, `OperationReturns`, `AnchoredCallSucceeds`,
`RepeatedAnchorSucceeds`, `BroadcastGetsAnchored`), and that the refuted sentences are
refuted.

## Not modelled

The QML layout, the envelope's JSON and the FFI's, the FFI's two queries (they
change no state), the IDL mirror (never executed), the measurement drivers in
`anchor_spike` (linear programs over the adapter's calls), the Logos adapter (a
placeholder), the plugin glue, scripts, packaging and CI. The mock storage and
delivery clients and the mock registry (`adapters/mock/src/lib.rs`) are test doubles. The
mock registry is neither of the two implementations that `RegistryAgreement` compares: it
keeps a map of its own, locks it once per entry, and gives every entry the timestamp 1, so
what the tests of `indexing` see of the registry is that map. A policy with `max_attempts` = 0 and a
batch interval of 0 panic at start; both are single guards. That `parse_envelope`
takes a CID as it is, untrimmed, is a matter of one conversion. An error at start-up (opening the store,
subscribing) is a restart that does not take place.

## Plan

Done, in this order: `Registry`, `RegistryProgram`, `CoreRegistry` with
`RegistryAgreement`, `BatchLoop`, `LezAdapter`, `UiBackend`, `DedupeStore` over
`DedupeLedger`, `Retry`, `Publishing`, the proofs of their safety, `RegistryClient`
between adapter and batch loop, and the agreement of guest and `RegistryState` for
batches of any length.

Left:

1. That the short form of the file in `BatchLoop` is what `DedupeStore` does with one
   process, as a refinement: today the two agree by reading.
2. The safety halves of the remaining liveness properties, as `BoundedWork` and
   `BoundedCalls` are for theirs: what an operation of the UI and of a publisher has
   left to do.
