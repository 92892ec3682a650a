------------------------------- MODULE BatchLoop -------------------------------
(***************************************************************************)
(* The permissionless batch-anchor engine: run_batch_loop and flush_batch  *)
(* (indexing/src/batch.rs) with the durable dedupe ledger                  *)
(* (indexing/src/orchestration.rs), the retries (indexing/src/retry.rs),   *)
(* and the process around them (batch/src/main.rs), which may crash and be *)
(* started again on the same ledger.                                       *)
(*                                                                         *)
(* Two tasks run concurrently: the subscriber takes envelopes from the     *)
(* topic, records them in the ledger and sends them into an unbounded      *)
(* channel; the anchorer takes them from the channel into a buffer and     *)
(* submits the buffer in batches.  An entry of the channel is the (cid,    *)
(* metadata hash) pair of an envelope; the model keeps the envelope, which *)
(* determines the pair.                                                    *)
(*                                                                         *)
(* The registry is what the anchorer sees through RegistryClient: a batch  *)
(* transaction that was submitted may land at any later time, also after   *)
(* the attempt that submitted it was given up.  LezAdapter models the      *)
(* client itself.                                                          *)
(***************************************************************************)
EXTENDS Naturals, Sequences, Functions, FiniteSets

CONSTANTS
    Envelope,       \* what is broadcast: (topic, payload) pairs
    Cid,
    CidOf,          \* the CID an envelope parses to, or Invalid
    Invalid,        \* parse_envelope refuses it: other topic, or not JSON
    ReceiveError,   \* an Err item of the subscription stream
    BatchSize,      \* config.batch_size
    MaxAttempts,    \* config.retry_policy.max_attempts
    MaxStream,      \* bound: items waiting in the subscription stream
    Faults          \* what may happen in this behaviour

FaultKind ==
    {"transient",   \* an attempt fails, but not the last one allowed
     "give_up",     \* the last attempt fails, or an error is not retryable
     "tx_lost",     \* the chain drops a transaction that it had accepted
     "io",          \* writing the ledger fails
     "crash",       \* the process dies
     "shutdown",    \* SIGINT
     "end"}         \* the stream is finite (a file replay)

ASSUME EnvelopeAssumption ==
    /\ CidOf \in [Envelope -> Cid \cup {Invalid}]
    /\ Invalid \notin Cid
    /\ ReceiveError \notin Envelope

\* run_batch_loop asserts batch_size >= 1; with_retry panics on 0 attempts.
ASSUME ConfigAssumption ==
    /\ BatchSize \in Nat \ {0}
    /\ MaxAttempts \in Nat \ {0}
    /\ MaxStream \in Nat
    /\ Faults \subseteq FaultKind

VARIABLES
    ledger,     \* the hashes on whole lines of the dedupe file
    tail,       \* the hash alone on a last line without a line feed, or none
    cut,        \* the file does not end in a line feed
    seen,       \* DurableDedupeStore::seen
    stream,     \* items the subscription has not yielded yet
    ended,      \* the stream yields nothing more after these
    sub,        \* the subscriber task: "run" or "done"
    channel,    \* the unbounded mpsc channel
    buffer,     \* the anchorer's buffer
    inflight,   \* the batch that flush_batch took out of the buffer
    attempt,    \* with_retry's attempt
    anc,        \* where the anchorer is
    after,      \* where it goes on when flush_batch returns
    shutdown,   \* the shutdown watch channel
    mempool,    \* batches submitted to the chain that have not landed
    anchored,   \* CIDs with an entry in the registry
    accepted,   \* history: envelopes sent into the channel in this run
    flushed,    \* history: envelopes reported anchored in this run
    delivered   \* history: envelopes the stream yielded in this run

fileVars == <<ledger, tail, cut>>
subVars == <<fileVars, seen, stream, ended, sub, delivered>>
ancVars == <<buffer, inflight, attempt, anc, after, flushed>>
chainVars == <<mempool, anchored>>
vars == <<subVars, channel, accepted, ancVars, shutdown, chainVars>>

Valid(e) == CidOf[e] # Invalid
Parsed == {e \in Envelope : Valid(e)}
CidsOf(batch) == {CidOf[batch[i]] : i \in DOMAIN batch}

Init ==
    /\ ledger = {} /\ tail = {} /\ cut = FALSE /\ seen = {}
    /\ stream = << >> /\ ended = FALSE /\ delivered = {}
    /\ sub = "run"
    /\ channel = << >> /\ accepted = << >>
    /\ buffer = << >> /\ inflight = << >> /\ flushed = << >>
    /\ attempt = 0
    /\ anc = "select" /\ after = "select"
    /\ shutdown = FALSE
    /\ mempool = {} /\ anchored = {}

-------------------------------------------------------------------------------
(* The topic.                                                              *)

Running == anc # "down"

\* External: the subscription yields an envelope (not necessarily a new one:
\* broadcasters re-emit) or an error.
Broadcast(item) ==
    /\ Running
    /\ ~ended
    /\ Len(stream) < MaxStream
    /\ stream' = Append(stream, item)
    /\ UNCHANGED <<fileVars, seen, ended, sub, delivered, channel, accepted,
                   ancVars, shutdown, chainVars>>

\* External: a file-backed subscription ends after its last envelope.
StreamEnds ==
    /\ "end" \in Faults
    /\ Running
    /\ ~ended
    /\ ended' = TRUE
    /\ UNCHANGED <<fileVars, seen, stream, sub, delivered, channel, accepted,
                   ancVars, shutdown, chainVars>>

-------------------------------------------------------------------------------
(* The subscriber task.                                                    *)

Polling == Running /\ sub = "run"

\* The select! of the subscriber takes the next item of the stream.
Take ==
    /\ Polling
    /\ stream # << >>
    /\ stream' = Tail(stream)
    /\ delivered' = delivered \cup ({Head(stream)} \ {ReceiveError})

\* An error item is logged; a duplicate is skipped.  The store is not touched.
Skip ==
    /\ Take
    /\ Head(stream) \in seen \cup {ReceiveError}
    /\ UNCHANGED <<fileVars, seen, ended, sub, channel, accepted,
                   ancVars, shutdown, chainVars>>

\* DurableDedupeStore::ingest does not take it for a duplicate.
NewItem == stream # << >> /\ Head(stream) \notin seen \cup {ReceiveError}

\* writeln! puts hash and line feed at the end of the file as it is: a line that
\* was cut short is continued, and what it then holds is no hash.
WriteLine(e) ==
    /\ ledger' = IF cut THEN ledger ELSE ledger \cup {e}
    /\ tail' = {} /\ cut' = FALSE

\* Or it does not get that far: nothing is written, a part of the hash, all of
\* it without the line feed, or the line, which sync_all then fails to sync.
WriteBreaksOff(e) ==
    \/ UNCHANGED fileVars
    \/ /\ cut' = TRUE
       /\ tail' \in {{}, IF cut THEN {} ELSE {e}}
       /\ UNCHANGED ledger
    \/ WriteLine(e)

\* The ingest that succeeds: the hash is in memory and in the file before the
\* envelope is even parsed.
Record_MemoryOnly(e) == seen' = seen \cup {e} /\ UNCHANGED fileVars
Record(e) == seen' = seen \cup {e} /\ WriteLine(e)

\* A new envelope is recorded and, when it parses, sent to the anchorer.
\* The send fails when run_batch_loop has already returned an error and
\* dropped the receiver; the task then stops.
Enqueue_OutOfOrder(e) ==
    channel' = <<e>> \o channel /\ accepted' = Append(accepted, e)
Enqueue(e) ==
    channel' = Append(channel, e) /\ accepted' = Append(accepted, e)

Receive ==
    /\ Take
    /\ NewItem
    /\ LET e == Head(stream) IN
       /\ Record(e)
       /\ \/ /\ Valid(e) /\ anc # "failed"
             /\ Enqueue(e)
             /\ UNCHANGED sub
          \/ /\ Valid(e) /\ anc = "failed"
             /\ sub' = "done"
             /\ UNCHANGED <<channel, accepted>>
          \/ /\ ~Valid(e)
             /\ UNCHANGED <<channel, accepted, sub>>
    /\ UNCHANGED <<ended, ancVars, shutdown, chainVars>>

\* The ingest that fails, anywhere between creating the directory and sync_all:
\* the hash is already in seen, and the envelope is not forwarded.
IngestFails ==
    /\ "io" \in Faults
    /\ Take
    /\ NewItem
    /\ seen' = seen \cup {Head(stream)}
    /\ WriteBreaksOff(Head(stream))
    /\ UNCHANGED <<ended, sub, channel, accepted, ancVars, shutdown, chainVars>>

SubscriberDone ==
    /\ Polling
    /\ sub' = "done"
    /\ UNCHANGED <<fileVars, seen, stream, ended, delivered, channel, accepted,
                   ancVars, shutdown, chainVars>>

SubscriberEnds == ended /\ stream = << >> /\ SubscriberDone
SubscriberStops == shutdown /\ SubscriberDone

-------------------------------------------------------------------------------
(* The anchorer.                                                           *)

\* flush_batch takes the whole buffer; with_retry starts its first attempt.
StartFlush(entries, next) ==
    /\ inflight' = entries /\ buffer' = << >>
    /\ attempt' = 1 /\ anc' = "submit" /\ after' = next
    /\ UNCHANGED flushed

Full(entries) == Len(entries) >= BatchSize

\* rx.recv() yields an entry: buffer it, flush when the buffer is full.
AnchorerReceives ==
    /\ anc = "select"
    /\ channel # << >>
    /\ channel' = Tail(channel)
    /\ LET entries == Append(buffer, Head(channel)) IN
       IF Full(entries)
       THEN StartFlush(entries, "select")
       ELSE buffer' = entries
            /\ UNCHANGED <<inflight, attempt, anc, after, flushed>>
    /\ UNCHANGED <<accepted, subVars, shutdown, chainVars>>

FlushAndStop_DropsBuffer ==
    /\ anc' = "stopped" /\ buffer' = << >>
    /\ UNCHANGED <<inflight, attempt, after, flushed>>

FlushAndStop_NoBreak ==
    \/ /\ buffer # << >>
       /\ StartFlush(buffer, "select")
    \/ /\ buffer = << >>
       /\ UNCHANGED ancVars

\* Leave the loop: flush what is in the buffer, then stop.
FlushAndStop ==
    \/ /\ buffer # << >>
       /\ StartFlush(buffer, "stopped")
    \/ /\ buffer = << >>
       /\ anc' = "stopped"
       /\ UNCHANGED <<buffer, inflight, attempt, after, flushed>>

\* rx.recv() yields None: the subscriber is gone and the channel is drained.
ChannelClosed ==
    /\ anc = "select"
    /\ channel = << >>
    /\ sub = "done"
    /\ FlushAndStop
    /\ UNCHANGED <<channel, accepted, subVars, shutdown, chainVars>>

\* interval.tick(); a tick on an empty buffer does nothing.
IntervalTick_AlsoEmpty ==
    /\ anc = "select"
    /\ StartFlush(buffer, "select")
    /\ UNCHANGED <<channel, accepted, subVars, shutdown, chainVars>>
IntervalTick ==
    /\ anc = "select"
    /\ buffer # << >>
    /\ StartFlush(buffer, "select")
    /\ UNCHANGED <<channel, accepted, subVars, shutdown, chainVars>>

\* shutdown.changed(): what is still in the channel is not looked at.
AnchorerShutdown ==
    /\ anc = "select"
    /\ shutdown
    /\ FlushAndStop
    /\ UNCHANGED <<channel, accepted, subVars, shutdown, chainVars>>

-------------------------------------------------------------------------------
(* One attempt of RegistryClient::anchor_batch inside with_retry.          *)

\* The batch is sent to the chain as one transaction.
Submit ==
    /\ anc = "submit"
    /\ anc' = "await"
    /\ mempool' = mempool \cup {CidsOf(inflight)}
    /\ UNCHANGED <<buffer, inflight, attempt, after, flushed, anchored,
                   channel, accepted, subVars, shutdown>>

\* anchor_batch returns Ok only after it has read an entry for every CID.
Confirmed == CidsOf(inflight) \subseteq anchored

AttemptSucceeds ==
    /\ anc = "await"
    /\ Confirmed
    /\ flushed' = flushed \o inflight
    /\ inflight' = << >>
    /\ attempt' = 0
    /\ anc' = after
    /\ UNCHANGED <<buffer, after, channel, accepted, subVars, shutdown, chainVars>>

\* The attempt fails with a retryable error, before or after the transaction
\* was sent (a timeout), and another one is left: resubmit the same entries.
MayRetry_OffByOne == attempt <= MaxAttempts
MayRetry == attempt < MaxAttempts

AttemptFails ==
    /\ "transient" \in Faults
    /\ anc \in {"submit", "await"}
    /\ MayRetry
    /\ attempt' = attempt + 1
    /\ anc' = "submit"
    /\ UNCHANGED <<buffer, inflight, after, flushed,
                   channel, accepted, subVars, shutdown, chainVars>>

\* The last attempt fails, or the error is not retryable: run_batch_loop
\* returns the error.  The batch, the buffer and the channel are dropped; the
\* subscriber task is detached and runs on until its next send, or until the
\* process exits.
GiveUp ==
    /\ "give_up" \in Faults
    /\ anc \in {"submit", "await"}
    /\ anc' = "failed"
    /\ inflight' = << >> /\ buffer' = << >> /\ channel' = << >>
    /\ attempt' = 0
    /\ UNCHANGED <<after, flushed, accepted, subVars, shutdown, chainVars>>

\* After the loop: wait for the subscriber task, then return Ok.
Join ==
    /\ anc = "stopped"
    /\ sub = "done"
    /\ anc' = "returned"
    /\ UNCHANGED <<buffer, inflight, attempt, after, flushed,
                   channel, accepted, subVars, shutdown, chainVars>>

-------------------------------------------------------------------------------
(* External: the chain, and others who anchor.                             *)

Lands(batch) ==
    /\ batch \in mempool
    /\ mempool' = mempool \ {batch}
    /\ anchored' = anchored \cup batch
    /\ UNCHANGED <<subVars, channel, accepted, ancVars, shutdown>>

IsLost(batch) ==
    /\ "tx_lost" \in Faults
    /\ batch \in mempool
    /\ mempool' = mempool \ {batch}
    /\ UNCHANGED <<subVars, channel, accepted, ancVars, shutdown, anchored>>

SomebodyAnchors(c) ==
    /\ c \notin anchored
    /\ anchored' = anchored \cup {c}
    /\ UNCHANGED <<subVars, channel, accepted, ancVars, shutdown, mempool>>

-------------------------------------------------------------------------------
(* The process.                                                            *)

Interrupt ==
    /\ "shutdown" \in Faults
    /\ Running
    /\ ~shutdown
    /\ shutdown' = TRUE
    /\ UNCHANGED <<subVars, channel, accepted, ancVars, chainVars>>

\* Everything in memory is gone.
GoDown ==
    /\ anc' = "down" /\ sub' = "done" /\ after' = "select"
    /\ seen' = {} /\ stream' = << >> /\ ended' = FALSE /\ delivered' = {}
    /\ channel' = << >> /\ accepted' = << >>
    /\ buffer' = << >> /\ inflight' = << >> /\ flushed' = << >>
    /\ attempt' = 0
    /\ shutdown' = FALSE
    /\ UNCHANGED chainVars

\* main returns after run_batch_loop did.
Exit == anc \in {"returned", "failed"} /\ GoDown /\ UNCHANGED fileVars

\* The process is killed, perhaps in the middle of an ingest.
Crash ==
    /\ "crash" \in Faults
    /\ Running
    /\ GoDown
    /\ \/ UNCHANGED fileVars
       \/ Polling /\ NewItem /\ WriteBreaksOff(Head(stream))

\* Start again: DurableDedupeStore::open reads the lines back, the last one also
\* without its line feed.
Reopen_Empty == {}
Reopen == ledger \cup tail

Restart ==
    /\ anc = "down"
    /\ anc' = "select" /\ sub' = "run"
    /\ seen' = Reopen
    /\ UNCHANGED <<fileVars, stream, ended, delivered, channel, accepted, buffer,
                   inflight, attempt, after, flushed, shutdown, chainVars>>

-------------------------------------------------------------------------------

Topic == (\E item \in Envelope \cup {ReceiveError} : Broadcast(item)) \/ StreamEnds

Subscriber == Skip \/ Receive \/ IngestFails \/ SubscriberEnds \/ SubscriberStops

Anchorer ==
    \/ AnchorerReceives \/ ChannelClosed \/ IntervalTick \/ AnchorerShutdown
    \/ Submit \/ AttemptSucceeds \/ AttemptFails \/ GiveUp \/ Join

Chain ==
    \/ \E batch \in mempool : Lands(batch) \/ IsLost(batch)
    \/ \E c \in Cid : SomebodyAnchors(c)

Process == Interrupt \/ Exit \/ Crash \/ Restart

Next == Topic \/ Subscriber \/ Anchorer \/ Chain \/ Process

Spec == Init /\ [][Next]_vars

\* Both tasks are polled for ever (tokio); each branch of a select! that stays
\* ready is eventually taken (select! picks a ready branch at random), so each
\* has its own fairness condition.  An attempt ends, by success or by one of
\* its timeouts.  The chain eventually includes a transaction it has accepted.
\* Nothing makes anybody broadcast, crash, interrupt or restart.
Fairness ==
    /\ WF_vars(Skip \/ Receive \/ IngestFails)
    /\ WF_vars(SubscriberEnds)
    /\ WF_vars(SubscriberStops)
    /\ WF_vars(AnchorerReceives)
    /\ WF_vars(ChannelClosed)
    /\ WF_vars(IntervalTick)
    /\ WF_vars(AnchorerShutdown)
    /\ WF_vars(Submit \/ AttemptSucceeds \/ AttemptFails \/ GiveUp)
    /\ WF_vars(Join)
    /\ \A batch \in SUBSET Cid : WF_vars(Lands(batch))

FairSpec == Spec /\ Fairness

-------------------------------------------------------------------------------
(* Safety.                                                                 *)

TypeOK ==
    /\ ledger \subseteq Envelope /\ seen \subseteq Envelope
    /\ tail \subseteq Envelope /\ cut \in BOOLEAN
    /\ stream \in Seq(Envelope \cup {ReceiveError}) /\ ended \in BOOLEAN
    /\ delivered \subseteq Envelope
    /\ sub \in {"run", "done"}
    /\ channel \in Seq(Parsed) /\ accepted \in Seq(Parsed)
    /\ buffer \in Seq(Parsed) /\ inflight \in Seq(Parsed)
    /\ flushed \in Seq(Parsed)
    /\ attempt \in 0..MaxAttempts
    /\ anc \in {"select", "submit", "await", "stopped", "returned", "failed", "down"}
    /\ after \in {"select", "stopped"}
    /\ shutdown \in BOOLEAN
    /\ mempool \subseteq SUBSET Cid /\ anchored \subseteq Cid

\* Between the subscriber and the anchorer no envelope is lost, duplicated or
\* overtaken, whatever the interleaving of the two tasks, the flush triggers
\* (size, interval, shutdown, end) and the retries: what was sent into the
\* channel is, in that order, what was reported anchored, what is being
\* anchored, the buffer and the channel.
Pipeline ==
    anc # "failed" => accepted = flushed \o inflight \o buffer \o channel

\* A batch never exceeds batch_size, and the buffer is flushed before it could
\* hold a whole batch.
BatchBounded ==
    /\ Len(buffer) < BatchSize
    /\ Len(inflight) <= BatchSize
    /\ anc \in {"submit", "await"} <=> inflight # << >>

\* When run_batch_loop returns Ok and nobody asked it to stop, everything that
\* this run took from the topic was anchored: the end of the stream reaches
\* the anchorer only behind the last entry of the channel.
CleanReturnIsComplete ==
    anc = "returned" /\ ~shutdown => accepted = flushed

\* An envelope enters the pipeline at most once in a run, and with its hash on a
\* line of its own, which every later open finds - up to the lines that were cut
\* short.  Such a line takes the next one with it: one, if the run before was
\* killed in it, and one for each envelope of this run that ingest failed on.
Unwritten == seen \ (Range(accepted) \cup ledger)

RecordedBeforeEnqueued ==
    /\ Range(accepted) \subseteq seen
    /\ \A i, j \in DOMAIN accepted : accepted[i] = accepted[j] => i = j
    /\ Cardinality(Range(accepted) \ ledger) + (IF cut THEN 1 ELSE 0)
         <= Cardinality(Unwritten) + 1

\* The control states that the properties above rest on: only the select loop
\* buffers; the loop is left because of a shutdown or because the subscriber
\* is gone and the channel drained; a run starts and ends with empty hands.
Control ==
    /\ anc # "select" => buffer = << >>
    /\ anc \in {"stopped", "returned"} \/ (anc \in {"submit", "await"} /\ after = "stopped")
         => shutdown \/ (sub = "done" /\ channel = << >>)
    /\ anc = "returned" => sub = "done"
    /\ anc = "failed" => channel = << >>
    /\ anc = "down" =>
          /\ sub = "done" /\ seen = {} /\ ~shutdown /\ after = "select"
          /\ stream = << >> /\ channel = << >> /\ accepted = << >> /\ flushed = << >>
    /\ Running => Reopen \subseteq seen
    /\ ~cut => tail = {}
    /\ IsFiniteSet(seen) /\ IsFiniteSet(Reopen)

\* The inductive invariant of the batch loop; a run checks its conjuncts.
IInv ==
    /\ TypeOK /\ Pipeline /\ BatchBounded
    /\ CleanReturnIsComplete /\ RecordedBeforeEnqueued /\ Control

\* Across restarts too, and whatever is written into the file or breaks off:
\* what has a line of its own is never submitted again.  This is what makes
\* re-emission harmless, and also what makes it useless as a recovery.
NeverEnqueuedAgain == [][\A e \in ledger : accepted' # Append(accepted, e)]_vars

\* The envelopes that the dedupe store would now skip although they are
\* neither anchored nor on their way to the registry.
InPipeline ==
    IF anc \in {"select", "submit", "await"}
    THEN Range(inflight) \cup Range(buffer) \cup Range(channel)
    ELSE {}

Recorded == IF Running THEN seen ELSE Reopen

Stranded ==
    {e \in Recorded : Valid(e) /\ CidOf[e] \notin anchored /\ e \notin InPipeline}

\* There are exactly six ways to strand an envelope: a crash, an error return
\* of the loop and what the detached subscriber still takes after it, a failed
\* ledger write, and a shutdown, which strands what the anchorer leaves in the
\* channel and what the subscriber still takes.  No interleaving of the two
\* tasks does it.
StrandedOnlyByFaults ==
    [][~(Stranded' \subseteq Stranded)
         => \/ Crash
            \/ GiveUp
            \/ anc = "failed" /\ Receive
            \/ IngestFails
            \/ shutdown /\ Receive
            \/ /\ shutdown
               /\ AnchorerShutdown \/ AttemptSucceeds
               /\ Stranded' \ Stranded \subseteq Range(channel)
      ]_vars

\* The loop uses the registry only as a caller of anchor_batch under with_retry
\* may: one batch at a time, at most max_attempts transactions for each, and
\* it counts a batch as anchored only when all its CIDs are.
Phase == IF anc \in {"submit", "await"} THEN anc ELSE "closed"

C == INSTANCE RegistryClient WITH
        phase <- Phase, asked <- CidsOf(inflight), answered <- CidsOf(flushed)

UsesClient == C!Spec

-------------------------------------------------------------------------------
(* Liveness.                                                               *)

\* The two tasks cannot run without end: every step of one of them uses up work,
\* and only an item of the topic and a restart bring more.  An item on its way
\* through the stream, the channel and the buffer carries the attempts that its
\* batch may take.
PerEntry == 2 * MaxAttempts + 1

LeftOfBatch ==
    CASE anc = "submit" -> 2 * (MaxAttempts - attempt) + 2
      [] anc = "await"  -> 2 * (MaxAttempts - attempt) + 1
      [] OTHER -> 0

LeftOfLoop ==
    CASE anc \in {"returned", "failed", "down"} -> 0
      [] anc = "select"  -> 2
      [] anc = "stopped" -> 1
      [] OTHER -> IF after = "select" THEN 2 ELSE 1

LeftOfTasks == (IF sub = "run" THEN 1 ELSE 0) + LeftOfBatch + LeftOfLoop

WorkLeft ==
    (PerEntry + 2) * Len(stream) + (PerEntry + 1) * Len(channel)
      + PerEntry * Len(buffer) + LeftOfTasks

WorkIsBounded ==
    [][/\ WorkLeft \in Nat
       /\ Subscriber \/ Anchorer => WorkLeft' < WorkLeft
       /\ WorkLeft' > WorkLeft
            => Restart \/ \E item \in Envelope \cup {ReceiveError} : Broadcast(item)
      ]_vars

\* A new envelope that the subscription yields is anchored, also one in a batch
\* that never fills up, unless the loop gives up on a batch, the process goes
\* down, or somebody interrupts it.
EventuallyAnchored ==
    \A e \in Envelope :
        Valid(e) => (e \in Range(stream) \ seen
                       ~> CidOf[e] \in anchored \/ shutdown \/ anc \in {"failed", "down"})

\* After a finite stream run_batch_loop returns.
FiniteStreamReturns == ended ~> anc \in {"returned", "failed", "down"}

\* A SIGINT is answered: the loop returns, at the latest when the attempts of
\* the batch in flight and of the final flush are used up.
ShutdownReturns == shutdown ~> anc \in {"returned", "failed", "down"}

-------------------------------------------------------------------------------
(* What the documentation says and the code does not do.                   *)

\* "SIGINT triggers a graceful flush" (README.md:142), "flushing pending and
\* stopping" (batch/src/main.rs:153): an orderly return, also after SIGINT,
\* leaves nothing of what was taken from the topic unanchored.
ShutdownFlushesPending == anc = "returned" => accepted = flushed

\* What is true of it: of what was sent into the channel only the end is not
\* anchored, what was still in the channel when SIGINT came; the buffer and the
\* batch in flight were flushed.
ReturnFlushesBuffer == anc = "returned" => accepted = flushed \o channel

\* "Batch tool resumes from last successfully anchored ... registry idempotency
\* means safe re-runs" (README.md:188): a run that ends without an error has
\* anchored every envelope its source yielded, also those of an earlier run.
RerunResumes ==
    anc = "returned" /\ ~shutdown
      => \A e \in delivered : Valid(e) => CidOf[e] \in anchored

===============================================================================
