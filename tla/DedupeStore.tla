------------------------------ MODULE DedupeStore ------------------------------
(***************************************************************************)
(* DurableDedupeStore (indexing/src/orchestration.rs) on its file, used by *)
(* one or several batch tools.                                             *)
(*                                                                         *)
(* ingest appends a line with writeln! and then calls sync_all.  The file  *)
(* is not buffered, so the line goes out in two writes, the hash and the   *)
(* line feed; a process can be killed between them, a write can fail, and  *)
(* another process with its own descriptor can write in between.  Whatever *)
(* is then on one line is one string for the next open.                    *)
(***************************************************************************)
EXTENDS Naturals, Sequences

CONSTANTS
    Process,    \* batch tools started on the same path
    Hash,       \* envelope hashes: SHA-256 of topic and payload, injective
    NL,         \* a line feed
    Torn,       \* a part of a hash
    NoHash,     \* no ingest is running
    MaxTokens,  \* bound: an ingest starts only on a file shorter than this
    Faults      \* what may happen in this behaviour

FaultKind ==
    {"io",      \* opening, writing or syncing the file fails (a full disk)
     "kill",    \* a process dies
     "power"}   \* the machine goes down

ASSUME DedupeAssumption ==
    /\ NL \notin Hash /\ Torn \notin Hash /\ NoHash \notin Hash
    /\ NL # Torn
    /\ MaxTokens \in Nat
    /\ Faults \subseteq FaultKind

VARIABLES
    file,       \* what has been written
    synced,     \* how much of it survives a power loss
    pc,         \* where each process is
    seen,       \* DurableDedupeStore::seen
    cur,        \* the hash that ingest is at
    answer,     \* the last answer of ingest
    taken,      \* history: hashes that were answered New
    known,      \* history: what was taken when a process opened the store
    torn        \* history: a line was cut short, or two were written at once

histVars == <<taken, known, torn>>
vars == <<file, synced, pc, seen, cur, answer, histVars>>

Init ==
    /\ file = << >> /\ synced = 0
    /\ pc = [p \in Process |-> "down"]
    /\ seen = [p \in Process |-> {}]
    /\ cur = [p \in Process |-> NoHash]
    /\ answer = [p \in Process |-> "none"]
    /\ taken = {}
    /\ known = [p \in Process |-> {}]
    /\ torn = FALSE

-------------------------------------------------------------------------------
(* open.                                                                   *)

Unterminated(f) == f # << >> /\ f[Len(f)] # NL

\* A line that is one hash and nothing else.  (trim and the test for an empty
\* line have nothing to do here: hashes have no blanks.)
WholeLine(f, i) ==
    /\ f[i] \in Hash
    /\ i = 1 \/ f[i - 1] = NL
    /\ i = Len(f) \/ f[i + 1] = NL

Recovered_DropsLast(f) ==
    {f[i] : i \in {j \in DOMAIN f : WholeLine(f, j) /\ j + 1 < Len(f)}}
Recovered(f) == {f[i] : i \in {j \in DOMAIN f : WholeLine(f, j)}}

Open(p) ==
    /\ pc[p] = "down"
    /\ pc' = [pc EXCEPT ![p] = "ready"]
    /\ seen' = [seen EXCEPT ![p] = Recovered(file)]
    /\ known' = [known EXCEPT ![p] = taken]
    /\ UNCHANGED <<file, synced, cur, answer, taken, torn>>

-------------------------------------------------------------------------------
(* ingest.                                                                 *)

Duplicate(p, h) ==
    /\ pc[p] = "ready"
    /\ h \in seen[p]
    /\ answer' = [answer EXCEPT ![p] = "duplicate"]
    /\ UNCHANGED <<file, synced, pc, seen, cur, histVars>>

\* The hash is put into memory before the file is even opened.
Remember_AfterSync(p, h) ==
    /\ pc[p] = "ready"
    /\ h \notin seen[p]
    /\ UNCHANGED seen
Remember(p, h) ==
    /\ pc[p] = "ready"
    /\ h \notin seen[p]
    /\ seen' = [seen EXCEPT ![p] = @ \cup {h}]

Begin(p, h) ==
    /\ Remember(p, h)
    /\ Len(file) < MaxTokens
    /\ pc' = [pc EXCEPT ![p] = "hash"]
    /\ cur' = [cur EXCEPT ![p] = h]
    /\ UNCHANGED <<file, synced, answer, histVars>>

\* create_dir_all or OpenOptions::open fails.
BeginFails(p, h) ==
    /\ "io" \in Faults
    /\ Remember(p, h)
    /\ answer' = [answer EXCEPT ![p] = "error"]
    /\ UNCHANGED <<file, synced, pc, cur, histVars>>

Returns(p, result) ==
    /\ pc' = [pc EXCEPT ![p] = "ready"]
    /\ cur' = [cur EXCEPT ![p] = NoHash]
    /\ answer' = [answer EXCEPT ![p] = result]
    /\ UNCHANGED <<seen, known>>

\* O_APPEND: each write goes to the end of the file as it is then.
WriteHash_Truncates(p) ==
    /\ pc[p] = "hash"
    /\ file' = <<cur[p]>>
    /\ torn' = (torn \/ \E q \in Process \ {p} : pc[q] = "newline")
    /\ pc' = [pc EXCEPT ![p] = "newline"]
    /\ UNCHANGED <<synced, seen, cur, answer, taken, known>>
WriteHash(p) ==
    /\ pc[p] = "hash"
    /\ file' = Append(file, cur[p])
    /\ torn' = (torn \/ \E q \in Process \ {p} : pc[q] = "newline")
    /\ pc' = [pc EXCEPT ![p] = "newline"]
    /\ UNCHANGED <<synced, seen, cur, answer, taken, known>>

\* write_all fails at once or with a part of the hash written.
WriteHashFails(p) ==
    /\ "io" \in Faults
    /\ pc[p] = "hash"
    /\ \/ UNCHANGED <<file, torn>>
       \/ file' = Append(file, Torn) /\ torn' = TRUE
    /\ Returns(p, "error")
    /\ UNCHANGED <<synced, taken>>

WriteNewline_Missing(p) ==
    /\ pc[p] = "newline"
    /\ pc' = [pc EXCEPT ![p] = "sync"]
    /\ UNCHANGED <<file, synced, seen, cur, answer, histVars>>
WriteNewline(p) ==
    /\ pc[p] = "newline"
    /\ file' = Append(file, NL)
    /\ pc' = [pc EXCEPT ![p] = "sync"]
    /\ UNCHANGED <<synced, seen, cur, answer, histVars>>

WriteNewlineFails(p) ==
    /\ "io" \in Faults
    /\ pc[p] = "newline"
    /\ torn' = TRUE
    /\ Returns(p, "error")
    /\ UNCHANGED <<file, synced, taken>>

\* sync_all covers all that is in the file, whoever wrote it.
SyncAll_Nothing(p) ==
    /\ pc[p] = "sync"
    /\ taken' = taken \cup {cur[p]}
    /\ Returns(p, "new")
    /\ UNCHANGED <<file, synced, torn>>
SyncAll(p) ==
    /\ pc[p] = "sync"
    /\ synced' = Len(file)
    /\ taken' = taken \cup {cur[p]}
    /\ Returns(p, "new")
    /\ UNCHANGED <<file, torn>>

SyncAllFails(p) ==
    /\ "io" \in Faults
    /\ pc[p] = "sync"
    /\ Returns(p, "error")
    /\ UNCHANGED <<file, synced, taken, torn>>

-------------------------------------------------------------------------------
(* External: the end of a process, and of the machine.                     *)

Up(p) == pc[p] # "down"

Exit(p) ==
    /\ pc' = [pc EXCEPT ![p] = "down"]
    /\ seen' = [seen EXCEPT ![p] = {}]
    /\ cur' = [cur EXCEPT ![p] = NoHash]
    /\ answer' = [answer EXCEPT ![p] = "none"]
    /\ known' = [known EXCEPT ![p] = {}]
    /\ UNCHANGED <<file, synced, taken>>

\* A clean end; run_batch_loop has dropped the store.
Close(p) == pc[p] = "ready" /\ Exit(p) /\ UNCHANGED torn

\* What was written stays in the file.
Killed(p) ==
    /\ "kill" \in Faults
    /\ Up(p)
    /\ Exit(p)
    /\ torn' = (torn \/ pc[p] = "newline")

\* What was synced is left, and perhaps more, the last hash possibly in part.
PowerLoss ==
    /\ "power" \in Faults
    /\ \E k \in synced..Len(file), rest \in {<< >>, <<Torn>>} :
          /\ rest # << >> => k < Len(file) /\ file[k + 1] # NL
          /\ file' = SubSeq(file, 1, k) \o rest
    /\ synced' = Len(file')
    /\ torn' = (torn \/ Unterminated(file'))
    /\ pc' = [p \in Process |-> "down"]
    /\ seen' = [p \in Process |-> {}]
    /\ cur' = [p \in Process |-> NoHash]
    /\ answer' = [p \in Process |-> "none"]
    /\ known' = [p \in Process |-> {}]
    /\ UNCHANGED taken

-------------------------------------------------------------------------------

Ingest(p) ==
    \/ \E h \in Hash : Duplicate(p, h) \/ Begin(p, h) \/ BeginFails(p, h)
    \/ WriteHash(p) \/ WriteHashFails(p)
    \/ WriteNewline(p) \/ WriteNewlineFails(p)
    \/ SyncAll(p) \/ SyncAllFails(p)

Next ==
    \/ \E p \in Process : Open(p) \/ Ingest(p) \/ Close(p) \/ Killed(p)
    \/ PowerLoss

Spec == Init /\ [][Next]_vars

-------------------------------------------------------------------------------
(* Properties.                                                             *)

Token == Hash \cup {NL, Torn}

TypeOK ==
    /\ file \in Seq(Token)
    /\ synced \in 0..Len(file)
    /\ pc \in [Process -> {"down", "ready", "hash", "newline", "sync"}]
    /\ seen \in [Process -> SUBSET Hash]
    /\ cur \in [Process -> Hash \cup {NoHash}]
    /\ answer \in [Process -> {"none", "new", "duplicate", "error"}]
    /\ taken \in SUBSET Hash
    /\ known \in [Process -> SUBSET Hash]
    /\ torn \in BOOLEAN

\* "computes a durable envelope hash ... and persists it before anchoring"
\* (indexing/API.md): whatever fails around it, an envelope is answered New only
\* when its hash is in the part of the file that a power loss leaves alone.
TakenIsDurable == \A h \in taken : \E i \in 1..synced : file[i] = h

\* An open finds every hash that was ever answered New, as long as no line was
\* cut short and no two processes were inside a line at the same time.  These
\* are the only ways: a second process between lines, a failed sync or open, a
\* kill or a power loss at any other moment do no harm.
UntornRemembers == ~torn => taken \subseteq Recovered(file)

\* Where the two processes and the file can be relative to each other: a
\* process that has written its hash finds it in the file, and an untorn file
\* ends inside a line only while one process is inside it.
InLine(p) == pc[p] \in {"hash", "newline", "sync"}

Written ==
    \A p \in Process :
        /\ InLine(p) <=> cur[p] # NoHash
        /\ InLine(p) => cur[p] \in seen[p]
        /\ pc[p] \in {"newline", "sync"} => \E i \in DOMAIN file : file[i] = cur[p]
        /\ pc[p] = "down" => seen[p] = {} /\ known[p] = {}

LinesAreWhole ==
    ~torn =>
        /\ \A i \in DOMAIN file : file[i] # NL => WholeLine(file, i)
        /\ Unterminated(file) => \E p \in Process : pc[p] = "newline"
        /\ \A p, q \in Process : pc[p] = "newline" /\ pc[q] = "newline" => p = q

KnownIsSeen ==
    ~torn => \A p \in Process : known[p] \subseteq seen[p] /\ cur[p] \notin known[p]

\* The inductive invariant.
IInv ==
    /\ TypeOK /\ TakenIsDurable /\ UntornRemembers
    /\ Written /\ LinesAreWhole /\ KnownIsSeen

\* Two batch tools on one ledger: an envelope that was answered New is
\* answered New again, and anchored again, only by a process that had read the
\* file before, never by one that was started since.
NewAgainOnlyByStaleReader ==
    [][\A p \in Process : SyncAll(p) => torn \/ cur[p] \notin known[p]]_vars

\* The store only ever appends: what one process has made durable, no other
\* process, no failure and no restart takes away.
SyncedStays ==
    [][/\ synced <= synced'
       /\ \A i \in 1..synced : i \in DOMAIN file' /\ file'[i] = file[i]]_vars

L == INSTANCE DedupeLedger WITH recorded <- Recovered(file)

\* Until a line is torn the file, with its two writes and its sync, is the durable
\* set of hashes that the batch tool counts on.
ImplementsLedger == L!Init /\ [][torn' \/ L!Next]_(L!vars)

-------------------------------------------------------------------------------
(* What the documentation says and the code does not do.                   *)

\* "On restart, the dedupe store is reloaded and duplicate envelopes are
\* skipped" (indexing/API.md): an envelope is answered New once.
NewOnlyOnce == [][\A p \in Process : SyncAll(p) => cur[p] \notin taken]_vars

\* What is true of it: one batch tool alone on its ledger, restarted as often as
\* may be, answers New twice only after a line was torn.
AloneNewOnlyOnce ==
    [][\A p \in Process : SyncAll(p) /\ Process = {p} => torn \/ cur[p] \notin taken]_vars

\* Because, alone, a process has seen whatever was taken.
AloneHasSeenAll ==
    ~torn => \A p \in Process :
                Process = {p} /\ Up(p) => taken \subseteq seen[p] /\ cur[p] \notin taken

===============================================================================
