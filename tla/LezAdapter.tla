------------------------------- MODULE LezAdapter -------------------------------
(***************************************************************************)
(* LezRegistryClient (adapters/lez/src/lib.rs), called under with_retry    *)
(* (indexing/src/retry.rs) by several independent callers, and the chain   *)
(* between them.                                                           *)
(*                                                                         *)
(* An anchor call sends one transaction and then polls the accounts of its *)
(* CIDs until they have data; the hash of the transaction is not what it   *)
(* waits for.  So a call may be answered by the transaction of another     *)
(* attempt or of another caller, and a transaction whose call has failed   *)
(* is still on its way.  RegistryProgram models what a transaction does on *)
(* the chain; here it is one step.                                         *)
(***************************************************************************)
EXTENDS Naturals, Sequences

CONSTANTS
    Client,         \* whoever calls the adapter: batch tools, UIs
    Cid, Metadata,
    Time,           \* what the callers' clocks show (next_timestamp)
    NoEntry,        \* an account without data
    Request,        \* the entry lists that a caller may pass
    MaxAttempts,    \* RetryPolicy::max_attempts of each caller; 1: no with_retry
    MaxPolls,       \* confirmation_timeout / poll_interval, at least 1
    Faults          \* what may happen in this behaviour

FaultKind ==
    {"rpc",        \* a request to the sequencer fails
     "tx_lost",    \* a transaction it had taken never gets on the chain
     "crash"}      \* the process of a caller is killed

Entry == [cid : Cid, metadata_hash : Metadata]

AnchorEntry ==
    [cid : Cid, metadata_hash : Metadata, anchor_timestamp : Time]

Transaction == [entries : Request, anchor_timestamp : Time]

ASSUME RequestAssumption == Request \subseteq Seq(Entry) \ {<< >>}

ASSUME AdapterAssumption ==
    /\ NoEntry \notin AnchorEntry
    /\ MaxAttempts \in [Client -> Nat \ {0}]
    /\ MaxPolls \in Nat \ {0}
    /\ Faults \subseteq FaultKind

VARIABLES
    entry,      \* the data of the account derived from each CID
    mempool,    \* transactions sent that are not on the chain
    pc,         \* where the call of a client is
    call,       \* its entries
    attempt,    \* with_retry's attempt, 0 when it has returned
    polls,      \* read_entry_until: polls of the current account so far
    out         \* the entries read so far, in the order of the call

chainVars == <<entry, mempool>>
callVars == <<pc, call, attempt, polls, out>>
vars == <<chainVars, callVars>>

Init ==
    /\ entry = [c \in Cid |-> NoEntry]
    /\ mempool = {}
    /\ pc = [p \in Client |-> "idle"]
    /\ call = [p \in Client |-> << >>]
    /\ attempt = [p \in Client |-> 0]
    /\ polls = [p \in Client |-> 0]
    /\ out = [p \in Client |-> << >>]

-------------------------------------------------------------------------------
(* A call.                                                                 *)

Returned(p) == pc[p] \in {"idle", "ok", "err"}

\* anchor_one is a call with one entry.
Call(p, es) ==
    /\ Returned(p)
    /\ pc' = [pc EXCEPT ![p] = "send"]
    /\ call' = [call EXCEPT ![p] = es]
    /\ attempt' = [attempt EXCEPT ![p] = 1]
    /\ out' = [out EXCEPT ![p] = << >>]
    /\ UNCHANGED <<polls, chainVars>>

\* with_retry after a retryable error.  Each attempt is a new anchor_batch.
\* (The adapter's errors that are not retryable are an instruction that does
\* not encode and an account that does not decode; neither arises, because
\* only the program writes the accounts, see EntryAtItsPda.)
MayRetry_OneMore(p) == attempt[p] <= MaxAttempts[p]
MayRetry(p) == attempt[p] < MaxAttempts[p]

AttemptFails(p) ==
    /\ IF MayRetry(p)
       THEN /\ attempt' = [attempt EXCEPT ![p] = @ + 1]
            /\ pc' = [pc EXCEPT ![p] = "send"]
       ELSE /\ pc' = [pc EXCEPT ![p] = "err"]
            /\ attempt' = [attempt EXCEPT ![p] = 0]
    /\ out' = [out EXCEPT ![p] = << >>]
    /\ polls' = [polls EXCEPT ![p] = 0]
    /\ UNCHANGED call

Sent(p, now) == [entries |-> call[p], anchor_timestamp |-> now]

\* submit_and_wait: next_timestamp is read anew, and send_transaction returns.
Send(p) ==
    /\ pc[p] = "send"
    /\ \E now \in Time : mempool' = mempool \cup {Sent(p, now)}
    /\ pc' = [pc EXCEPT ![p] = "confirm"]
    /\ UNCHANGED <<entry, call, attempt, polls, out>>

\* send_transaction returns an error: the sequencer may have the transaction
\* although the answer was lost.
SendFails(p) ==
    /\ "rpc" \in Faults
    /\ pc[p] = "send"
    /\ \/ UNCHANGED mempool
       \/ \E now \in Time : mempool' = mempool \cup {Sent(p, now)}
    /\ AttemptFails(p)
    /\ UNCHANGED entry

\* The best-effort get_transaction polls end, whatever they have seen.
Confirm_WaitsForHash(p) ==
    /\ pc[p] = "confirm"
    /\ \A now \in Time : Sent(p, now) \notin mempool
    /\ pc' = [pc EXCEPT ![p] = "read"]
    /\ UNCHANGED <<call, attempt, polls, out, chainVars>>
Confirm(p) ==
    /\ pc[p] = "confirm"
    /\ pc' = [pc EXCEPT ![p] = "read"]
    /\ UNCHANGED <<call, attempt, polls, out, chainVars>>

\* The CID whose account read_entry_until polls.
Awaited_Backwards(p) == call[p][Len(call[p]) - Len(out[p])].cid
Awaited_LastOnly(p) == call[p][Len(call[p])].cid
Awaited(p) == call[p][Len(out[p]) + 1].cid

\* The account has data: take it and go on to the next one, from poll 0.
AllRead(p) == Len(out[p]) + 1 = Len(call[p])

ReadEntry_OnlyOwn(p) ==
    LET e == entry[Awaited(p)] IN
    /\ pc[p] = "read"
    /\ e # NoEntry
    /\ IF e.metadata_hash = call[p][Len(out[p]) + 1].metadata_hash
       THEN /\ out' = [out EXCEPT ![p] = Append(@, e)]
            /\ pc' = [pc EXCEPT ![p] = IF AllRead(p) THEN "ok" ELSE "read"]
            /\ UNCHANGED <<call, attempt, polls>>
       ELSE AttemptFails(p)
    /\ UNCHANGED chainVars
ReadEntry(p) ==
    /\ pc[p] = "read"
    /\ entry[Awaited(p)] # NoEntry
    /\ out' = [out EXCEPT ![p] = Append(@, entry[Awaited(p)])]
    /\ polls' = [polls EXCEPT ![p] = 0]
    /\ pc' = [pc EXCEPT ![p] = IF AllRead(p) THEN "ok" ELSE "read"]
    /\ attempt' = [attempt EXCEPT ![p] = IF AllRead(p) THEN 0 ELSE @]
    /\ UNCHANGED <<call, chainVars>>

\* The account is empty: poll again, or time out (a retryable error).
PollsLeft(p) == polls[p] + 1 < MaxPolls

ReadEmpty_PollsOn(p) ==
    /\ pc[p] = "read"
    /\ entry[Awaited(p)] = NoEntry
    /\ polls' = [polls EXCEPT ![p] = IF PollsLeft(p) THEN @ + 1 ELSE 0]
    /\ UNCHANGED <<pc, call, attempt, out, chainVars>>
ReadEmpty(p) ==
    /\ pc[p] = "read"
    /\ entry[Awaited(p)] = NoEntry
    /\ \/ /\ PollsLeft(p)
          /\ polls' = [polls EXCEPT ![p] = @ + 1]
          /\ UNCHANGED <<pc, call, attempt, out>>
       \/ /\ ~PollsLeft(p)
          /\ AttemptFails(p)
    /\ UNCHANGED chainVars

\* get_account_public fails: the ? of read_entry_until gives up at once.
ReadFails(p) ==
    /\ "rpc" \in Faults
    /\ pc[p] = "read"
    /\ AttemptFails(p)
    /\ UNCHANGED chainVars

\* External: the caller's process ends, in the middle of the call when it is
\* killed.  What the call has sent stays under way.
Ends(p) ==
    /\ Returned(p) \/ "crash" \in Faults
    /\ pc' = [pc EXCEPT ![p] = "idle"]
    /\ call' = [call EXCEPT ![p] = << >>]
    /\ attempt' = [attempt EXCEPT ![p] = 0]
    /\ polls' = [polls EXCEPT ![p] = 0]
    /\ out' = [out EXCEPT ![p] = << >>]
    /\ UNCHANGED chainVars

-------------------------------------------------------------------------------
(* External: the chain.  A transaction gets on it at any later time.       *)

CidsOf(t) == {t.entries[i].cid : i \in DOMAIN t.entries}

\* What process_entry does with the account of c, when the i-th entry of the
\* transaction is the one for c.
PostState(t, i, c) ==
    IF entry[c] # NoEntry
    THEN entry[c]
    ELSE [cid |-> c, metadata_hash |-> t.entries[i].metadata_hash,
          anchor_timestamp |-> t.anchor_timestamp]

\* When a transaction repeats a CID, which of its entries counts is the
\* runtime's choice (Commit of RegistryProgram).
Lands(t) ==
    /\ t \in mempool
    /\ mempool' = mempool \ {t}
    /\ \E win \in [CidsOf(t) -> DOMAIN t.entries] :
          /\ \A c \in CidsOf(t) : t.entries[win[c]].cid = c
          /\ entry' = [c \in Cid |-> IF c \in CidsOf(t)
                                     THEN PostState(t, win[c], c)
                                     ELSE entry[c]]
    /\ UNCHANGED callVars

IsLost(t) ==
    /\ "tx_lost" \in Faults
    /\ t \in mempool
    /\ mempool' = mempool \ {t}
    /\ UNCHANGED <<entry, callVars>>

-------------------------------------------------------------------------------

Step(p) ==
    Send(p) \/ SendFails(p) \/ Confirm(p) \/ ReadEntry(p) \/ ReadEmpty(p) \/ ReadFails(p)

Next ==
    \/ \E p \in Client : (\E es \in Request : Call(p, es)) \/ Step(p) \/ Ends(p)
    \/ \E t \in mempool : Lands(t) \/ IsLost(t)

Spec == Init /\ [][Next]_vars

-------------------------------------------------------------------------------
(* Properties.                                                             *)

TypeOK ==
    /\ entry \in [Cid -> AnchorEntry \cup {NoEntry}]
    /\ mempool \subseteq Transaction
    /\ pc \in [Client -> {"idle", "send", "confirm", "read", "ok", "err"}]
    /\ call \in [Client -> Request \cup {<< >>}]
    /\ attempt \in [Client -> Nat]
    /\ \A p \in Client : attempt[p] <= MaxAttempts[p]
    /\ polls \in [Client -> 0..(MaxPolls - 1)]
    /\ out \in [Client -> Seq(AnchorEntry)]

\* What an anchor call returns is, for every CID of the call and in its order,
\* the entry that is on the chain then and stays there: all callers agree on
\* it, although the entry may come from another caller, with other metadata,
\* or from an attempt that was given up, and although attempts that were given
\* up land later.
ReturnedIsFinal ==
    \A p \in Client :
        /\ \A i \in DOMAIN out[p] : out[p][i] = entry[call[p][i].cid]
        /\ pc[p] = "ok" => Len(out[p]) = Len(call[p])

\* The inductive invariant: where a call is says how far its answer has got.
Progress ==
    \A p \in Client :
        /\ pc[p] \in {"send", "confirm", "read", "ok"} => call[p] # << >>
        /\ pc[p] \notin {"read", "ok"} => out[p] = << >>
        /\ pc[p] = "read" => Len(out[p]) < Len(call[p])
        /\ Len(out[p]) <= Len(call[p])

IInv == TypeOK /\ Progress /\ ReturnedIsFinal

\* To each caller, with all the others around it, this is the client that
\* BatchLoop is written against: an answer is Ok only when every CID has an
\* entry, and what a failed attempt has sent stays under way.
Phase(p) ==
    CASE pc[p] = "send" -> "submit"
      [] pc[p] \in {"confirm", "read"} -> "await"
      [] OTHER -> "closed"

Asked(p) == {call[p][i].cid : i \in DOMAIN call[p]}
AskedNow(p) == IF Returned(p) THEN {} ELSE Asked(p)
Answered(p) == IF pc[p] = "ok" THEN Asked(p) ELSE {}
UnderWay == {CidsOf(t) : t \in mempool}
WithEntry == {c \in Cid : entry[c] # NoEntry}

C(p) ==
    INSTANCE RegistryClient WITH
        MaxAttempts <- MaxAttempts[p], phase <- Phase(p), asked <- AskedNow(p),
        attempt <- attempt[p], answered <- Answered(p),
        mempool <- UnderWay, anchored <- WithEntry

ImplementsClient ==
    /\ \A p \in Client : C(p)!Init
    /\ [][\A p \in Client : [C(p)!Next]_(C(p)!vars)]_vars

\* A call cannot go round for ever, whatever the chain, the sequencer and the
\* other callers do: each of its steps uses up some of the MaxAttempts attempts
\* to send, confirm and poll each account MaxPolls times, and nobody but the
\* caller, with a new call, gives it more.
Share(p) == Len(call[p]) * MaxPolls + 2

LeftOfAttempt(p) ==
    CASE pc[p] = "send"    -> Share(p)
      [] pc[p] = "confirm" -> Share(p) - 1
      [] pc[p] = "read"    -> (Len(call[p]) - Len(out[p])) * MaxPolls - polls[p]

WorkLeft(p) ==
    IF Returned(p) THEN 0
    ELSE (MaxAttempts[p] - attempt[p]) * Share(p) + LeftOfAttempt(p)

CallsAreBounded ==
    [][\A p \in Client :
          /\ WorkLeft(p) \in Nat
          /\ Step(p) => WorkLeft(p)' < WorkLeft(p)
          /\ WorkLeft(p)' > WorkLeft(p) => \E es \in Request : Call(p, es)
      ]_vars

\* A call comes back, also when the chain takes nothing: the attempts and the
\* polls of each are bounded.
CallReturns == \A p \in Client : pc[p] = "send" ~> Returned(p)

Anchored(es) == \A i \in DOMAIN es : entry[es[i].cid] # NoEntry

\* "Idempotent - re-anchoring an already-registered CID returns the existing
\* AnchorEntry, never errors" (indexing/src/traits.rs:78): while the sequencer
\* answers, a call for CIDs that are on the chain succeeds, also when its own
\* transaction never gets there or is never seen, unless the caller dies in it.
AnchoredCallSucceeds ==
    \A p \in Client :
        (pc[p] = "send" /\ Anchored(call[p])) ~> pc[p] \in {"ok", "idle"}

\* No transaction waits for ever.
ChainKeepsUp == \A t \in Transaction : []<>(t \notin mempool)

===============================================================================
