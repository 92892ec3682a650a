---------------------------- MODULE RegistryProgram ----------------------------
(***************************************************************************)
(* The whistleblower-registry LEZ program                                  *)
(* (methods/guest/src/bin/whistleblower_registry.rs) and the runtime that  *)
(* executes it.  Every anchored CID has an account of its own, at the      *)
(* program-derived address (PDA) of the CID.                               *)
(*                                                                         *)
(* The runtime takes one transaction at a time, hands the guest a snapshot *)
(* of the accounts the transaction names (pre_states), and applies the     *)
(* accounts the guest returns all together, or none of them.  Anybody may  *)
(* submit a transaction, with any accounts, entries and timestamp, so      *)
(* Begin takes any transaction: a delayed, repeated or reordered one is a  *)
(* later Begin.                                                            *)
(***************************************************************************)
EXTENDS Naturals, Sequences

CONSTANTS
    Cid, Metadata, Time,
    AccountId,     \* account addresses
    PdaOf,         \* AccountId::for_public_pda of a CID's hash
    NoEntry,       \* the data of an account that was never written
    NoTx,          \* no transaction is being executed
    MaxEntries,    \* bound: entries and accounts of one transaction
    MaxAccepted    \* bound: transactions applied in a behaviour

\* for_public_pda hashes the program id and the CID's hash: two CIDs never
\* share an address (SHA-256 is taken to be injective).
ASSUME PdaAssumption ==
    /\ PdaOf \in [Cid -> AccountId]
    /\ \A c, d \in Cid : PdaOf[c] = PdaOf[d] => c = d

ASSUME BoundAssumption == MaxEntries \in Nat /\ MaxAccepted \in Nat

AnchorEntry ==
    [cid : Cid, metadata_hash : Metadata, anchor_timestamp : Time]

ASSUME NoEntryAssumption == NoEntry \notin AnchorEntry

Data == AnchorEntry \cup {NoEntry}

UpTo(S, n) == UNION {[1..m -> S] : m \in 0..n}

\* What the host sends: the account list and the borsh-encoded instruction.
\* "Malformed" stands for bytes that do not decode.
Transaction ==
    [kind : {"AnchorOne", "AnchorBatch", "Malformed"},
     accounts : UpTo(AccountId, MaxEntries),
     entries : UpTo([cid : Cid, metadata_hash : Metadata], MaxEntries),
     anchor_timestamp : Time]

ASSUME NoTxAssumption == NoTx \notin Transaction

VARIABLES
    account,    \* the data of every account on the chain
    tx,         \* the transaction the guest is executing
    pre,        \* pre_states: the snapshot the runtime handed to the guest
    post,       \* post_states computed so far
    accepted    \* history: the transactions applied, in order

vars == <<account, tx, pre, post, accepted>>

Init ==
    /\ account = [a \in AccountId |-> NoEntry]
    /\ tx = NoTx
    /\ pre = << >>
    /\ post = << >>
    /\ accepted = << >>

-------------------------------------------------------------------------------
(* The guest.                                                              *)

\* AnchorOne carries one entry and asserts that it got one account;
\* AnchorBatch asserts as many accounts as entries.
WellFormed(t) ==
    CASE t.kind = "AnchorOne"   -> Len(t.entries) = 1 /\ Len(t.accounts) = 1
      [] t.kind = "AnchorBatch" -> Len(t.entries) = Len(t.accounts)
      [] OTHER                  -> FALSE

\* The entry process_entry looks at next, and the address it must be at.
Index == Len(post) + 1
Pending == Index <= Len(tx.entries)
AtItsPda_Unchecked == Index \in DOMAIN tx.accounts
AtItsPda == tx.accounts[Index] = PdaOf[tx.entries[Index].cid]

NewEntry_NoTimestamp(t, i) ==
    [cid |-> t.entries[i].cid,
     metadata_hash |-> t.entries[i].metadata_hash,
     anchor_timestamp |-> 0]

NewEntry(t, i) ==
    [cid |-> t.entries[i].cid,
     metadata_hash |-> t.entries[i].metadata_hash,
     anchor_timestamp |-> t.anchor_timestamp]

\* An account with data is returned as it is; a fresh one gets the entry.
PostState_Overwrites(t, i, data) == NewEntry(t, i)
PostState(t, i, data) ==
    IF data # NoEntry THEN data ELSE NewEntry(t, i)

Idle ==
    /\ tx' = NoTx
    /\ pre' = << >>
    /\ post' = << >>

-------------------------------------------------------------------------------
(* The steps.                                                              *)

\* AnchorOne holds exactly one entry by its type.
Begin(t) ==
    /\ tx = NoTx
    /\ Len(accepted) < MaxAccepted
    /\ t.kind = "AnchorOne" => Len(t.entries) = 1
    /\ tx' = t
    /\ pre' = [i \in DOMAIN t.accounts |-> account[t.accounts[i]]]
    /\ post' = << >>
    /\ UNCHANGED <<account, accepted>>

\* The guest panics: the transaction has no effect.
Panic ==
    /\ tx # NoTx
    /\ WellFormed(tx) => Pending /\ ~AtItsPda
    /\ Idle
    /\ UNCHANGED <<account, accepted>>

ProcessEntry ==
    /\ tx # NoTx
    /\ WellFormed(tx)
    /\ Pending
    /\ AtItsPda
    /\ post' = Append(post, PostState(tx, Index, pre[Index]))
    /\ UNCHANGED <<account, tx, pre, accepted>>

Processed == tx # NoTx /\ WellFormed(tx) /\ ~Pending

Touched(t) == {t.accounts[i] : i \in DOMAIN t.accounts}

\* External: the runtime applies the post-states together.  When the account
\* list repeats an address the guest returned several post-states for it,
\* and which of them stays is the runtime's choice.
Commit ==
    /\ Processed
    /\ \E win \in [Touched(tx) -> DOMAIN tx.accounts] :
          /\ \A a \in Touched(tx) : tx.accounts[win[a]] = a
          /\ account' = [a \in AccountId |->
                           IF a \in Touched(tx) THEN post[win[a]]
                                                ELSE account[a]]
    /\ accepted' = Append(accepted, tx)
    /\ Idle

\* External: the runtime's own validation (claims, repeated accounts, fees)
\* refuses what the guest returned, and the transaction has no effect.
Discard ==
    /\ Processed
    /\ Idle
    /\ UNCHANGED <<account, accepted>>

Next ==
    \/ \E t \in Transaction : Begin(t)
    \/ Panic
    \/ ProcessEntry
    \/ Commit
    \/ Discard

Spec == Init /\ [][Next]_vars

-------------------------------------------------------------------------------
(* Properties.                                                             *)

TypeOK ==
    /\ account \in [AccountId -> Data]
    /\ tx \in Transaction \cup {NoTx}
    /\ pre \in Seq(Data)
    /\ post \in Seq(Data)
    /\ accepted \in Seq(Transaction)

Mentions(t, c) == \E i \in DOMAIN t.entries : t.entries[i].cid = c

Offers(t, e) == \E i \in DOMAIN t.entries : NewEntry(t, i) = e

\* The account of a CID has data exactly when a transaction that names the CID
\* was applied, and the data is what the first of these transactions offered
\* for it, with that transaction's timestamp.  So a later anchor, a repeated
\* or a late transaction, never replaces an entry (process_entry returns an
\* account with data unchanged), an applied batch anchors all its CIDs, and a
\* transaction that panicked or was refused leaves nothing behind.
FirstAcceptedWins ==
    \A c \in Cid :
        LET e == account[PdaOf[c]] IN
        IF e = NoEntry
        THEN \A k \in DOMAIN accepted : ~Mentions(accepted[k], c)
        ELSE \E k \in DOMAIN accepted :
               /\ e.cid = c
               /\ Offers(accepted[k], e)
               /\ \A j \in 1..(k - 1) : ~Mentions(accepted[j], c)

\* Whatever account list a host sends, the program only ever writes the
\* account whose address is derived from the CID it stores there (the assert
\* on pre.account_id in process_entry): queries that derive the address find
\* the entry of that very CID.
EntryAtItsPda ==
    \A a \in AccountId : account[a] # NoEntry => a = PdaOf[account[a].cid]

\* The accounts at the CIDs' addresses, read as query_by_cid_hash reads them.
View == [c \in Cid |-> account[PdaOf[c]]]

R == INSTANCE Registry WITH anchored <- View

\* Read through the derived addresses, the program's accounts are the
\* write-once registry: every step anchors fresh CIDs or changes nothing.
ImplementsRegistry == R!Spec

\* For whoever reads through the addresses, an executed transaction lands at
\* once: between the snapshot and the post-states there is nothing to see, the
\* entries that are there stay, and every other CID that the transaction names
\* gets one of the entries it offers for it.  LezAdapter takes this for one step.
CidsOf(t) == {t.entries[i].cid : i \in DOMAIN t.entries}

LandsAtOnce(t) ==
    \E win \in [CidsOf(t) -> DOMAIN t.entries] :
        /\ \A c \in CidsOf(t) : t.entries[win[c]].cid = c
        /\ View' = [c \in Cid |-> IF c \in CidsOf(t) /\ View[c] = NoEntry
                                  THEN NewEntry(t, win[c])
                                  ELSE View[c]]

TransactionsLandAtOnce == [][View' # View => Commit /\ LandsAtOnce(tx)]_vars

\* The inductive invariant: what TypeOK, FirstAcceptedWins and EntryAtItsPda
\* rest on while a transaction is being executed.  The snapshot is still
\* current (one transaction at a time), and every post-state is the old data
\* of its account, or the offered entry if that account was fresh.
Running ==
    tx # NoTx =>
      /\ pre = [i \in DOMAIN tx.accounts |-> account[tx.accounts[i]]]
      /\ Len(post) <= Len(tx.entries)
      /\ Len(post) > 0 => WellFormed(tx)
      /\ \A i \in DOMAIN post :
            /\ tx.accounts[i] = PdaOf[tx.entries[i].cid]
            /\ post[i] = PostState(tx, i, account[tx.accounts[i]])

IInv == TypeOK /\ Running /\ FirstAcceptedWins /\ EntryAtItsPda

===============================================================================
