--------------------------- MODULE RegistryAgreement ---------------------------
(***************************************************************************)
(* The guest program and the in-memory RegistryState of the core crate,    *)
(* given the same instructions.  RegistryState is where the registry's     *)
(* rules (idempotency, batches, counters) are written down and tested      *)
(* (core/tests); the guest has its own loop over the accounts it is given. *)
(* This composition says how far the two agree.                            *)
(***************************************************************************)
EXTENDS RegistryProgram, FiniteSets

VARIABLES entries, outcome

Core == INSTANCE CoreRegistry

agreementVars == <<vars, entries, outcome>>

AgreementInit == Init /\ Core!Init

\* The instruction that the guest has executed, given to RegistryState.
Instruction(t) == [i \in DOMAIN t.entries |-> NewEntry(t, i)]

CommitBoth == Commit /\ Core!Apply(Instruction(tx))

GuestOnly ==
    /\ \/ \E t \in Transaction : Begin(t)
       \/ Panic
       \/ ProcessEntry
       \/ Discard
    /\ UNCHANGED <<entries, outcome>>

AgreementNext == CommitBoth \/ GuestOnly

AgreementSpec == AgreementInit /\ [][AgreementNext]_agreementVars

-------------------------------------------------------------------------------

NamedOnce(t, c) ==
    \A i, j \in DOMAIN t.entries :
        t.entries[i].cid = c /\ t.entries[j].cid = c => i = j

FirstFor(c) ==
    CHOOSE k \in DOMAIN accepted :
        /\ Mentions(accepted[k], c)
        /\ \A j \in 1..(k - 1) : ~Mentions(accepted[j], c)

\* The guest looks at a snapshot taken before the batch, RegistryState at its
\* own running state, so a CID repeated within one batch may get the metadata
\* of its first mention in one and of another mention in the other.  That is
\* all they differ in: they have anchored the same CIDs, by the same
\* instruction (the timestamps agree), and the entries are equal whenever that
\* instruction names the CID once.
GuestAgreesWithCore ==
    \A c \in Cid :
        LET g == View[c]
            m == Core!Query(entries, c) IN
        /\ g = NoEntry <=> m = NoEntry
        /\ g # NoEntry =>
             /\ g.anchor_timestamp = m.anchor_timestamp
             /\ NamedOnce(accepted[FirstFor(c)], c) => g = m

Anchored(m) == {c \in Cid : m[c] # NoEntry}

\* RegistryState keeps what FirstAcceptedWins says of the guest's accounts, of
\* its own entries: each is the one that the first instruction naming its CID
\* offered.
CoreFirstAccepted ==
    \A c \in Cid :
        IF entries[c] = NoEntry
        THEN \A k \in DOMAIN accepted : ~Mentions(accepted[k], c)
        ELSE \E k \in DOMAIN accepted :
               /\ entries[c].cid = c
               /\ Offers(accepted[k], entries[c])
               /\ \A j \in 1..(k - 1) : ~Mentions(accepted[j], c)

\* The outcome of an instruction tells the truth: each returned entry is what
\* a query then finds, inserted counts the CIDs that became anchored, and
\* every other entry is counted as skipped, repetitions in a batch included.
OutcomeIsTruthful ==
    [][CommitBoth =>
         /\ Len(outcome'.entries) = Len(tx.entries)
         /\ \A i \in DOMAIN tx.entries :
              outcome'.entries[i] = entries'[tx.entries[i].cid]
         /\ outcome'.inserted
              = Cardinality(Anchored(entries')) - Cardinality(Anchored(entries))
         /\ outcome'.inserted + outcome'.skipped_existing = Len(tx.entries)
      ]_agreementVars

\* The inductive invariant of the two together.  Only finitely many CIDs are
\* ever anchored, whatever the set of all CIDs is, so that they can be counted.
AgreementInv ==
    /\ IInv
    /\ entries \in [Cid -> Data]
    /\ IsFiniteSet(Anchored(entries))
    /\ CoreFirstAccepted

\* RegistryState alone is a write-once registry as well.
CoreMap == INSTANCE Registry WITH anchored <- entries

CoreImplementsRegistry == CoreMap!Spec

===============================================================================
