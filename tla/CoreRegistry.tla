----------------------------- MODULE CoreRegistry -----------------------------
(***************************************************************************)
(* RegistryState (core/src/lib.rs): the registry in memory, which the      *)
(* tests of the core crate run.  apply takes &mut self, so an instruction  *)
(* is one step.                                                            *)
(***************************************************************************)
EXTENDS Naturals, Sequences

CONSTANTS Cid, NoEntry

VARIABLES
    entries,    \* the map from CID hashes to entries
    outcome     \* what the last instruction returned

Init ==
    /\ entries = [c \in Cid |-> NoEntry]
    /\ outcome = [entries |-> << >>, inserted |-> 0, skipped_existing |-> 0]

Query(state, c) == state[c]

\* The first entry of a CID stays; anchoring the CID again returns it.
AnchorOne_Replaces(state, e) ==
    [state |-> [state EXCEPT ![e.cid] = e], entry |-> e,
     inserted |-> state[e.cid] = NoEntry]
AnchorOne(state, e) ==
    IF Query(state, e.cid) # NoEntry
    THEN [state |-> state, entry |-> Query(state, e.cid), inserted |-> FALSE]
    ELSE [state |-> [state EXCEPT ![e.cid] = e], entry |-> e, inserted |-> TRUE]

\* anchor_batch anchors one entry after the other, so an entry also finds
\* what an earlier entry of the same batch anchored.
CountOne_Always(acc, e, one) ==
    [state |-> one.state,
     entries |-> Append(acc.entries, e),
     inserted |-> acc.inserted + 1,
     skipped_existing |-> acc.skipped_existing]
CountOne(acc, e, one) ==
    [state |-> one.state,
     entries |-> Append(acc.entries, one.entry),
     inserted |-> acc.inserted + IF one.inserted THEN 1 ELSE 0,
     skipped_existing |-> acc.skipped_existing + IF one.inserted THEN 0 ELSE 1]

\* The loop of anchor_batch: what it has after its n-th round.
Rounds(state, es) ==
    LET round[n \in 0..Len(es)] ==
          IF n = 0
          THEN [state |-> state, entries |-> << >>,
                inserted |-> 0, skipped_existing |-> 0]
          ELSE CountOne(round[n - 1], es[n], AnchorOne(round[n - 1].state, es[n]))
    IN  round

AnchorBatch(state, es) == Rounds(state, es)[Len(es)]

\* es: the instruction's entries, each with the instruction's timestamp.
\* An AnchorOne is a batch of one, but for the type of the outcome.
Apply(es) ==
    LET result == AnchorBatch(entries, es) IN
    /\ entries' = result.state
    /\ outcome' = [entries |-> result.entries,
                   inserted |-> result.inserted,
                   skipped_existing |-> result.skipped_existing]

===============================================================================
