------------------------------- MODULE Registry -------------------------------
(***************************************************************************)
(* What the registry promises, whoever implements it (the guest program,   *)
(* the in-memory RegistryState, or the chain as the batch tool sees it):   *)
(* a map from CIDs to anchor entries that is write-once.  One step may     *)
(* anchor several CIDs, as one AnchorBatch instruction does; it then gives *)
(* all of them the one timestamp that the instruction carries.             *)
(***************************************************************************)
CONSTANTS
    Cid,        \* canonical CIDs (CanonicalCid: trimmed, not empty)
    Metadata,   \* metadata hashes
    Time,       \* anchor timestamps
    NoEntry     \* "this CID is not anchored"

\* The map is keyed by the SHA-256 of the CID; the model takes that hash to
\* be injective, so the key is the CID itself and cid_hash is not repeated.
AnchorEntry ==
    [cid : Cid, metadata_hash : Metadata, anchor_timestamp : Time]

VARIABLE anchored

Init == anchored = [c \in Cid |-> NoEntry]

Fresh(c) == anchored[c] = NoEntry /\ anchored'[c] # NoEntry

\* An entry sits under its own CID, existing entries stay as they are, and
\* the entries added by one step share their timestamp.
Anchor ==
    /\ anchored' \in [Cid -> AnchorEntry \cup {NoEntry}]
    /\ \A c \in Cid : anchored[c] # NoEntry => anchored'[c] = anchored[c]
    /\ \A c \in Cid : Fresh(c) => anchored'[c].cid = c
    /\ \A c, d \in Cid :
          Fresh(c) /\ Fresh(d)
             => anchored'[c].anchor_timestamp = anchored'[d].anchor_timestamp

Next == Anchor

Spec == Init /\ [][Next]_anchored

===============================================================================
