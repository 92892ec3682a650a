----------------------------- MODULE MCLezAdapter -----------------------------
(* Two callers that compete for c1 with different metadata; one request has  *)
(* two CIDs, so that a call can be between its reads when others land.       *)
EXTENDS LezAdapter, TLC

CONSTANTS c1, c2, m1, m2

MCMaxAttempts == [p \in Client |-> 2]

Ask(c, m) == [cid |-> c, metadata_hash |-> m]

MCRequest == {<<Ask(c1, m1)>>, <<Ask(c2, m1), Ask(c1, m2)>>}

\* With a batch that repeats a CID (one file, published twice).
MCRequestRepeated == MCRequest \cup {<<Ask(c1, m2), Ask(c1, m1)>>}

\* The callers are alike; only safety is checked with this.
MCSymmetry == Permutations(Client)

===============================================================================
