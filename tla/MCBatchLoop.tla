----------------------------- MODULE MCBatchLoop -----------------------------
(* Four envelopes: two for different CIDs, one that repeats the first CID    *)
(* (the same file with other metadata), and one that does not parse.         *)
EXTENDS BatchLoop, TLC

CONSTANTS e1, e2, e3, e4, c1, c2

MCCidOf ==
    [e \in Envelope |-> CASE e \in {e1, e3} -> c1
                          [] e = e2 -> c2
                          [] e = e4 -> Invalid]

\* The two envelopes of one CID are alike; only safety is checked with this.
MCSymmetry == Permutations({e1, e3})

===============================================================================
