----------------------------- MODULE MCDedupeStore -----------------------------
(* One or two batch tools on one file; the configurations choose.            *)
EXTENDS DedupeStore, TLC

CONSTANTS h1, h2, p, q

\* Neither the hashes nor the processes differ in anything; the properties are
\* about safety.
Symmetry == Permutations(Hash) \cup Permutations(Process)

===============================================================================
